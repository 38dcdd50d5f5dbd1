----------------------------- MODULE MCObservers -----------------------------
(* TLC instance of Observers: one source, with every limiter but the       *)
(* global one on and tight enough to refuse within the bound, and time for *)
(* strikes on both sides of a window boundary, for a blacklisting to end   *)
(* and for the whitelist entry to expire.                                  *)
EXTENDS Observers

CONSTANT a

(* The drops for each reason that the history does not hold. *)
Unrecorded ==
  IF a \in DOMAIN dropHistory
  THEN [reason \in Reasons |->
          stats[reason] - dropHistory[a].counts[reason]]
  ELSE [reason \in Reasons |-> stats[reason]]

(* The packets of each protocol that a summary or a metric misses. *)
Missed ==
  LET s == Summary
      e == Emitted
  IN  <<handled.tcp - s.passTCP - s.dropTCP,
        handled.udp - s.passUDP - s.dropUDP, handled.ip - s.ipFragments,
        [p \in Protocols |-> handled[p] - SumOfStats(e[p])]>>

(* The requests that a counter of requests misses. *)
Unseen ==
  <<requests.bot - stats["tcp_bad_user_agent"],
    requests.post - SumOfStats(Outcomes),
    requests.post - stats["tcp_post_client_seen"],
    requests.get - stats["tcp_getinfo_seen"], requests.bot>>

(* Hidden from the fingerprint: the instants in tcp_established,           *)
(* tcp_syn_seen and ip_drop_history, which neither a handler nor a         *)
(* property of this run reads, and the counters.  Handlers only add to     *)
(* counters, and the properties read no more of them than the differences  *)
(* that are kept.                                                          *)
View == <<now, load, whitelist, DOMAIN established, DOMAIN synSeen, openCount,
          ipBuckets, udpHealth, DOMAIN dropHistory, kernel, history,
          Unrecorded, Missed, Unseen>>
==============================================================================
