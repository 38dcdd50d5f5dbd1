---------------------------- MODULE RestartProofs ----------------------------
(***************************************************************************)
(* What overlapping callbacks, crashes, restarts and evictions can do to   *)
(* tcp_open_count, for any number of CPUs and sockets.                     *)
(***************************************************************************)
EXTENDS Restart, TLAPS, FiniteSetTheorems

Typed ==
  /\ callback \in [CPUs -> Callback \cup {Idle}]
  /\ openCount # NoEntry => openCount \in Int
  /\ open \subseteq Sockets /\ flagged \subseteq open

(* A callback runs with its socket locked, so no other CPU has it. *)
Locked ==
  \A c, d \in CPUs :
    callback[c] # Idle =>
      /\ callback[c].socket \in open
      /\ callback[d] # Idle /\ callback[c].socket = callback[d].socket => c = d

Arriving(c) == callback[c].at \in {"create", "lookup", "add"}

(* The flag is the last thing the first callback sets. *)
Unflagged == \A c \in CPUs : Arriving(c) => callback[c].socket \notin flagged

(* CPUs between the comparison with zero and the subtraction. *)
Subtracting == {c \in CPUs : callback[c].at = "sub"}

(* The bound below, with every pending subtraction made. *)
Settled ==
  openCount # NoEntry =>
    openCount - Cardinality(Subtracting) >= 1 - Cardinality(CPUs)

(* Sockets whose closing will not be counted, or not against their entry. *)
StaleClosing ==
  {s \in Sockets : \E c \in CPUs : /\ callback[c].at = "sub"
                                   /\ ~callback[c].valid
                                   /\ callback[c].socket = s}

(* An entry was made after the reset passed, and counts nothing older. *)
Fresh == phase = "serving" \/ (phase = "clearing" /\ ~doomed)

Attached == phase \in {"sockops_attached", "clearing", "serving"} => Hooked

(* The bound above: what an entry counts has its flag and will be counted  *)
(* down again.                                                             *)
Covered ==
  Fresh /\ openCount # NoEntry =>
    openCount <= Cardinality(flagged \ StaleClosing)

Inv == Typed /\ Locked /\ Unflagged /\ Settled /\ Attached /\ Covered

------------------------------------------------------------------------------
(* Counting *)

(* The sets that the bounds count are finite. *)
LEMMA Finite ==
  ASSUME Typed
  PROVE  /\ IsFiniteSet(CPUs) /\ Cardinality(CPUs) \in Nat /\ Cardinality(CPUs) >= 1
         /\ IsFiniteSet(Subtracting) /\ Cardinality(Subtracting) \in Nat
         /\ Cardinality(Subtracting) <= Cardinality(CPUs)
         /\ IsFiniteSet(open) /\ Cardinality(open) \in Nat
         /\ IsFiniteSet(flagged \ StaleClosing)
         /\ Cardinality(flagged \ StaleClosing) \in Nat
         /\ Cardinality(flagged \ StaleClosing) <= Cardinality(open)
<1>1. IsFiniteSet(CPUs) /\ CPUs # {} /\ IsFiniteSet(Sockets) BY RestartAssumption
<1>2. Cardinality(CPUs) \in Nat /\ Cardinality(CPUs) >= 1
  BY <1>1, FS_CardinalityType, FS_EmptySet
<1>3. Subtracting \in SUBSET CPUs BY DEF Subtracting
<1>4. open \in SUBSET Sockets BY DEF Typed
<1>5. flagged \ StaleClosing \in SUBSET open BY DEF Typed
<1>6. IsFiniteSet(Subtracting) /\ Cardinality(Subtracting) <= Cardinality(CPUs)
  BY <1>1, <1>3, FS_Subset
<1>7. IsFiniteSet(open) BY <1>1, <1>4, FS_Subset
<1>8. IsFiniteSet(flagged \ StaleClosing)
      /\ Cardinality(flagged \ StaleClosing) <= Cardinality(open)
  BY <1>5, <1>7, FS_Subset
<1> QED BY <1>1, <1>2, <1>6, <1>7, <1>8, FS_CardinalityType

(* A set that grows, shrinks by at most one element, or gains one. *)
LEMMA Monotone ==
  ASSUME NEW S, NEW T, IsFiniteSet(T), S \subseteq T
  PROVE  Cardinality(S) <= Cardinality(T)
BY FS_Subset

LEMMA LosesOne ==
  ASSUME NEW S, NEW T, NEW x, IsFiniteSet(S), IsFiniteSet(T), S \ {x} \subseteq T
  PROVE  Cardinality(T) >= Cardinality(S) - 1
<1>1. Cardinality(S \ {x}) >= Cardinality(S) - 1
  <2>1. Cardinality(S) \in Nat BY FS_CardinalityType
  <2>2. Cardinality(S \ {x}) = IF x \in S THEN Cardinality(S) - 1
                               ELSE Cardinality(S)
    BY FS_RemoveElement
  <2> QED BY <2>1, <2>2
<1>2. Cardinality(S \ {x}) <= Cardinality(T) BY FS_Subset
<1>3. Cardinality(S \ {x}) \in Nat /\ Cardinality(S) \in Nat /\ Cardinality(T) \in Nat
  BY FS_RemoveElement, FS_CardinalityType
<1> QED BY <1>1, <1>2, <1>3

LEMMA GainsOne ==
  ASSUME NEW S, NEW T, NEW x, IsFiniteSet(S), IsFiniteSet(T),
         S \cup {x} \subseteq T, x \notin S
  PROVE  Cardinality(T) >= Cardinality(S) + 1
<1>1. IsFiniteSet(S \cup {x}) /\ Cardinality(S \cup {x}) = Cardinality(S) + 1
  BY FS_AddElement
<1>2. Cardinality(S \cup {x}) <= Cardinality(T) BY FS_Subset
<1>3. Cardinality(S \cup {x}) \in Nat /\ Cardinality(S) \in Nat /\ Cardinality(T) \in Nat
  BY <1>1, FS_CardinalityType
<1> QED BY <1>1, <1>2, <1>3

------------------------------------------------------------------------------
(* The steps, by what they do to the kernel's side *)

(* A step of the daemon that leaves the kernel's side alone. *)
Aside ==
  /\ UNCHANGED kernel
  /\ Attached'
  /\ \/ (Fresh' => Fresh) /\ UNCHANGED heldAtReset
     \/ /\ Fresh' => openCount = NoEntry
        /\ heldAtReset' = Cardinality(open)

(* The entry is removed, by the reset or by the kernel. *)
Removal == RemoveEntry /\ Attached'

(* A CPU starts, continues or ends a callback. *)
Kernel == \E c \in CPUs : Sockops(c)

LEMMA Steps ==
  ASSUME Attached, [Next]_vars
  PROVE  Aside \/ Removal \/ Kernel
<1> USE DEF Attached, Hooked, Fresh
<1>1. CASE UNCHANGED vars BY <1>1 DEF Aside, vars, daemon, kernel
<1>2. CASE LoadXDP \/ AttachXDP \/ LoadSockops \/ AttachCgroup
  BY <1>2 DEF LoadXDP, AttachXDP, LoadSockops, AttachCgroup, Proceed,
                SockopsObjects, Aside
<1>3. CASE CollectCounts BY <1>3 DEF CollectCounts, Aside
<1>4. CASE DeleteCounts
  <2>1. CASE doomed BY <1>4, <2>1 DEF DeleteCounts, Removal
  <2>2. CASE ~doomed BY <1>4, <2>2 DEF DeleteCounts, Aside
  <2> QED BY <2>1, <2>2
<1>5. CASE LoadFails \/ Crash BY <1>5 DEF LoadFails, Crash, Aside
<1>6. CASE Shutdown \/ CloseSockops \/ CloseXDP \/ CloseMaps
  BY <1>6 DEF Shutdown, CloseSockops, CloseXDP, CloseMaps, Proceed, Aside
<1>7. CASE Evict BY <1>7 DEF Evict, Removal, daemon
<1>8. CASE Kernel BY <1>8
<1> QED BY <1>1, <1>2, <1>3, <1>4, <1>5, <1>6, <1>7, <1>8 DEF Next, Daemon, Kernel

(* A CPU that runs a callback has a record of the right form. *)
LEMMA Running ==
  ASSUME Typed, Locked, NEW c \in CPUs, callback[c].at # "idle"
  PROVE  /\ callback[c] \in Callback /\ callback[c] # Idle
         /\ callback[c].socket \in Sockets /\ callback[c].socket \in open
<1>1. callback[c] \in Callback \cup {Idle} BY DEF Typed
<1>2. callback[c] # Idle BY DEF Idle
<1> QED BY <1>1, <1>2 DEF Callback, Locked

LEMMA TypedKept ==
  ASSUME Typed, Locked, Aside \/ Removal \/ Kernel
  PROVE  Typed'
<1> USE DEF Typed
<1>1. CASE Aside BY <1>1 DEF Aside, kernel
<1>2. CASE Removal
  <2>1. ASSUME NEW c \in CPUs, callback[c] # Idle
        PROVE  [callback[c] EXCEPT !.valid = FALSE] \in Callback
    BY <2>1 DEF Callback
  <2> QED BY <1>2, <2>1 DEF Removal, RemoveEntry
<1>3. ASSUME NEW c \in CPUs, Sockops(c) PROVE Typed'
  <2>1. ASSUME NEW s \in Sockets, NEW valid \in BOOLEAN,
               NEW label \in {"create", "lookup", "add", "check", "sub"},
               Run(c, s, label, valid)
        PROVE  callback' \in [CPUs -> Callback \cup {Idle}]
    BY <2>1 DEF Callback, Run
  <2>2. Return(c) => callback' \in [CPUs -> Callback \cup {Idle}]
    BY DEF Return
  <2>3. ASSUME NEW delta \in Int, AddThrough(c, delta)
        PROVE  openCount' # NoEntry => openCount' \in Int
    BY <2>3 DEF AddThrough
  <2> DEFINE s0 == callback[c].socket
  <2>4. callback[c].at # "idle" => s0 \in Sockets /\ s0 \in open
    BY Running
  <2>5. ASSUME NEW s \in Sockets, Established(c, s) \/ Closed(c, s) PROVE Typed'
    BY <2>1, <2>5 DEF Established, Closed, Gone
  <2>6. CASE CreateCount(c)
    <3>1. callback' \in [CPUs -> Callback \cup {Idle}]
      BY <2>1, <2>4, <2>6 DEF CreateCount
    <3> QED BY <2>6, <3>1 DEF CreateCount
  <2>7. CASE LookupCount(c)
    <3>1. callback' \in [CPUs -> Callback \cup {Idle}]
      BY <2>1, <2>2, <2>4, <2>7 DEF LookupCount
    <3> QED BY <2>4, <2>7, <3>1 DEF LookupCount
  <2>8. CASE IncCount(c)
    <3>1. callback' \in [CPUs -> Callback \cup {Idle}] BY <2>2, <2>8 DEF IncCount
    <3>2. openCount' # NoEntry => openCount' \in Int BY <2>3, <2>8 DEF IncCount
    <3> QED BY <2>4, <2>8, <3>1, <3>2 DEF IncCount
  <2>9. CASE CheckCount(c)
    <3>1. callback' \in [CPUs -> Callback \cup {Idle}]
      BY <2>1, <2>2, <2>4, <2>9 DEF CheckCount
    <3> QED BY <2>9, <3>1 DEF CheckCount, Gone
  <2>10. CASE DecCount(c)
    <3>1. callback' \in [CPUs -> Callback \cup {Idle}] BY <2>2, <2>10 DEF DecCount
    <3>2. openCount' # NoEntry => openCount' \in Int BY <2>3, <2>10 DEF DecCount
    <3> QED BY <2>10, <3>1, <3>2 DEF DecCount, Gone
  <2> QED BY <1>3, <2>5, <2>6, <2>7, <2>8, <2>9, <2>10 DEF Sockops
<1> QED BY <1>1, <1>2, <1>3 DEF Kernel

(* What a step of one CPU does to the others, to the sockets and flags. *)
Starts(c, s) ==
  /\ callback[c] = Idle
  /\ \A d \in CPUs : callback[d] # Idle => callback[d].socket # s
  /\ callback'[c] \in Callback /\ callback'[c].socket = s
  /\ \/ open' = open \cup {s} /\ flagged' = flagged /\ s \notin flagged
     \/ /\ s \in open /\ open' = open /\ flagged' = flagged
        /\ callback'[c].at = "check"

(* A socket comes or goes without the program. *)
Unseen(s) ==
  /\ callback' = callback
  /\ \A d \in CPUs : callback[d] # Idle => callback[d].socket # s
  /\ \/ s \notin open /\ open' = open \cup {s} /\ flagged' = flagged
     \/ open' = open \ {s} /\ flagged' = flagged \ {s}

Continues(c) ==
  /\ callback[c].at # "idle" /\ callback'[c] \in Callback
  /\ callback'[c].socket = callback[c].socket
  /\ open' = open /\ flagged' = flagged
  /\ callback'[c].at \in {"create", "lookup", "add"} => Arriving(c)

Ends(c) ==
  /\ callback[c].at # "idle" /\ callback'[c] = Idle
  /\ \/ open' = open /\ flagged' = flagged \cup {callback[c].socket}
     \/ open' = open \ {callback[c].socket} /\ flagged' = flagged \ {callback[c].socket}

Undisturbed(c) == \A d \in CPUs \ {c} : callback'[d] = callback[d]

LEMMA SocketSteps ==
  ASSUME Typed, Locked, NEW c \in CPUs, Sockops(c)
  PROVE  /\ Undisturbed(c)
         /\ \/ \E s \in Sockets : Starts(c, s) \/ Unseen(s)
            \/ Continues(c) \/ Ends(c)
<1>1. /\ callback \in [CPUs -> Callback \cup {Idle}]
      /\ open \subseteq Sockets /\ flagged \subseteq open
  BY DEF Typed
<1>2. ASSUME NEW s, NEW label, NEW valid, Run(c, s, label, valid)
      PROVE  /\ Undisturbed(c)
             /\ callback'[c] = [at |-> label, socket |-> s, valid |-> valid]
  BY <1>1, <1>2 DEF Run, Undisturbed
<1>3. Return(c) => Undisturbed(c) /\ callback'[c] = Idle
  BY <1>1 DEF Return, Undisturbed
<1>4. callback[c].at # "idle" => callback[c].socket \in Sockets
  BY Running
<1>5. ASSUME NEW s \in Sockets, Established(c, s)
      PROVE  Undisturbed(c) /\ (Starts(c, s) \/ Unseen(s))
  <2>1. \A d \in CPUs : callback[d] # Idle => callback[d].socket # s
    BY <1>5 DEF Established, Locked
  <2>2. CASE Hooked
    <3>1. Run(c, s, "create", FALSE) BY <1>5, <2>2 DEF Established
    <3> callback'[c] = [at |-> "create", socket |-> s, valid |-> FALSE]
      BY <1>2, <3>1
    <3>2. callback'[c] \in Callback /\ callback'[c].socket = s
      BY DEF Callback
    <3> QED BY <1>1, <1>2, <1>5, <2>1, <3>1, <3>2 DEF Established, Starts
  <2>3. CASE ~Hooked
    BY <1>5, <2>1, <2>3 DEF Established, Unseen, Undisturbed
  <2> QED BY <2>2, <2>3
<1>6. ASSUME NEW s \in Sockets, Closed(c, s)
      PROVE  Undisturbed(c) /\ (Starts(c, s) \/ Unseen(s))
  <2>1. \A d \in CPUs : callback[d] # Idle => callback[d].socket # s
    BY <1>6 DEF Closed, Busy
  <2>2. CASE Hooked /\ s \in flagged
    <3>1. Run(c, s, "check", FALSE) /\ open' = open /\ flagged' = flagged
      BY <1>6, <2>2 DEF Closed
    <3> callback'[c] = [at |-> "check", socket |-> s, valid |-> FALSE]
      BY <1>2, <3>1
    <3>2. /\ callback'[c] \in Callback /\ callback'[c].socket = s
          /\ callback'[c].at = "check"
      BY DEF Callback
    <3> QED BY <1>2, <1>6, <2>1, <3>1, <3>2 DEF Closed, Starts
  <2>3. CASE ~(Hooked /\ s \in flagged)
    BY <1>6, <2>1, <2>3 DEF Closed, Gone, Unseen, Undisturbed
  <2> QED BY <2>2, <2>3
<1> DEFINE s0 == callback[c].socket
<1>7. ASSUME NEW label \in {"create", "lookup", "add", "check", "sub"},
             NEW valid \in BOOLEAN, Run(c, s0, label, valid),
             callback[c].at # "idle", open' = open, flagged' = flagged,
             label \in {"lookup", "add"} => Arriving(c), label # "create"
      PROVE  Undisturbed(c) /\ Continues(c)
  <2>1. /\ Undisturbed(c)
        /\ callback'[c] = [at |-> label, socket |-> s0, valid |-> valid]
    BY <1>2, <1>7
  <2>2. s0 \in Sockets BY <1>4, <1>7
  <2>3. callback'[c] \in Callback BY <2>1, <2>2 DEF Callback
  <2> QED BY <1>7, <2>1, <2>3 DEF Continues
<1>8. CreateCount(c) => Undisturbed(c) /\ Continues(c)
  BY <1>7 DEF CreateCount, Arriving
<1>9. LookupCount(c) => Undisturbed(c) /\ (Continues(c) \/ Ends(c))
  <2>1. CASE openCount = NoEntry BY <1>3, <2>1 DEF LookupCount, Ends
  <2>2. CASE openCount # NoEntry BY <1>7, <2>2 DEF LookupCount, Arriving
  <2> QED BY <2>1, <2>2
<1>10. IncCount(c) => Undisturbed(c) /\ Ends(c)
  BY <1>3 DEF IncCount, Ends
<1>11. CheckCount(c) => Undisturbed(c) /\ (Continues(c) \/ Ends(c))
  <2>1. CASE Positive BY <1>7, <2>1 DEF CheckCount
  <2>2. CASE ~Positive BY <1>3, <2>2 DEF CheckCount, Ends, Gone
  <2> QED BY <2>1, <2>2
<1>12. DecCount(c) => Undisturbed(c) /\ Ends(c)
  BY <1>3 DEF DecCount, Ends, Gone
<1> QED BY <1>5, <1>6, <1>8, <1>9, <1>10, <1>11, <1>12 DEF Sockops

LEMMA LockedKept ==
  ASSUME Typed, Locked, Aside \/ Removal \/ Kernel
  PROVE  Locked'
<1>1. CASE Aside BY <1>1 DEF Aside, kernel, Locked
<1>2. CASE Removal
  <2>1. \A c \in CPUs :
          /\ callback'[c] = Idle <=> callback[c] = Idle
          /\ callback'[c].socket = callback[c].socket
    BY <1>2 DEF Removal, RemoveEntry, Typed, Callback, Idle
  <2> QED BY <1>2, <2>1 DEF Removal, RemoveEntry, Locked
<1>3. ASSUME NEW c \in CPUs, Sockops(c) PROVE Locked'
  <2>1. Undisturbed(c) BY <1>3, SocketSteps
  <2>2. ASSUME NEW s \in Sockets, Starts(c, s) PROVE Locked'
    BY <2>1, <2>2 DEF Starts, Undisturbed, Locked
  <2>3. ASSUME NEW s \in Sockets, Unseen(s) PROVE Locked'
    BY <2>3 DEF Unseen, Locked
  <2>4. CASE Continues(c)
    <3>1. callback[c] # Idle BY <2>4 DEF Continues, Idle
    <3> QED BY <2>1, <2>4, <3>1 DEF Continues, Undisturbed, Locked
  <2>5. CASE Ends(c)
    <3>1. callback[c] # Idle BY <2>5 DEF Ends, Idle
    <3> QED BY <2>1, <2>5, <3>1 DEF Ends, Undisturbed, Locked
  <2> QED BY <1>3, <2>2, <2>3, <2>4, <2>5, SocketSteps
<1> QED BY <1>1, <1>2, <1>3 DEF Kernel

LEMMA UnflaggedKept ==
  ASSUME Typed, Locked, Unflagged, Aside \/ Removal \/ Kernel
  PROVE  Unflagged'
<1> USE DEF Arriving
<1>1. CASE Aside BY <1>1 DEF Aside, kernel, Unflagged
<1>2. CASE Removal
  <2>1. \A c \in CPUs : /\ callback'[c].at = callback[c].at
                        /\ callback'[c].socket = callback[c].socket
    BY <1>2 DEF Removal, RemoveEntry, Typed, Callback, Idle
  <2> QED BY <1>2, <2>1 DEF Removal, RemoveEntry, Unflagged
<1>3. ASSUME NEW c \in CPUs, Sockops(c) PROVE Unflagged'
  <2>1. Undisturbed(c) BY <1>3, SocketSteps
  <2>2. \A d \in CPUs : callback[d].at # "idle" => callback[d] # Idle
    BY DEF Idle
  <2>3. ASSUME NEW s \in Sockets, Starts(c, s) PROVE Unflagged'
    BY <2>1, <2>3 DEF Starts, Undisturbed, Unflagged
  <2>4. ASSUME NEW s \in Sockets, Unseen(s) PROVE Unflagged'
    BY <2>4 DEF Unseen, Unflagged
  <2>5. CASE Continues(c)
    BY <2>1, <2>5 DEF Continues, Undisturbed, Unflagged
  <2>6. CASE Ends(c)
    <3>1. \A d \in CPUs \ {c} :
            callback[d].at # "idle" => callback[d].socket # callback[c].socket
      BY <2>2, <2>6 DEF Ends, Locked
    <3>2. callback'[c].at = "idle" BY <2>6 DEF Ends, Idle
    <3> QED BY <2>1, <2>6, <3>1, <3>2 DEF Ends, Undisturbed, Unflagged
  <2> QED BY <1>3, <2>3, <2>4, <2>5, <2>6, SocketSteps
<1> QED BY <1>1, <1>2, <1>3 DEF Kernel

LEMMA AttachedKept ==
  ASSUME Attached, Aside \/ Removal \/ Kernel
  PROVE  Attached'
<1>1. ASSUME NEW c \in CPUs, Sockops(c) PROVE UNCHANGED daemon
  BY <1>1 DEF Sockops, Established, Closed, CreateCount, LookupCount, IncCount,
              CheckCount, DecCount
<1> QED BY <1>1 DEF Aside, Removal, Kernel, Attached, Hooked, daemon

------------------------------------------------------------------------------
(* The bound below *)

LEMMA SettledKept ==
  ASSUME Typed, Locked, Settled, Aside \/ Removal \/ Kernel
  PROVE  Settled'
<1>1. CASE Aside BY <1>1 DEF Aside, kernel, Settled, Subtracting
<1>2. CASE Removal BY <1>2 DEF Removal, RemoveEntry, Settled
<1>3. ASSUME NEW c \in CPUs, Sockops(c) PROVE Settled'
  <2> DEFINE n == Cardinality(CPUs)  p == Cardinality(Subtracting)
             q == Cardinality(Subtracting')
  <2>1. IsFiniteSet(CPUs) /\ IsFiniteSet(Subtracting) /\ IsFiniteSet(Subtracting')
    <3> Subtracting \in SUBSET CPUs /\ Subtracting' \in SUBSET CPUs
      BY DEF Subtracting
    <3> QED BY RestartAssumption, FS_Subset
  <2>2. n \in Nat /\ p \in Nat /\ q \in Nat /\ q <= n
    <3>1. Subtracting' \in SUBSET CPUs BY DEF Subtracting
    <3> QED BY <2>1, <3>1, FS_Subset, FS_CardinalityType
  <2>3. openCount # NoEntry => openCount \in Int /\ openCount - p >= 1 - n
    BY DEF Settled, Typed
  <2>4. \A d \in CPUs \ {c} : callback'[d] = callback[d]
    BY <1>3, SocketSteps DEF Undisturbed
  <2>5. callback'[c].at # "sub" => Subtracting' \subseteq Subtracting
    BY <2>4 DEF Subtracting
  <2>6. callback'[c].at # "sub" => q <= p
    BY <2>1, <2>5, Monotone
  <2>7. callback \in [CPUs -> Callback \cup {Idle}] BY DEF Typed
  <2> HIDE DEF n, p, q
  <2>8. CASE UNCHANGED openCount /\ callback'[c].at # "sub"
    BY <2>2, <2>3, <2>6, <2>8 DEF Settled, n, p, q
  <2>9. ASSUME NEW s \in Sockets, Established(c, s) PROVE Settled'
    <3> callback'[c].at # "sub"
      BY <2>7, <2>9 DEF Established, Run, Idle
    <3> QED BY <2>8, <2>9 DEF Established
  <2>10. ASSUME NEW s \in Sockets, Closed(c, s) PROVE Settled'
    <3> callback'[c].at # "sub"
      BY <2>7, <2>10 DEF Closed, Run, Idle
    <3> QED BY <2>8, <2>10 DEF Closed
  <2>11. CASE CreateCount(c)
    <3>1. callback'[c].at # "sub" BY <2>7, <2>11 DEF CreateCount, Run
    <3>2. CASE openCount = NoEntry
      <4>1. openCount' = 0 BY <2>11, <3>2 DEF CreateCount
      <4>2. c \notin Subtracting' BY <3>1 DEF Subtracting
      <4>3. Subtracting' \cup {c} \subseteq CPUs BY DEF Subtracting
      <4>4. n >= q + 1 BY <2>1, <4>2, <4>3, GainsOne DEF n, q
      <4> QED BY <2>2, <4>1, <4>4 DEF Settled, n, q
    <3>3. CASE openCount # NoEntry
      BY <2>8, <2>11, <3>1, <3>3 DEF CreateCount
    <3> QED BY <3>2, <3>3
  <2>12. CASE LookupCount(c)
    <3> callback'[c].at # "sub"
      BY <2>7, <2>12 DEF LookupCount, Run, Return, Idle
    <3> QED BY <2>8, <2>12 DEF LookupCount
  <2>13. CASE IncCount(c)
    <3>1. callback'[c].at # "sub" BY <2>7, <2>13 DEF IncCount, Return, Idle
    <3>2. \/ openCount # NoEntry /\ openCount' = openCount + 1
          \/ openCount' = openCount
      BY <2>13 DEF IncCount, AddThrough
    <3>3. CASE openCount # NoEntry /\ openCount' = openCount + 1
      <4>1. openCount' - q >= 1 - n BY <2>2, <2>3, <2>6, <3>1, <3>3
      <4> QED BY <4>1 DEF Settled, n, q
    <3> QED BY <2>8, <3>1, <3>2, <3>3
  <2>14. CASE CheckCount(c)
    <3>1. CASE Positive
      <4>1. openCount' = openCount /\ openCount \in Int /\ openCount > 0
        BY <2>3, <2>14, <3>1 DEF CheckCount, Positive
      <4>2. openCount' - q >= 1 - n BY <2>2, <4>1
      <4> QED BY <4>2 DEF Settled, n, q
    <3>2. CASE ~Positive
      <4> callback'[c].at # "sub"
        BY <2>7, <2>14, <3>2 DEF CheckCount, Return, Idle
      <4> QED BY <2>8, <2>14 DEF CheckCount
    <3> QED BY <3>1, <3>2
  <2>15. CASE DecCount(c)
    <3>1. callback'[c].at # "sub" BY <2>7, <2>15 DEF DecCount, Return, Idle
    <3>2. \/ openCount # NoEntry /\ openCount' = openCount - 1
          \/ openCount' = openCount
      BY <2>3, <2>15 DEF DecCount, AddThrough
    <3>3. CASE openCount # NoEntry /\ openCount' = openCount - 1
      <4>1. c \in Subtracting /\ c \notin Subtracting'
        BY <2>15, <3>1 DEF DecCount, Subtracting
      <4>2. Subtracting' \cup {c} \subseteq Subtracting BY <2>5, <3>1, <4>1
      <4>3. p >= q + 1 BY <2>1, <4>1, <4>2, GainsOne DEF p, q
      <4>4. openCount' - q >= 1 - n BY <2>2, <2>3, <3>3, <4>3
      <4> QED BY <4>4 DEF Settled, n, q
    <3> QED BY <2>8, <3>1, <3>2, <3>3
  <2> QED BY <1>3, <2>9, <2>10, <2>11, <2>12, <2>13, <2>14, <2>15 DEF Sockops
<1> QED BY <1>1, <1>2, <1>3 DEF Kernel

------------------------------------------------------------------------------
(* The bound above *)

(* Only a subtraction that begins on a stale pointer adds to StaleClosing. *)
LEMMA StaleKept ==
  ASSUME NEW c \in CPUs, Undisturbed(c),
         callback'[c].at = "sub" => callback'[c].valid
  PROVE  StaleClosing' \subseteq StaleClosing
BY DEF StaleClosing, Undisturbed

LEMMA CoveredKept ==
  ASSUME Inv, Typed', Aside \/ Removal \/ Kernel
  PROVE  Covered'
<1>1. CASE Aside BY <1>1 DEF Aside, kernel, Inv, Covered, StaleClosing
<1>2. CASE Removal BY <1>2 DEF Removal, RemoveEntry, Covered
<1>3. ASSUME NEW c \in CPUs, Sockops(c) PROVE Covered'
  <2> DEFINE F == flagged \ StaleClosing
             s0 == callback[c].socket
  <2>1. Typed /\ Locked /\ Unflagged /\ Attached /\ Covered BY DEF Inv
  <2>2. callback \in [CPUs -> Callback \cup {Idle}] BY <2>1 DEF Typed
  <2>3. Undisturbed(c) BY <1>3, <2>1, SocketSteps
  <2>4. /\ IsFiniteSet(F) /\ Cardinality(F) \in Nat
        /\ IsFiniteSet(F') /\ Cardinality(F') \in Nat
    <3> F \in SUBSET Sockets /\ F' \in SUBSET Sockets
      BY <2>1 DEF Typed
    <3> QED BY RestartAssumption, FS_Subset, FS_CardinalityType
  <2>5. Fresh' <=> Fresh
    <3> UNCHANGED daemon
      BY <1>3 DEF Sockops, Established, Closed, CreateCount, LookupCount,
                  IncCount, CheckCount, DecCount
    <3> QED BY DEF Fresh, daemon
  <2>6. Fresh /\ openCount # NoEntry =>
          openCount \in Int /\ openCount <= Cardinality(F)
    BY <2>1 DEF Covered, Typed
  <2>7. (callback'[c].at = "sub" => callback'[c].valid)
          => StaleClosing' \subseteq StaleClosing
    BY <2>3, StaleKept
  <2> HIDE DEF F
  <2>8. ASSUME F \subseteq F', UNCHANGED openCount PROVE Covered'
    <3> Cardinality(F) <= Cardinality(F') BY <2>4, <2>8, Monotone
    <3> QED BY <2>4, <2>5, <2>6, <2>8 DEF Covered, F
  <2>9. ASSUME flagged \subseteq flagged', UNCHANGED openCount,
               callback'[c].at = "sub" => callback'[c].valid
        PROVE  Covered'
    BY <2>7, <2>8, <2>9 DEF F
  <2>10. ASSUME NEW s \in Sockets, Established(c, s) PROVE Covered'
    <3> callback'[c].at # "sub" BY <2>2, <2>10 DEF Established, Run, Idle
    <3> QED BY <2>9, <2>10 DEF Established
  <2>11. ASSUME NEW s \in Sockets, Closed(c, s) PROVE Covered'
    <3>1. callback'[c].at # "sub" BY <2>2, <2>11 DEF Closed, Run, Idle
    <3>2. CASE Hooked
      <4> flagged \subseteq flagged' BY <2>11, <3>2 DEF Closed, Gone
      <4> QED BY <2>9, <2>11, <3>1 DEF Closed
    <3>3. CASE ~Hooked
      <4> ~Fresh BY <2>1, <3>3 DEF Attached, Fresh
      <4> QED BY <2>5 DEF Covered
    <3> QED BY <3>2, <3>3
  <2>12. CASE CreateCount(c)
    <3>1. callback'[c].at # "sub" BY <2>2, <2>12 DEF CreateCount, Run
    <3>2. CASE openCount = NoEntry
      <4>1. openCount' = 0 BY <2>12, <3>2 DEF CreateCount
      <4>2. 0 <= Cardinality(F') BY <2>4
      <4> QED BY <4>1, <4>2 DEF Covered, F
    <3>3. CASE openCount # NoEntry
      BY <2>9, <2>12, <3>1, <3>3 DEF CreateCount
    <3> QED BY <3>2, <3>3
  <2>13. CASE LookupCount(c)
    <3> callback'[c].at # "sub"
      BY <2>2, <2>13 DEF LookupCount, Run, Return, Idle
    <3> flagged \subseteq flagged' BY <2>13 DEF LookupCount
    <3> QED BY <2>9, <2>13 DEF LookupCount
  <2>14. CASE IncCount(c)
    <3>1. callback'[c].at # "sub" BY <2>2, <2>14 DEF IncCount, Return, Idle
    <3>2. \/ openCount # NoEntry /\ openCount' = openCount + 1
          \/ openCount' = openCount
      BY <2>14 DEF IncCount, AddThrough
    <3>3. flagged' = flagged \cup {s0} BY <2>14 DEF IncCount
    <3>4. CASE openCount # NoEntry /\ openCount' = openCount + 1
      <4>1. s0 \notin flagged
        BY <2>1, <2>14 DEF IncCount, Unflagged, Arriving
      <4>2. s0 \notin StaleClosing
        <5>1. callback[c] # Idle BY <2>14 DEF IncCount, Idle
        <5>2. ASSUME NEW d \in CPUs, callback[d].at = "sub",
                     callback[d].socket = s0
              PROVE  FALSE
          <6>1. callback[d] # Idle BY <5>2 DEF Idle
          <6>2. c = d BY <2>1, <5>1, <5>2, <6>1 DEF Locked
          <6> QED BY <2>14, <5>2, <6>2 DEF IncCount
        <5> QED BY <5>2 DEF StaleClosing
      <4>3. F \cup {s0} \subseteq F' /\ s0 \notin F
        BY <2>7, <3>1, <3>3, <4>1, <4>2 DEF F
      <4>4. Cardinality(F') >= Cardinality(F) + 1 BY <2>4, <4>3, GainsOne
      <4>5. Fresh => openCount' <= Cardinality(F')
        BY <2>4, <2>6, <3>4, <4>4
      <4> QED BY <2>5, <4>5 DEF Covered, F
    <3> QED BY <2>9, <3>1, <3>2, <3>3, <3>4
  <2>15. CASE CheckCount(c)
    <3>1. CASE Positive
      <4>1. Run(c, s0, "sub", TRUE) /\ flagged' = flagged
        BY <2>15, <3>1 DEF CheckCount
      <4>2. callback'[c].valid BY <2>2, <4>1 DEF Run
      <4> QED BY <2>9, <2>15, <4>1, <4>2 DEF CheckCount
    <3>2. CASE ~Positive
      <4>1. openCount' = openCount BY <2>15 DEF CheckCount
      <4>2. Fresh /\ openCount # NoEntry => openCount <= Cardinality(F')
        BY <2>4, <2>6, <3>2 DEF Positive
      <4> QED BY <2>5, <4>1, <4>2 DEF Covered, F
    <3> QED BY <3>1, <3>2
  <2>16. CASE DecCount(c)
    <3>1. callback'[c].at # "sub" BY <2>2, <2>16 DEF DecCount, Return, Idle
    <3>2. flagged' = flagged \ {s0} BY <2>16 DEF DecCount, Gone
    <3>3. CASE openCount # NoEntry /\ openCount' = openCount - 1
      <4>1. F \ {s0} \subseteq F' BY <2>7, <3>1, <3>2 DEF F
      <4>2. Cardinality(F') >= Cardinality(F) - 1 BY <2>4, <4>1, LosesOne
      <4>3. Fresh => openCount' <= Cardinality(F')
        BY <2>4, <2>6, <3>3, <4>2
      <4> QED BY <2>5, <4>3 DEF Covered, F
    <3>4. CASE ~callback[c].valid /\ openCount' = openCount
      <4>1. s0 \in Sockets BY <2>1, <2>16, Running DEF DecCount
      <4>2. s0 \in StaleClosing
        BY <2>16, <3>4, <4>1 DEF DecCount, StaleClosing
      <4>3. F \subseteq F' BY <2>7, <3>1, <3>2, <4>2 DEF F
      <4> QED BY <2>8, <3>4, <4>3
    <3>5. \/ openCount # NoEntry /\ openCount' = openCount + (-1)
          \/ ~callback[c].valid /\ openCount' = openCount
      BY <2>16 DEF DecCount, AddThrough
    <3>6. openCount # NoEntry => openCount \in Int BY <2>1 DEF Typed
    <3> QED BY <3>3, <3>4, <3>5, <3>6
  <2> QED BY <1>3, <2>10, <2>11, <2>12, <2>13, <2>14, <2>15, <2>16 DEF Sockops
<1> QED BY <1>1, <1>2, <1>3 DEF Kernel

------------------------------------------------------------------------------
(* The inductive invariant and what follows *)

LEMMA Initially == Init => Inv
<1> SUFFICES ASSUME Init PROVE Inv OBVIOUS
<1>1. Typed /\ Locked /\ Unflagged BY DEF Init, Typed, Locked, Unflagged, Arriving, Idle
<1>2. Settled /\ Covered /\ Attached BY DEF Init, Settled, Covered, Attached
<1> QED BY <1>1, <1>2 DEF Inv

LEMMA Inductive == Inv /\ [Next]_vars => Inv'
<1> SUFFICES ASSUME Inv, [Next]_vars PROVE Inv' OBVIOUS
<1>1. Typed /\ Locked /\ Unflagged /\ Settled /\ Attached BY DEF Inv
<1>2. Aside \/ Removal \/ Kernel BY <1>1, Steps
<1>3. Typed' BY <1>1, <1>2, TypedKept
<1>4. Locked' BY <1>1, <1>2, LockedKept
<1>5. Unflagged' BY <1>1, <1>2, UnflaggedKept
<1>6. Settled' BY <1>1, <1>2, SettledKept
<1>7. Attached' BY <1>1, <1>2, AttachedKept
<1>8. Covered' BY <1>2, <1>3, CoveredKept
<1> QED BY <1>3, <1>4, <1>5, <1>6, <1>7, <1>8 DEF Inv

LEMMA Invariance == Spec => []Inv
BY Initially, Inductive, PTL DEF Spec

(* open_count_dec compares and subtracts in two accesses: closes that      *)
(* overlap take the count of a source below zero, by less than the number  *)
(* of CPUs, whatever restarts and evictions come in between.               *)
THEOREM BarelyBelowZeroAlways == Spec => []CountBarelyBelowZero
<1>1. Inv => CountBarelyBelowZero
  <2> SUFFICES ASSUME Inv, openCount # NoEntry
               PROVE  openCount >= 1 - Cardinality(CPUs)
    BY DEF CountBarelyBelowZero
  <2> Typed /\ Settled BY DEF Inv
  <2> QED BY Finite DEF Settled, Typed
<1> QED BY <1>1, Invariance, PTL

(* Once Load has returned, the cap counts no socket that the source does   *)
(* not hold: not those a crash left counted, and not through callbacks     *)
(* that were running when clearMap removed the entry.                      *)
THEOREM NeverOverAfterRestart == Spec => []CountNeverOver
<1>1. Inv => CountNeverOver
  <2> SUFFICES ASSUME Inv, phase = "serving", openCount # NoEntry
               PROVE  openCount <= Cardinality(open)
    BY DEF CountNeverOver
  <2> Typed /\ Covered /\ Fresh BY DEF Inv, Fresh
  <2> QED BY Finite DEF Covered, Typed
<1> QED BY <1>1, Invariance, PTL

------------------------------------------------------------------------------
(* What the process holds is determined by how far it has come *)

Serving == {"xdp_link", "sockops_link", "xdp_maps"}
HeldIn ==
  [down             |-> {},
   xdp_loaded       |-> XdpObjects,
   xdp_attached     |-> {"xdp_link", "xdp_maps"},
   sockops_loaded   |-> {"xdp_link", "xdp_maps"} \cup SockopsObjects,
   sockops_attached |-> Serving,
   clearing         |-> Serving,
   serving          |-> Serving,
   closing_sockops  |-> Serving,
   closing_xdp      |-> {"xdp_link", "xdp_maps"},
   closing_maps     |-> {"xdp_maps"}]

Staged ==
  /\ phase \in Phases /\ handles = HeldIn[phase]
  /\ doomed \in BOOLEAN

LEMMA StagedInit == Init => Staged
<1> SUFFICES ASSUME Init PROVE Staged OBVIOUS
<1>1. phase = "down" /\ handles = {} /\ doomed \in BOOLEAN BY DEF Init
<1>2. HeldIn["down"] = {} BY DEF HeldIn
<1> QED BY <1>1, <1>2 DEF Staged, Phases

LEMMA StagedKept ==
  ASSUME Staged, [Next]_vars
  PROVE  Staged'
<1> USE DEF Staged, Phases, HeldIn, Serving, XdpObjects, SockopsObjects
<1>1. CASE UNCHANGED vars BY <1>1 DEF vars, daemon
<1>2. CASE LoadXDP \/ AttachXDP \/ LoadSockops \/ AttachCgroup
  BY <1>2 DEF LoadXDP, AttachXDP, LoadSockops, AttachCgroup, Proceed
<1>3. CASE CollectCounts \/ DeleteCounts
  <2>1. /\ phase \in {"sockops_attached", "clearing"}
        /\ phase' \in {"clearing", "serving"} /\ handles' = handles
    BY <1>3 DEF CollectCounts, DeleteCounts
  <2>2. doomed' \in BOOLEAN
    <3>1. CASE CollectCounts BY <3>1 DEF CollectCounts
    <3>2. CASE DeleteCounts BY <3>2 DEF DeleteCounts
    <3> QED BY <1>3, <3>1, <3>2
  <2> QED BY <2>1, <2>2
<1>4. CASE LoadFails
  <2>1. /\ phase \in {"xdp_loaded", "xdp_attached", "sockops_loaded",
                      "sockops_attached", "clearing"}
        /\ handles' = handles \ Cleanup[phase] /\ phase' = "down"
    BY <1>4 DEF LoadFails, Cleanup
  <2>2. doomed' \in BOOLEAN BY <1>4 DEF LoadFails
  <2>3. HeldIn[phase] \subseteq Cleanup[phase]
    BY <2>1 DEF Cleanup
  <2>4. handles' = {} BY <2>1, <2>3
  <2> QED BY <2>1, <2>2, <2>4
<1>5. CASE Shutdown \/ CloseSockops \/ CloseXDP \/ CloseMaps
  BY <1>5 DEF Shutdown, CloseSockops, CloseXDP, CloseMaps, Proceed
<1>6. CASE Crash BY <1>6 DEF Crash
<1>7. CASE Evict \/ \E c \in CPUs : Sockops(c)
  BY <1>7 DEF Evict, daemon, Sockops, Established, Closed, CreateCount,
              LookupCount, IncCount, CheckCount, DecCount
<1> QED BY <1>1, <1>2, <1>3, <1>4, <1>5, <1>6, <1>7 DEF Next, Daemon

(* Whichever step of Load fails, wherever the process is killed, and when  *)
(* Close has returned, nothing stays attached or open; a daemon that       *)
(* serves has both programs attached (the cleanup paths of Load).          *)
THEOREM AllOrNothing == Spec => []LoadAllOrNothing
<1>1. Staged => LoadAllOrNothing
  BY DEF Staged, LoadAllOrNothing, HeldIn, Serving
<1> QED BY <1>1, StagedInit, StagedKept, PTL DEF Spec

------------------------------------------------------------------------------
(* The range of the count *)

Adding == {c \in CPUs : Arriving(c)}

(* What is about to be added fits under the bound, too. *)
Capped ==
  /\ heldAtReset \in 0..Cardinality(Sockets)
  /\ openCount # NoEntry =>
       openCount + Cardinality(Adding) <= MaxCount + Cardinality(CPUs)

LEMMA AddingFinite ==
  /\ IsFiniteSet(CPUs) /\ Cardinality(CPUs) \in Nat
  /\ IsFiniteSet(Adding) /\ Cardinality(Adding) \in Nat
  /\ IsFiniteSet(Adding') /\ Cardinality(Adding') \in Nat
  /\ Cardinality(Adding) <= Cardinality(CPUs)
  /\ Cardinality(Adding') <= Cardinality(CPUs)
<1>1. Adding \in SUBSET CPUs /\ Adding' \in SUBSET CPUs BY DEF Adding
<1>2. IsFiniteSet(CPUs) BY RestartAssumption
<1>3. IsFiniteSet(Adding) /\ IsFiniteSet(Adding') BY <1>1, <1>2, FS_Subset
<1> QED BY <1>1, <1>2, <1>3, FS_Subset, FS_CardinalityType

LEMMA OpenFinite ==
  ASSUME open \subseteq Sockets
  PROVE  /\ IsFiniteSet(open)
         /\ Cardinality(open) \in 0..Cardinality(Sockets)
         /\ Cardinality(Sockets) \in Nat
<1>1. IsFiniteSet(Sockets) BY RestartAssumption
<1>2. IsFiniteSet(open) /\ Cardinality(open) <= Cardinality(Sockets)
  BY <1>1, FS_Subset
<1> QED BY <1>1, <1>2, FS_CardinalityType

LEMMA SockopsKeepsHeld ==
  ASSUME Kernel
  PROVE  UNCHANGED <<daemon, heldAtReset>>
BY DEF Kernel, Sockops, Established, Closed, CreateCount, LookupCount,
       IncCount, CheckCount, DecCount

LEMMA CappedKept ==
  ASSUME Typed, Locked, Capped, Aside \/ Removal \/ Kernel
  PROVE  Capped'
<1>1. Cardinality(open) \in 0..Cardinality(Sockets) BY OpenFinite DEF Typed
<1>2. CASE Aside
  <2>1. Adding' = Adding BY <1>2 DEF Aside, kernel, Adding, Arriving
  <2> QED BY <1>1, <1>2, <2>1 DEF Aside, kernel, Capped
<1>3. CASE Removal BY <1>1, <1>3 DEF Removal, RemoveEntry, Capped
<1>4. ASSUME NEW c \in CPUs, Sockops(c) PROVE Capped'
  <2> DEFINE n == Cardinality(CPUs)
             p == Cardinality(Adding)
             q == Cardinality(Adding')
  <2>1. /\ n \in Nat /\ p \in Nat /\ q \in Nat /\ q <= n /\ MaxCount \in Nat
        /\ IsFiniteSet(Adding) /\ IsFiniteSet(Adding')
    BY AddingFinite, RestartAssumption
  <2>2. heldAtReset' = heldAtReset BY <1>4, SockopsKeepsHeld DEF Kernel
  <2>3. openCount # NoEntry => openCount \in Int /\ openCount + p <= MaxCount + n
    BY DEF Capped, Typed
  <2>4. Undisturbed(c) BY <1>4, SocketSteps
  <2>5. (Arriving(c)' => Arriving(c)) => q <= p
    <3>1. (Arriving(c)' => Arriving(c)) => Adding' \subseteq Adding
      BY <2>4 DEF Adding, Undisturbed, Arriving
    <3> QED BY <2>1, <3>1, Monotone
  <2>6. callback \in [CPUs -> Callback \cup {Idle}] BY DEF Typed
  <2>7. SUFFICES ASSUME openCount' # NoEntry
                 PROVE  openCount' + q <= MaxCount + n
    BY <2>2 DEF Capped
  <2> HIDE DEF n, p, q
  <2>8. ASSUME UNCHANGED openCount, Arriving(c)' => Arriving(c)
        PROVE  openCount' + q <= MaxCount + n
    BY <2>1, <2>3, <2>5, <2>7, <2>8
  <2>9. ASSUME NEW s \in Sockets, Established(c, s)
        PROVE  openCount' + q <= MaxCount + n
    <3>1. CASE Hooked
      <4>1. openCount' = openCount /\ openCount < MaxCount
        BY <2>7, <2>9, <3>1 DEF Established
      <4> QED BY <2>1, <2>3, <2>7, <4>1
    <3>2. CASE ~Hooked
      BY <2>8, <2>9, <3>2 DEF Established, Arriving
    <3> QED BY <3>1, <3>2
  <2>10. ASSUME NEW s \in Sockets, Closed(c, s)
         PROVE  openCount' + q <= MaxCount + n
    <3>1. Arriving(c)' => Arriving(c)
      BY <2>6, <2>10 DEF Closed, Run, Arriving
    <3> QED BY <2>8, <2>10, <3>1 DEF Closed
  <2>11. CASE CreateCount(c)
    <3>1. CASE openCount = NoEntry
      <4>1. openCount' = 0 BY <2>11, <3>1 DEF CreateCount
      <4> QED BY <2>1, <4>1
    <3>2. CASE openCount # NoEntry
      BY <2>8, <2>11, <3>2 DEF CreateCount, Arriving
    <3> QED BY <3>1, <3>2
  <2>12. CASE LookupCount(c)
    BY <2>8, <2>12 DEF LookupCount, Arriving
  <2>13. CASE IncCount(c)
    <3>1. c \in Adding /\ c \notin Adding'
      BY <2>6, <2>13 DEF IncCount, Return, Adding, Arriving, Idle
    <3>2. Adding' \cup {c} \subseteq Adding
      BY <2>4, <3>1 DEF Adding, Undisturbed, Arriving
    <3>3. p >= q + 1 BY <2>1, <3>1, <3>2, GainsOne DEF p, q
    <3>4. \/ openCount # NoEntry /\ openCount' = openCount + 1
          \/ openCount' = openCount
      BY <2>13 DEF IncCount, AddThrough
    <3> QED BY <2>1, <2>3, <2>7, <3>3, <3>4
  <2>14. CASE CheckCount(c)
    <3>1. Arriving(c)' => Arriving(c)
      BY <2>6, <2>14 DEF CheckCount, Run, Return, Idle, Arriving
    <3> QED BY <2>8, <2>14, <3>1 DEF CheckCount
  <2>15. CASE DecCount(c)
    <3>1. Arriving(c)' => Arriving(c)
      BY <2>6, <2>15 DEF DecCount, Return, Idle, Arriving
    <3>2. \/ openCount # NoEntry /\ openCount' = openCount + (-1)
          \/ openCount' = openCount
      BY <2>15 DEF DecCount, AddThrough
    <3> QED BY <2>1, <2>3, <2>5, <2>7, <3>1, <3>2
  <2> QED BY <1>4, <2>9, <2>10, <2>11, <2>12, <2>13, <2>14, <2>15 DEF Sockops
<1> QED BY <1>2, <1>3, <1>4 DEF Kernel

(* The fields of the daemon and of the kernel keep their form, a socket is *)
(* locked while a callback runs for it, and the count stays in a range     *)
(* that the number of CPUs widens on either side.                          *)
THEOREM TypeCorrect == Spec => []TypeOK
<1> DEFINE I == Inv /\ Staged /\ Capped
<1>1. Init => I
  <2>1. Cardinality(Sockets) \in Nat
    BY RestartAssumption, FS_CardinalityType
  <2>2. Init => Capped BY <2>1 DEF Init, Capped
  <2> QED BY <2>2, Initially, StagedInit
<1>2. I /\ [Next]_vars => I'
  BY Inductive, StagedKept, CappedKept, Steps DEF Inv
<1>3. I => TypeOK
  <2> SUFFICES ASSUME I PROVE TypeOK OBVIOUS
  <2>1. Typed /\ Locked /\ Settled /\ Capped /\ Staged BY DEF Inv
  <2>2. phase \in Phases /\ handles \subseteq Handles /\ doomed \in BOOLEAN
    BY <2>1 DEF Staged, Phases, HeldIn, Serving, Handles, XdpObjects,
                SockopsObjects
  <2>3. openCount # NoEntry =>
          openCount \in -Cardinality(CPUs)..(MaxCount + Cardinality(CPUs))
    BY <2>1, Finite, AddingFinite, RestartAssumption
       DEF Settled, Capped, Typed
  <2>4. \A c, d \in CPUs :
          callback[c] # Idle /\ callback[d] # Idle
            => callback[c].socket \in open
               /\ (callback[c].socket = callback[d].socket => c = d)
    BY <2>1 DEF Locked
  <2>5. /\ open \subseteq Sockets /\ flagged \subseteq open
        /\ callback \in [CPUs -> Callback \cup {Idle}]
        /\ heldAtReset \in 0..Cardinality(Sockets)
    BY <2>1 DEF Typed, Capped
  <2> QED BY <2>2, <2>3, <2>4, <2>5 DEF TypeOK
<1> QED BY <1>1, <1>2, <1>3, PTL DEF Spec

------------------------------------------------------------------------------
(* What a reset can lose *)

Counted == IF openCount = NoEntry THEN 0 ELSE openCount

(* CPUs whose callback is bound to add its socket to the entry: the others *)
(* that arrive were arriving when the entry was removed.                   *)
Bound ==
  {c \in CPUs : \/ callback[c].at = "create"
                \/ callback[c].at = "lookup" /\ openCount # NoEntry
                \/ callback[c].at = "add" /\ callback[c].valid}

Owed ==
  /\ heldAtReset \in Nat
  /\ Fresh =>
       Cardinality(open) <= Counted + heldAtReset + Cardinality(Bound)

LEMMA BoundFinite ==
  /\ IsFiniteSet(Bound) /\ Cardinality(Bound) \in Nat
  /\ IsFiniteSet(Bound') /\ Cardinality(Bound') \in Nat
<1>1. Bound \in SUBSET CPUs /\ Bound' \in SUBSET CPUs BY DEF Bound
<1> QED BY <1>1, RestartAssumption, FS_Subset, FS_CardinalityType

LEMMA OwedKept ==
  ASSUME Inv, Typed', Owed, Aside \/ Removal \/ Kernel
  PROVE  Owed'
<1> DEFINE o == Cardinality(open)
           p == Cardinality(open')
           m == Cardinality(Bound)
           n == Cardinality(Bound')
<1>1. Typed /\ Locked /\ Attached BY DEF Inv
<1>2. /\ IsFiniteSet(open) /\ o \in Nat
      /\ IsFiniteSet(open') /\ p \in Nat
  <2>1. open \in SUBSET Sockets /\ open' \in SUBSET Sockets
    BY <1>1 DEF Typed
  <2> QED BY <2>1, RestartAssumption, FS_Subset, FS_CardinalityType
<1>3. /\ m \in Nat /\ n \in Nat /\ IsFiniteSet(Bound) /\ IsFiniteSet(Bound')
  BY BoundFinite
<1>4. heldAtReset \in Nat /\ Counted \in Int BY <1>1 DEF Owed, Typed, Counted
<1>5. CASE Aside
  <2>1. /\ open' = open /\ Bound' = Bound /\ Counted' = Counted
    BY <1>5 DEF Aside, kernel, Bound, Counted
  <2>2. CASE (Fresh' => Fresh) /\ UNCHANGED heldAtReset
    BY <2>1, <2>2 DEF Owed
  <2>3. CASE /\ Fresh' => openCount = NoEntry
             /\ heldAtReset' = Cardinality(open)
    <3>1. Fresh' => Counted = 0 BY <2>3 DEF Counted
    <3>2. heldAtReset' \in Nat /\ (Fresh' => o <= 0 + heldAtReset' + m)
      BY <1>2, <1>3, <2>3
    <3> QED BY <2>1, <3>1, <3>2 DEF Owed
  <2> QED BY <1>5, <2>2, <2>3 DEF Aside
<1>6. CASE Removal
  <2>1. open' = open /\ heldAtReset' = o /\ Counted' = 0
    BY <1>6 DEF Removal, RemoveEntry, Counted
  <2>2. p <= 0 + heldAtReset' + n BY <1>2, <1>3, <2>1
  <2> QED BY <1>2, <2>1, <2>2 DEF Owed
<1>7. ASSUME NEW c \in CPUs, Sockops(c) PROVE Owed'
  <2> DEFINE s0 == callback[c].socket
  <2>1. callback \in [CPUs -> Callback \cup {Idle}] BY <1>1 DEF Typed
  <2>2. Undisturbed(c) BY <1>1, <1>7, SocketSteps
  <2>3. heldAtReset' = heldAtReset /\ (Fresh' <=> Fresh)
    <3>1. UNCHANGED <<daemon, heldAtReset>>
      BY <1>7, SockopsKeepsHeld DEF Kernel
    <3> QED BY <3>1 DEF Fresh, daemon
  <2>4. openCount # NoEntry => openCount \in Int BY <1>1 DEF Typed
  <2>5. SUFFICES ASSUME Fresh
                 PROVE  p <= Counted' + heldAtReset + n
    BY <1>4, <2>3 DEF Owed
  <2>6. o <= Counted + heldAtReset + m BY <2>5 DEF Owed
  <2>7. ASSUME openCount # NoEntry => openCount' # NoEntry
        PROVE  Bound \ {c} \subseteq Bound'
    BY <2>2, <2>7 DEF Bound, Undisturbed
  <2> HIDE DEF o, p, m, n
  (* Nothing is added, and nobody who was bound to add gives up. *)
  <2>8. ASSUME Counted' = Counted, open' \subseteq open, Bound \subseteq Bound'
        PROVE  p <= Counted' + heldAtReset + n
    <3>1. p <= o BY <1>2, <2>8, Monotone DEF o, p
    <3>2. m <= n BY <1>3, <2>8, Monotone DEF m, n
    <3> QED BY <1>2, <1>3, <1>4, <2>6, <2>8, <3>1, <3>2
  <2>9. ASSUME NEW s \in Sockets, Established(c, s)
        PROVE  p <= Counted' + heldAtReset + n
    <3>1. Hooked BY <1>1, <2>5 DEF Attached, Fresh
    <3>2. /\ Run(c, s, "create", FALSE) /\ openCount' = openCount
          /\ callback[c] = Idle /\ open' = open \cup {s} /\ s \notin open
      BY <2>9, <3>1 DEF Established
    <3>3. c \in Bound' /\ c \notin Bound
      BY <2>1, <3>2 DEF Run, Bound, Idle
    <3>4. Bound \cup {c} \subseteq Bound' BY <2>7, <3>2, <3>3
    <3>5. n >= m + 1 BY <1>3, <3>3, <3>4, GainsOne DEF m, n
    <3>6. p = o + 1 BY <1>2, <3>2, FS_AddElement DEF o, p
    <3>7. Counted' = Counted BY <3>2 DEF Counted
    <3> QED BY <1>2, <1>3, <1>4, <2>6, <3>5, <3>6, <3>7
  <2>10. ASSUME NEW s \in Sockets, Closed(c, s)
         PROVE  p <= Counted' + heldAtReset + n
    <3>1. openCount' = openCount /\ callback[c] = Idle /\ open' \subseteq open
      BY <2>10 DEF Closed, Gone
    <3>2. c \notin Bound BY <3>1 DEF Bound, Idle
    <3>3. Bound \subseteq Bound' BY <2>7, <3>1, <3>2
    <3> QED BY <2>8, <3>1, <3>3 DEF Counted
  <2>11. CASE CreateCount(c)
    <3>1. openCount' = IF openCount = NoEntry THEN 0 ELSE openCount
      BY <2>11 DEF CreateCount
    <3>2. openCount' # NoEntry BY <3>1, RestartAssumption
    <3>3. c \in Bound' BY <2>1, <2>11, <3>2 DEF CreateCount, Run, Bound
    <3>4. Bound \subseteq Bound' BY <2>7, <3>2, <3>3
    <3>5. Counted' = Counted BY <3>1 DEF Counted
    <3> QED BY <2>8, <2>11, <3>4, <3>5 DEF CreateCount
  <2>12. CASE LookupCount(c)
    <3>1. openCount' = openCount /\ open' = open
      BY <2>12 DEF LookupCount
    <3>2. c \in Bound => c \in Bound'
      <4>1. CASE openCount = NoEntry
        BY <2>12, <4>1 DEF LookupCount, Bound
      <4>2. CASE openCount # NoEntry
        BY <2>1, <2>12, <4>2 DEF LookupCount, Run, Bound
      <4> QED BY <4>1, <4>2
    <3>3. Bound \subseteq Bound' BY <2>7, <3>1, <3>2
    <3> QED BY <2>8, <3>1, <3>3 DEF Counted
  <2>13. CASE IncCount(c)
    <3>1. open' = open BY <2>13 DEF IncCount
    <3>2. CASE openCount # NoEntry /\ openCount' = openCount + 1
      <4>1. Bound \ {c} \subseteq Bound'
        BY <2>4, <2>7, <3>2, RestartAssumption
      <4>2. n >= m - 1 BY <1>3, <4>1, LosesOne DEF m, n
      <4>3. openCount' # NoEntry BY <2>4, <3>2, RestartAssumption
      <4>4. Counted' = Counted + 1 BY <3>2, <4>3 DEF Counted
      <4>5. p = o BY <3>1 DEF o, p
      <4> QED BY <1>2, <1>3, <1>4, <2>6, <4>2, <4>4, <4>5
    <3>3. CASE ~callback[c].valid /\ openCount' = openCount
      <4>1. c \notin Bound BY <2>13, <3>3 DEF IncCount, Bound
      <4>2. Bound \subseteq Bound' BY <2>7, <3>3, <4>1
      <4> QED BY <2>8, <3>1, <3>3, <4>2 DEF Counted
    <3> QED BY <2>13, <3>2, <3>3 DEF IncCount, AddThrough
  <2>14. CASE CheckCount(c)
    <3>1. openCount' = openCount /\ open' \subseteq open
      BY <2>14 DEF CheckCount, Gone
    <3>2. c \notin Bound BY <2>14 DEF CheckCount, Bound
    <3>3. Bound \subseteq Bound' BY <2>7, <3>1, <3>2
    <3> QED BY <2>8, <3>1, <3>3 DEF Counted
  <2>15. CASE DecCount(c)
    <3>1. open' = open \ {s0} BY <2>15 DEF DecCount, Gone
    <3>2. s0 \in open BY <1>1, <2>15, Running DEF DecCount
    <3>3. c \notin Bound BY <2>15 DEF DecCount, Bound
    <3>4. CASE openCount # NoEntry /\ openCount' = openCount + (-1)
      <4>1. openCount' # NoEntry BY <2>4, <3>4, RestartAssumption
      <4>2. Bound \subseteq Bound' BY <2>7, <3>3, <4>1
      <4>3. m <= n BY <1>3, <4>2, Monotone DEF m, n
      <4>4. Counted' = Counted - 1 BY <2>4, <3>4, <4>1 DEF Counted
      <4>5. p = o - 1 BY <1>2, <3>1, <3>2, FS_RemoveElement DEF o, p
      <4> QED BY <1>2, <1>3, <1>4, <2>6, <4>3, <4>4, <4>5
    <3>5. CASE openCount' = openCount
      <4>1. Bound \subseteq Bound' BY <2>7, <3>3, <3>5
      <4> QED BY <2>8, <3>1, <3>5, <4>1 DEF Counted
    <3> QED BY <2>15, <3>4, <3>5 DEF DecCount, AddThrough
  <2> QED BY <1>7, <2>9, <2>10, <2>11, <2>12, <2>13, <2>14, <2>15 DEF Sockops
<1> QED BY <1>5, <1>6, <1>7 DEF Kernel

(* A reset loses the sockets held at that moment and no others: the cap of *)
(* a daemon that serves is overrun by at most those and the handshakes     *)
(* whose callback is still running, whatever evictions came since.         *)
THEOREM OnlyAResetLoses == Spec => []UndercountBounded
<1> DEFINE I == Inv /\ Owed
<1>1. Init => I
  <2>1. Init => Owed BY DEF Init, Owed, Fresh
  <2> QED BY <2>1, Initially
<1>2. I /\ [Next]_vars => I'
  <2> SUFFICES ASSUME I, [Next]_vars PROVE I' OBVIOUS
  <2>1. Inv' BY Inductive
  <2>2. Typed' BY <2>1 DEF Inv
  <2>3. Aside \/ Removal \/ Kernel BY Steps DEF Inv
  <2> QED BY <2>1, <2>2, <2>3, OwedKept
<1>3. I => UndercountBounded
  <2> SUFFICES ASSUME I, phase = "serving"
               PROVE  Cardinality(open) <= Counted + heldAtReset
                                           + Cardinality(Adding)
    BY DEF UndercountBounded, Counted, Adding, Arriving
  <2>1. Bound \subseteq Adding BY DEF Bound, Adding, Arriving
  <2>2. Cardinality(Bound) <= Cardinality(Adding)
    BY <2>1, AddingFinite, Monotone
  <2>3. Cardinality(open) <= Counted + heldAtReset + Cardinality(Bound)
    BY DEF Owed, Fresh
  <2>4. Typed BY DEF Inv
  <2>5. Counted \in Int /\ heldAtReset \in Nat BY <2>4 DEF Typed, Counted, Owed
  <2>6. Cardinality(open) \in Nat BY <2>4, OpenFinite DEF Typed
  <2> QED BY <2>2, <2>3, <2>5, <2>6, AddingFinite, BoundFinite
<1> QED BY <1>1, <1>2, <1>3, PTL DEF Spec
==============================================================================
