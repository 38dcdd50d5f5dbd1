------------------------------- MODULE Daemon -------------------------------
(***************************************************************************)
(* The goroutines of `fivem-ebpf run` (cmd/fivem-ebpf/run.go) once Load    *)
(* has returned: main waits for a signal or a failed server, shuts down    *)
(* and closes the maps; the size ticker (internal/metrics/collector.go)    *)
(* counts keys; the HTTP server runs handlers that read maps.  One map     *)
(* stands for those the ticker walks one after the other.                  *)
(***************************************************************************)
EXTENDS KeyWalk

CONSTANT MaxHandlers   \* bound: requests handled at the same time

ASSUME DaemonAssumption == MaxHandlers \in Nat

VARIABLES
  main,       \* where runDaemon stands
  listening,  \* ListenAndServe has not returned
  running,    \* HTTP handlers at work
  expired,    \* the five seconds of shutCtx are over
  cancelled,  \* ctx.Done() is closed
  mapsOpen,   \* l.Close has not been called
  ticker,     \* the goroutine of StartSizeTicker and the walk it is in
  gauge       \* the cached size, 0 before the first refresh

mainVars == <<main, expired, cancelled, mapsOpen>>
serverVars == <<listening, running>>
tickerVars == <<ticker, gauge>>
vars == <<walkVars, mainVars, serverVars, tickerVars>>

(* The ticker's goroutine is not started when map-size-interval is 0. *)
Init ==
  /\ WalkInit
  /\ main = "serving" /\ listening = TRUE /\ running = 0
  /\ expired = FALSE /\ cancelled = FALSE /\ mapsOpen = TRUE
  /\ ticker \in {[at |-> at, cursor |-> NoKey, n |-> 0] : at \in {"walk", "stopped"}}
  /\ gauge = 0

------------------------------------------------------------------------------
(* main *)

(* The server's goroutine sends its error, or the process gets SIGINT or   *)
(* SIGTERM; main leaves its select and calls Shutdown, which stops         *)
(* accepting requests.                                                     *)
ServerFails ==
  /\ main = "serving" /\ listening
  /\ listening' = FALSE
  /\ UNCHANGED <<walkVars, mainVars, running, tickerVars>>

(* Mutant: srv.Shutdown is not called. *)
BeginShutdownListening ==
  /\ main' = "draining"
  /\ UNCHANGED <<walkVars, serverVars, expired, cancelled, mapsOpen, tickerVars>>

BeginShutdown ==
  /\ main' = "draining"
  /\ listening' = FALSE
  /\ UNCHANGED <<walkVars, running, expired, cancelled, mapsOpen, tickerVars>>

Signal == main = "serving" /\ BeginShutdown
ServeError == main = "serving" /\ ~listening /\ BeginShutdown

Deadline ==
  /\ main = "draining" /\ ~expired
  /\ expired' = TRUE
  /\ UNCHANGED <<walkVars, main, cancelled, mapsOpen, serverVars, tickerVars>>

(* Mutant: Shutdown without a deadline. *)
DrainedFully == running = 0

Drained == running = 0 \/ expired

Cancel ==
  /\ main = "draining"
  /\ Drained
  /\ main' = "waiting"
  /\ cancelled' = TRUE
  /\ UNCHANGED <<walkVars, expired, mapsOpen, serverVars, tickerVars>>

(* Mutant: main does not wait for the ticker. *)
WaitNot ==
  /\ main = "waiting"
  /\ main' = "closing"
  /\ UNCHANGED <<walkVars, expired, cancelled, mapsOpen, serverVars, tickerVars>>

WaitTicker ==
  /\ main = "waiting"
  /\ ticker.at = "stopped"
  /\ main' = "closing"
  /\ UNCHANGED <<walkVars, expired, cancelled, mapsOpen, serverVars, tickerVars>>

(* The deferred l.Close. *)
CloseMaps ==
  /\ main = "closing"
  /\ main' = "closed"
  /\ mapsOpen' = FALSE
  /\ UNCHANGED <<walkVars, expired, cancelled, serverVars, tickerVars>>

(* The process ends, and handlers that outlasted the deadline with it. *)
Exit ==
  /\ main = "closed"
  /\ main' = "exited"
  /\ running' = 0
  /\ UNCHANGED <<walkVars, expired, cancelled, mapsOpen, listening, tickerVars>>

Main == Cancel \/ WaitTicker \/ CloseMaps \/ Exit

------------------------------------------------------------------------------
(* HTTP handlers; a client may keep one at work for as long as it likes. *)

Request ==
  /\ listening /\ running < MaxHandlers
  /\ running' = running + 1
  /\ UNCHANGED <<walkVars, mainVars, listening, tickerVars>>

Respond ==
  /\ running > 0
  /\ running' = running - 1
  /\ UNCHANGED <<walkVars, mainVars, listening, tickerVars>>

------------------------------------------------------------------------------
(* The size ticker *)

(* Mutant: the walk is cut short when the cursor's key has gone. *)
CountKeyCut ==
  /\ ticker.at = "walk"
  /\ LET next == IF ticker.cursor = NoKey \/ ticker.cursor \in Present
                 THEN NextKey(ticker.cursor) ELSE NoKey
     IN  IF next = NoKey
         THEN /\ ticker' = [at |-> "select", cursor |-> NoKey, n |-> 0]
              /\ gauge' = ticker.n
         ELSE /\ ticker' = [ticker EXCEPT !.cursor = next, !.n = @ + 1]
              /\ UNCHANGED gauge
  /\ UNCHANGED <<walkVars, mainVars, serverVars>>

(* One turn of the loop in CountKeys; at the end refreshSizes stores n. *)
CountKey ==
  /\ ticker.at = "walk"
  /\ LET next == NextKey(ticker.cursor)
     IN  IF next = NoKey
         THEN /\ ticker' = [at |-> "select", cursor |-> NoKey, n |-> 0]
              /\ gauge' = ticker.n
         ELSE /\ ticker' = [ticker EXCEPT !.cursor = next, !.n = @ + 1]
              /\ UNCHANGED gauge
  /\ UNCHANGED <<walkVars, mainVars, serverVars>>

(* Mutant: one refresh at the start and no more. *)
TimerNeverFires == FALSE /\ UNCHANGED vars

TimerFires ==
  /\ ticker.at = "select"
  /\ ticker' = [ticker EXCEPT !.at = "walk"]
  /\ untouched' = [untouched EXCEPT !["ticker"] = Present]
  /\ UNCHANGED <<mapVars, clear, mainVars, serverVars, gauge>>

(* ctx.Done(); select picks at random if the timer has fired as well. *)
StopTicker ==
  /\ ticker.at = "select"
  /\ cancelled
  /\ ticker' = [ticker EXCEPT !.at = "stopped"]
  /\ UNCHANGED <<walkVars, mainVars, serverVars, gauge>>

Ticker == CountKey \/ TimerFires \/ StopTicker

------------------------------------------------------------------------------

Others ==
  /\ Clear \/ \E k \in Keys : Update(k) \/ MakeRoom(k)
  /\ UNCHANGED <<mainVars, serverVars, tickerVars>>

Next ==
  \/ Signal \/ ServerFails \/ ServeError \/ Deadline \/ Main
  \/ Request \/ Respond
  \/ Ticker
  \/ Others

(* Goroutines run, timers fire, a process that clears runs once started.   *)
(* Nothing forces a signal, an error, a request or an answer.  Select      *)
(* chooses at random, so it does not pass over a closed ctx for ever.      *)
Fairness ==
  /\ WF_vars(ServeError) /\ WF_vars(Deadline) /\ WF_vars(Main)
  /\ WF_vars(CountKey) /\ WF_vars(TimerFires) /\ SF_vars(StopTicker)
  /\ WF_vars((CollectKey \/ DeleteKey \/ ClearDone)
             /\ UNCHANGED <<mainVars, serverVars, tickerVars>>)

Spec == Init /\ [][Next]_vars /\ Fairness

------------------------------------------------------------------------------

(* Type invariant. *)
TypeOK ==
  /\ Len(map) = Cardinality(Present) /\ Present \subseteq Keys
  /\ churn \in 0..MaxChurn
  /\ clear.at \in {"off", "collect", "delete", "done"}
  /\ clear.cursor \in Keys \cup {NoKey} /\ clear.keys \in Seq(Keys)
  /\ \A w \in Walkers : untouched[w] \subseteq Present
  /\ main \in {"serving", "draining", "waiting", "closing", "closed", "exited"}
  /\ listening => main = "serving"
  /\ running \in 0..MaxHandlers
  /\ {expired, cancelled, mapsOpen} \subseteq BOOLEAN
  /\ ticker.at \in {"walk", "select", "stopped"}
  /\ ticker.cursor \in Keys \cup {NoKey} /\ ticker.n \in Nat /\ gauge \in Nat

(* A refresh counts at least the keys that stayed in place while it ran:   *)
(* keys that come, go and move around its cursor can make it count some    *)
(* twice, never lose one.                                                  *)
CountCoversStayers ==
  [][ticker.at = "walk" /\ ticker'.at # "walk"
       => gauge' >= Cardinality(untouched["ticker"])]_vars

(* The ticker never walks a closed map: main waits for it before Close. *)
TickerMapsOpen == ticker.at # "stopped" => mapsOpen

(* Once it is told to stop, by a signal or by its server, the daemon ends, *)
(* whatever its handlers and clients do and wherever the ticker is, given  *)
(* that the map is not changed for ever.                                   *)
ShutdownCompletes == main = "draining" \/ ~listening ~> main = "exited"

(* `clear` returns. *)
ClearReturns == clear.at = "collect" ~> clear.at = "done"

(* A daemon that stays up with its gauges on reports the size of a map     *)
(* that has come to rest.                                                  *)
GaugeCatchesUp ==
  <>[](main = "serving" /\ ticker.at # "stopped") => <>[](gauge = Len(map))
==============================================================================
