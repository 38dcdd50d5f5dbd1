------------------------------- MODULE KeyWalk -------------------------------
(***************************************************************************)
(* Walking the keys of a pinned BPF map with NextKey, as CountKeys         *)
(* (internal/bpfmaps/bpfmaps.go) and `fivem-ebpf clear` do, while the BPF  *)
(* programs and the kernel insert, replace and evict entries.              *)
(*                                                                         *)
(* A walk holds no lock and no position, only the last key it was given.   *)
(***************************************************************************)
EXTENDS BucketMap

CONSTANT MaxChurn   \* bound: changes the programs and the kernel make

ASSUME KeyWalkAssumption == MaxChurn \in Nat

VARIABLES
  churn,    \* changes made so far
  clear,    \* the process running `fivem-ebpf clear`
  untouched    \* history: keys left untouched since each walk began

mapVars == <<map, churn>>
walkVars == <<map, churn, clear, untouched>>

Walkers == {"ticker", "clear"}

Touched(k) == untouched' = [w \in Walkers |-> untouched[w] \ {k}]

WalkInit ==
  /\ map \in Orders
  /\ churn = 0
  /\ clear = [at |-> "off", cursor |-> NoKey, keys |-> <<>>]
  /\ untouched = [w \in Walkers |-> Present]

(* A program enters a key, or enters it again (BPF_ANY). *)
Update(k) ==
  /\ churn < MaxChurn
  /\ churn' = churn + 1
  /\ map' = Linked(k)
  /\ Touched(k)
  /\ UNCHANGED clear

(* The kernel makes room. *)
MakeRoom(k) ==
  /\ k \in Present
  /\ churn < MaxChurn
  /\ churn' = churn + 1
  /\ map' = Without(k)
  /\ Touched(k)
  /\ UNCHANGED clear

------------------------------------------------------------------------------
(* clearWholeMap: collectKeys, then one Delete per key. *)

ClearStart ==
  /\ clear.at = "off"
  /\ clear' = [at |-> "collect", cursor |-> NoKey, keys |-> <<>>]
  /\ untouched' = [untouched EXCEPT !["clear"] = Present]
  /\ UNCHANGED mapVars

(* Mutant: keys that come after the first are not collected. *)
CollectFirst ==
  /\ clear.at = "collect"
  /\ LET next == NextKey(clear.cursor)
     IN  clear' = IF next = NoKey THEN [clear EXCEPT !.at = "delete"]
                  ELSE [clear EXCEPT !.at = "delete",
                                     !.keys = Append(@, next)]
  /\ UNCHANGED <<mapVars, untouched>>

CollectKey ==
  /\ clear.at = "collect"
  /\ LET next == NextKey(clear.cursor)
     IN  clear' = IF next = NoKey THEN [clear EXCEPT !.at = "delete"]
                  ELSE [clear EXCEPT !.cursor = next, !.keys = Append(@, next)]
  /\ UNCHANGED <<mapVars, untouched>>

(* Mutant: a key that is gone already is tried again. *)
DeleteKeyRetry ==
  /\ clear.at = "delete" /\ clear.keys # <<>>
  /\ map' = Without(Head(clear.keys))
  /\ Touched(Head(clear.keys))
  /\ IF Head(clear.keys) \in Present
     THEN clear' = [clear EXCEPT !.keys = Tail(@)] ELSE UNCHANGED clear
  /\ UNCHANGED churn

(* A key that is gone already is no error. *)
DeleteKey ==
  /\ clear.at = "delete" /\ clear.keys # <<>>
  /\ map' = Without(Head(clear.keys))
  /\ Touched(Head(clear.keys))
  /\ clear' = [clear EXCEPT !.keys = Tail(@)]
  /\ UNCHANGED churn

ClearDone ==
  /\ clear.at = "delete" /\ clear.keys = <<>>
  /\ clear' = [clear EXCEPT !.at = "done", !.cursor = NoKey]
  /\ UNCHANGED <<mapVars, untouched>>

Clear == ClearStart \/ CollectKey \/ DeleteKey \/ ClearDone

------------------------------------------------------------------------------

(* cmdClear without --ip: when it returns, every key still in the map was  *)
(* entered, or entered again, after it began.  No key that sat untouched   *)
(* escapes, whatever is inserted, replaced or evicted around the cursor.   *)
ClearLeavesOnlyNewer == clear.at = "done" => Present \cap untouched["clear"] = {}
==============================================================================
