----------------------------- MODULE PlainMemory -----------------------------
(***************************************************************************)
(* What a guest is promised about memory: one value per frame, whatever    *)
(* caches lie between.  An instruction asks for a load or a store, which   *)
(* happens once, at once, or (an exception) not at all.  A fetch may see   *)
(* an older value than the last store until the guest has written back and *)
(* invalidated what its caches hold of the frame: the frame is stale.      *)
(* Only a store to a frame makes it stale.                                 *)
(***************************************************************************)
CONSTANTS Frame, Value
VARIABLES mem,              \* the value of each frame
          ask,              \* what the instruction in execution asks for
          seen,             \* the frame and the value of the last access
          stale             \* frames that a fetch may see an old value of

Ask == {[type |-> "none"], [type |-> "read"]} \cup [type : {"write"}, data : Value]
Nothing == [type |-> "none"]

Init == /\ mem \in [Frame -> Value]
        /\ ask = Nothing
        /\ stale = {}

Load(f) == /\ ask.type = "read" /\ ask' = Nothing
           /\ seen' = [frame |-> f, value |-> mem[f]]
           /\ mem' = mem
           /\ stale' \subseteq stale

Store(f) == /\ ask.type = "write" /\ ask' = Nothing
            /\ mem' = [mem EXCEPT ![f] = ask.data]
            /\ stale' \subseteq stale \cup {f}
            /\ seen' = seen

Fetch(f) == /\ ask' = ask
            /\ \E v \in Value : seen' = [frame |-> f, value |-> v]
            /\ f \in stale \/ seen'.value = mem[f]
            /\ mem' = mem
            /\ stale' \subseteq stale

\* An instruction asks or gives up, or the caches move what they hold.
Maintain == /\ ask' \in Ask
            /\ seen' = seen /\ mem' = mem
            /\ stale' \subseteq stale

Next == Maintain \/ \E f \in Frame : Load(f) \/ Store(f) \/ Fetch(f)
=============================================================================
