----------------------------- MODULE OutputSlots -----------------------------
(***************************************************************************)
(* What publication promises, with no staging directory, cleanup or        *)
(* process in it: an output is there whole or not at all, its name has one *)
(* winner, an answer tells the truth about it, and what was answered as    *)
(* done outlives a power loss together with the directory it is in.        *)
(***************************************************************************)
CONSTANTS
    Writers,        \* whoever publishes one output
    Slots,          \* names of outputs
    Free, Foreign   \* a name nobody has, or that somebody else has

VARIABLES
    slot,           \* who has each name
    answer,         \* what each writer was told
    settled         \* whether the directory of the slots survives a power loss

vars == <<slot, answer, settled>>

Answers == {"none", "done", "uncertain", "exists", "failed", "left"}

Has(w) == \E s \in Slots : slot[s] = w
Done(w) == w \in Writers /\ answer[w] = "done"

Init ==
    /\ slot = [s \in Slots |-> Free]
    /\ answer = [w \in Writers |-> "none"]
    /\ settled \in BOOLEAN

\* The one step in which an output comes to be.
Put(w, s) ==
    /\ answer[w] = "none" /\ ~Has(w)
    /\ slot[s] = Free
    /\ slot' = [slot EXCEPT ![s] = w]
    /\ UNCHANGED <<answer, settled>>

\* Success is told of an output that is there, failure of one that is not, and
\* that the name is taken only when it is.
Tell(w, a) ==
    /\ answer[w] = "none" /\ a \in Answers \ {"none"}
    /\ Has(w) <=> a \in {"done", "uncertain"}
    /\ a = "exists" => \E s \in Slots : slot[s] # Free
    /\ answer' = [answer EXCEPT ![w] = a]
    /\ UNCHANGED <<slot, settled>>

Take(s) ==
    /\ slot[s] = Free
    /\ slot' = [slot EXCEPT ![s] = Foreign]
    /\ UNCHANGED <<answer, settled>>

PowerLoss ==
    /\ \A s \in Slots : slot'[s] \in {slot[s], Free}
    /\ DOMAIN slot' = Slots
    /\ \/ \A s \in Slots : Done(slot[s]) => slot'[s] = slot[s]
       \/ ~settled
    /\ settled => settled'
    /\ UNCHANGED answer

Next ==
    \/ \E w \in Writers, s \in Slots : Put(w, s)
    \/ \E w \in Writers, a \in Answers : Tell(w, a)
    \/ \E s \in Slots : Take(s)
    \/ PowerLoss

Spec == Init /\ [][Next]_vars
=============================================================================
