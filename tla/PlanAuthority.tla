---------------------------- MODULE PlanAuthority ----------------------------
(***************************************************************************)
(* What a project promises about authority, with no journal, lock, process *)
(* or crash in it: human decisions are in force until they are superseded, *)
(* withdrawn or invalidated as a whole, a plan is sealed over decisions    *)
(* that are all in force, and a plan is offered for compilation only while *)
(* every decision it rests on still is.                                    *)
(*                                                                         *)
(* A decision is a pair <<subject, content>>: the taxonomy or one cluster, *)
(* and the exact value that was approved.                                  *)
(***************************************************************************)
CONSTANTS
    Subjects,    \* what can be decided on: the taxonomy and every cluster
    Contents     \* the exact values a decision may bind

VARIABLES
    live,        \* the decisions in force
    sealed       \* the decisions the newest sealed plan rests on ({}: none)

vars == <<live, sealed>>

\* The decisions of the plan a reader is offered ({}: no plan is offered).
Offered == IF sealed \subseteq live THEN sealed ELSE {}

Init ==
    /\ live = {}
    /\ sealed = {}

\* A curator decides; an earlier decision on the same subject is superseded.
Approve(s) ==
    /\ UNCHANGED sealed
    /\ LET others == {e \in live : e[1] # s}
       IN  live' \in {others \cup {<<s, x>>} : x \in Contents}

\* A curator asks for the subject again: what was decided no longer counts.
Withdraw(s) ==
    /\ live' = {e \in live : e[1] # s}
    /\ UNCHANGED sealed

\* A plan may rest only on decisions in force.
Seal(S) ==
    /\ S # {}
    /\ S \subseteq live
    /\ sealed' = S
    /\ UNCHANGED live

\* Sources, language or routes changed: nothing decided before counts.
Invalidate ==
    /\ live' = {}
    /\ sealed' = {}

Next ==
    \/ \E s \in Subjects : Approve(s) \/ Withdraw(s)
    \/ \E S \in SUBSET live : Seal(S)
    \/ Invalidate

Spec == Init /\ [][Next]_vars
=============================================================================
