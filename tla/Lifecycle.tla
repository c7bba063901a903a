----------------------------- MODULE Lifecycle -----------------------------
(***************************************************************************)
(* The life of a card and of a cycle as domain/card.rs and domain/cycle.rs *)
(* fix it, apart from every command that moves one. `Spec` is what each    *)
(* command promises about the cards it touches: it moves a card along the  *)
(* successor table, or it revises a card that is still revisable, and      *)
(* whatever else happens no card takes any other step.                     *)
(***************************************************************************)
EXTENDS Naturals

CONSTANT Cards

VARIABLE cardState

\* A draft is a file of the author's, not yet a record of the repository.
CardStates ==
    {"draft", "ready", "leased", "active", "handed_off", "review_pending",
     "changes_requested", "approved", "integrating", "accepted", "landed",
     "closed", "blocked", "abandoned"}

Successors ==
    [draft |-> {"ready", "abandoned"},
     ready |-> {"leased", "abandoned"},
     leased |-> {"active", "abandoned"},
     active |-> {"handed_off", "changes_requested", "blocked", "abandoned"},
     handed_off |-> {"review_pending", "active", "abandoned"},
     review_pending |-> {"approved", "changes_requested", "blocked", "active", "abandoned"},
     changes_requested |-> {"active", "abandoned"},
     approved |-> {"integrating", "active", "abandoned"},
     integrating |-> {"accepted", "blocked", "abandoned"},
     accepted |-> {"landed", "abandoned"},
     landed |-> {"closed"},
     closed |-> {},
     blocked |-> {"active", "integrating", "abandoned"},
     abandoned |-> {}]

CheckTransition(from, to) == to \in Successors[from]

IsTerminal(state) == state \in {"closed", "abandoned"}

IsRevisable(state) ==
    state \notin {"integrating", "accepted", "landed", "closed", "abandoned"}

\* An accepted card satisfies what depends on it and is nobody's to contend for.
IsAccepted(state) == state \in {"accepted", "landed", "closed"}

CycleStatuses ==
    {"draft", "active", "sealed", "integrating", "accepted", "landed", "closed",
     "blocked", "abandoned"}

CycleSuccessors ==
    [draft |-> {"active", "abandoned"},
     active |-> {"sealed", "integrating", "blocked", "abandoned"},
     sealed |-> {"abandoned"},
     integrating |-> {"accepted", "blocked", "abandoned"},
     accepted |-> {"landed", "abandoned"},
     landed |-> {"closed"},
     closed |-> {},
     blocked |-> {"active", "integrating", "abandoned"},
     abandoned |-> {}]

CheckCycleTransition(from, to) == to \in CycleSuccessors[from]

IsTerminalCycle(status) == status \in {"closed", "abandoned"}

AcceptsCards(status) == status = "active"

-----------------------------------------------------------------------------

Init == cardState = [card \in Cards |-> "draft"]

\* `work start` and a resumed revision go through `leased` in one transaction;
\* `integration abandon` returns a card to approved past the table.
Advances(from, to) ==
    \/ CheckTransition(from, to)
    \/ from = "integrating" /\ to = "approved"
    \/ from = "ready" /\ to = "active"

Revises(from, to) == from # "draft" /\ IsRevisable(from) /\ to = "ready"

Next ==
    /\ cardState' \in [Cards -> CardStates]
    /\ \A card \in Cards :
          \/ cardState'[card] = cardState[card]
          \/ Advances(cardState[card], cardState'[card])
          \/ Revises(cardState[card], cardState'[card])

Spec == Init /\ [][Next]_cardState
============================================================================
