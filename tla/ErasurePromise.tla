---------------------------- MODULE ErasurePromise ----------------------------
(***************************************************************************)
(* What the erasure service promises about an account's data, with no word *)
(* of requests, executors or clocks: an account is cleared for erasure     *)
(* only while no legal hold stands, only a cleared account loses data,     *)
(* what is gone stays gone, and it goes in order -- identity first, the    *)
(* behavioural profile next, session data and transaction names last.      *)
(***************************************************************************)
CONSTANTS Accounts

VARIABLES
    held,       \* held[a]: a legal hold stands on a
    cleared,    \* accounts some request of which passed the hold check
    remaining   \* remaining[a]: the parts of a's personal data still stored

promiseVars == <<held, cleared, remaining>>

AllParts == {"pii", "ml_profile", "history", "sessions", "txn_pii"}

\* The parts that must be gone before part p may go.
GoneBefore(p) ==
    CASE p = "pii" -> {}
      [] p = "ml_profile" -> {"pii"}
      [] OTHER -> {"pii", "ml_profile"}

Init ==
    /\ held \in [Accounts -> BOOLEAN]
    /\ cleared = {}
    /\ remaining = [a \in Accounts |-> AllParts]

ChangeHold(a) ==
    /\ held' = [held EXCEPT ![a] = ~@]
    /\ UNCHANGED <<cleared, remaining>>

Clear(a) ==
    /\ ~held[a]
    /\ cleared' = cleared \cup {a}
    /\ UNCHANGED <<held, remaining>>

EraseSome(a) ==
    /\ a \in cleared
    /\ \E gone \in SUBSET remaining[a] :
          /\ \A p \in gone : GoneBefore(p) \cap remaining[a] = {}
          /\ remaining' = [remaining EXCEPT ![a] = @ \ gone]
    /\ UNCHANGED <<held, cleared>>

Next == \E a \in Accounts : ChangeHold(a) \/ Clear(a) \/ EraseSome(a)

Spec == Init /\ [][Next]_promiseVars
=============================================================================
