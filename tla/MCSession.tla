----------------------------- MODULE MCSession ------------------------------
(***************************************************************************)
(* The session of a browser that knows two accounts: one is an institution *)
(* on chain, the other one gets its DID and registers meanwhile, from this *)
(* browser or another one.  What the forms write to the store once their   *)
(* extrinsics are final is here a write that may come at any time.         *)
(***************************************************************************)
EXTENDS Session

CONSTANTS known, new, MaxReloads

VARIABLE reloads   \* bound: how often the document has been loaded again

mcVars == <<ledgerVars, storeVars, sessionVars, reloads>>

MCLedgerInit ==
  /\ block = 0
  /\ did = [who \in Accounts |-> IF who = known THEN "active" ELSE "none"]
  /\ institution = [who \in Accounts |->
                      IF who = known THEN "pending" ELSE "none"]
  /\ certificate = [hash \in Hashes |-> None]

MCInit == MCLedgerInit /\ StoresInit /\ SessionInit /\ reloads = 0

MCLedgerNext ==
  /\ CreateDid(new) \/ RegisterInstitution(new) \/ SetDidActive(known, "inactive")
  /\ UNCHANGED <<storeVars, sessionVars, reloads>>

MCReload ==
  /\ reloads < MaxReloads
  /\ reloads' = reloads + 1
  /\ Reload
  /\ UNCHANGED ledgerVars

MCNext ==
  \/ MCLedgerNext
  \/ FormsWrite /\ UNCHANGED <<ledgerVars, reloads>>
  \/ MCReload
  \/ SessionNext /\ UNCHANGED <<ledgerVars, reloads>>

MCSessionSpec == MCInit /\ [][MCNext]_mcVars

\* The timers of the browser fire.
FairSessionSpec ==
  MCSessionSpec /\ WF_mcVars(TimersFire /\ UNCHANGED <<ledgerVars, reloads>>)
=============================================================================
