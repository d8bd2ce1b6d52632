--------------------------- MODULE DashboardPage ----------------------------
(***************************************************************************)
(* pages/Dashboard.tsx: counts for the DID of the session, fetched by an   *)
(* effect that nothing cancels, and the dialog that creates a DID.         *)
(***************************************************************************)
EXTENDS Extrinsics

CONSTANT StatsFetches   \* bound: names of the fetches under way

VARIABLES
  stats,           \* credentials, and recipientsOrVerified
  statsFetches,    \* fetch => None, or where it stands
  statsFor,        \* what the effect ran for last
  showCreateDID    \* the dialog is open

dashboardVars == <<stats, statsFetches, statsFor, showCreateDID>>
-----------------------------------------------------------------------------
NoStats == [credentials |-> 0, recipientsOrVerified |-> 0]

DashboardFresh ==
  /\ stats = NoStats
  /\ statsFetches = [fetch \in StatsFetches |-> None]
  /\ statsFor = None
  /\ showCreateDID = FALSE

\* The page is left.
LeaveDashboard ==
  /\ stats' = NoStats
  /\ statsFetches' = [fetch \in StatsFetches |-> None]
  /\ statsFor' = None
  /\ showCreateDID' = FALSE

StatsDependencies == <<isReady, didStore.did, IsInstitution>>

StatsEffect ==
  /\ statsFor # StatsDependencies
  /\ statsFor' = StatsDependencies
  /\ \/ /\ isReady /\ HasDid
        /\ \E fetch \in {f \in StatsFetches : statsFetches[f] = None} :
             statsFetches' = [statsFetches EXCEPT ![fetch] =
               [did |-> didStore.did, issuer |-> IsInstitution,
                answer |-> None]]
     \/ ~(isReady /\ HasDid) /\ UNCHANGED statsFetches
  /\ UNCHANGED <<stats, showCreateDID>>

CertificatesOf(who, field) ==
  {hash \in Hashes : Certified(hash) /\ certificate[hash][field] = who}

\* The chain's list of an issuer holds numbers of credentials, whose holder
\* is undefined: together they count as one recipient.
StatsOf(who, issuer) ==
  LET count == Cardinality(CertificatesOf(who, IF issuer THEN "issuer"
                                                         ELSE "holder"))
  IN  [credentials |-> count,
       recipientsOrVerified |-> IF issuer /\ count > 0 THEN 1 ELSE 0]

StatsRead(fetch) ==
  /\ statsFetches[fetch] # None /\ statsFetches[fetch].answer = None
  /\ statsFetches' = [statsFetches EXCEPT ![fetch].answer =
                        StatsOf(statsFetches[fetch].did, statsFetches[fetch].issuer)]
  /\ UNCHANGED <<stats, statsFor, showCreateDID>>

StatsShown(fetch) ==
  /\ statsFetches[fetch] # None /\ statsFetches[fetch].answer # None
  /\ stats' = statsFetches[fetch].answer
  /\ statsFetches' = [statsFetches EXCEPT ![fetch] = None]
  /\ UNCHANGED <<statsFor, showCreateDID>>

StatsFail(fetch) ==
  /\ statsFetches[fetch] # None /\ statsFetches[fetch].answer = None
  /\ statsFetches' = [statsFetches EXCEPT ![fetch] = None]
  /\ UNCHANGED <<stats, statsFor, showCreateDID>>

\* Only an account that shows no DID is offered the dialog; when it shows
\* one, the dialog is not drawn, open or not.
DialogShown == account # None /\ ~HasDid /\ showCreateDID

OpenDialog ==
  /\ account # None /\ ~HasDid
  /\ ~showCreateDID
  /\ showCreateDID' = TRUE
  /\ UNCHANGED <<stats, statsFetches, statsFor>>

DashboardNext ==
  /\ \/ StatsEffect \/ OpenDialog
     \/ \E fetch \in StatsFetches :
          StatsRead(fetch) \/ StatsShown(fetch) \/ StatsFail(fetch)
  /\ UNCHANGED <<ledgerVars, storeVars, extrinsics>>
=============================================================================
