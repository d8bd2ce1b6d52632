-------------------------- MODULE InstitutionPage ---------------------------
(***************************************************************************)
(* pages/Institution.tsx: the institution of the session, read from the    *)
(* chain by queries made one after the other; each answer is shown as it   *)
(* comes.  The query for the reputation is left out: nothing depends on    *)
(* what it answers.                                                        *)
(***************************************************************************)
EXTENDS Extrinsics

CONSTANT ProfileFetches   \* bound: names of the fetches under way

VARIABLES
  institutionData,   \* None, or the DID and whether it is verified
  issuedCount,
  profileLoading,
  profileRefreshing,
  profileFetches,    \* fetch => None, or where it stands
  profileFor         \* what the effect ran for last

profileVars == <<institutionData, issuedCount, profileLoading,
                 profileRefreshing, profileFetches, profileFor>>
-----------------------------------------------------------------------------
ProfileFresh ==
  /\ institutionData = None
  /\ issuedCount = 0
  /\ profileLoading = TRUE
  /\ profileRefreshing = FALSE
  /\ profileFetches = [fetch \in ProfileFetches |-> None]
  /\ profileFor = None

\* The page is left.
LeaveProfile ==
  /\ institutionData' = None
  /\ issuedCount' = 0
  /\ profileLoading' = TRUE
  /\ profileRefreshing' = FALSE
  /\ profileFetches' = [fetch \in ProfileFetches |-> None]
  /\ profileFor' = None

IssuedBy(who) ==
  Cardinality({hash \in Hashes :
                 Certified(hash) /\ certificate[hash].issuer = who})

\* fetchInstitutionData up to its first await.
StartProfileFetch(refresh) ==
  /\ \E fetch \in {f \in ProfileFetches : profileFetches[f] = None} :
       profileFetches' = [profileFetches EXCEPT ![fetch] =
         [phase |-> "asked", did |-> didStore.did, answer |-> None,
          refresh |-> refresh]]
  /\ profileLoading' = TRUE

ProfileDependencies == <<account # None, IsInstitution, didStore.did, isReady>>

ProfileWanted == account # None /\ IsInstitution /\ HasDid /\ isReady

ProfileEffect ==
  /\ profileFor # ProfileDependencies
  /\ profileFor' = ProfileDependencies
  /\ \/ ProfileWanted /\ StartProfileFetch(FALSE)
     \/ ~ProfileWanted /\ UNCHANGED <<profileFetches, profileLoading>>
  /\ UNCHANGED <<institutionData, issuedCount, profileRefreshing>>

\* Past the guards of the page; while it loads there is only a spinner.
ProfileShown == account # None /\ IsInstitution /\ ~profileLoading

\* The badges: verified, or pending, also while nothing is known.
ShownAsVerified ==
  ProfileShown /\ institutionData # None /\ institutionData.verified

RefreshProfile ==
  /\ ProfileShown
  /\ ~profileRefreshing
  /\ HasDid /\ isReady
  /\ StartProfileFetch(TRUE)
  /\ profileRefreshing' = TRUE
  /\ UNCHANGED <<institutionData, issuedCount, profileFor>>

InFetch(fetch, phase) ==
  profileFetches[fetch] # None /\ profileFetches[fetch].phase = phase

\* The node reads institutions, later credentialsByIssuer.
ProfileRead(fetch) ==
  /\ \/ /\ InFetch(fetch, "asked")
        /\ profileFetches' = [profileFetches EXCEPT ![fetch].phase = "read",
             ![fetch].answer =
               IF profileFetches[fetch].did \in Accounts
               THEN institution[profileFetches[fetch].did] ELSE "none"]
     \/ /\ InFetch(fetch, "counting")
        /\ profileFetches' = [profileFetches EXCEPT ![fetch].phase = "counted",
             ![fetch].answer = IssuedBy(profileFetches[fetch].did)]
  /\ UNCHANGED <<institutionData, issuedCount, profileLoading,
                 profileRefreshing, profileFor>>

\* finally, and the rest of handleRefresh.
ProfileFetchEnds(fetch) ==
  /\ profileLoading' = FALSE
  /\ profileRefreshing' = (profileRefreshing /\ ~profileFetches[fetch].refresh)
  /\ profileFetches' = [profileFetches EXCEPT ![fetch] = None]

ProfileFound(fetch) ==
  /\ InFetch(fetch, "read")
  /\ profileFetches[fetch].answer # "none"
  /\ institutionData' = [did |-> profileFetches[fetch].did,
                         verified |-> profileFetches[fetch].answer = "verified"]
  /\ profileFetches' = [profileFetches EXCEPT ![fetch].phase = "counting"]
  /\ UNCHANGED <<issuedCount, profileLoading, profileRefreshing, profileFor>>

ProfileAbsent(fetch) ==
  /\ InFetch(fetch, "read")
  /\ profileFetches[fetch].answer = "none"
  /\ ProfileFetchEnds(fetch)
  /\ UNCHANGED <<institutionData, issuedCount, profileFor>>

ProfileCounted(fetch) ==
  /\ InFetch(fetch, "counted")
  /\ issuedCount' = profileFetches[fetch].answer
  /\ ProfileFetchEnds(fetch)
  /\ UNCHANGED <<institutionData, profileFor>>

ProfileFetchFails(fetch) ==
  /\ InFetch(fetch, "asked") \/ InFetch(fetch, "counting")
  /\ ProfileFetchEnds(fetch)
  /\ UNCHANGED <<institutionData, issuedCount, profileFor>>

ProfileNext ==
  /\ \/ ProfileEffect \/ RefreshProfile
     \/ \E fetch \in ProfileFetches :
          \/ ProfileRead(fetch) \/ ProfileFound(fetch) \/ ProfileAbsent(fetch)
          \/ ProfileCounted(fetch) \/ ProfileFetchFails(fetch)
  /\ UNCHANGED <<ledgerVars, storeVars, extrinsics>>
=============================================================================
