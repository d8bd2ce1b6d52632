-------------------------- MODULE RegistrationForm --------------------------
(***************************************************************************)
(* InstitutionRegistration.tsx: a form of four steps, the last one a       *)
(* review.  A step whose fields are not valid does not go on.  The fields  *)
(* are left out, and so are the documents of the second step: neither they *)
(* nor their hashes are sent or asked for.                                 *)
(***************************************************************************)
EXTENDS Extrinsics

VARIABLES
  regStep,         \* 1..4
  regSubmitting

regVars == <<regStep, regSubmitting>>
-----------------------------------------------------------------------------
RegFresh ==
  /\ regStep = 1
  /\ regSubmitting = FALSE

\* The form is taken off the screen, or shown anew.
LeaveRegistration ==
  /\ regStep' = 1
  /\ regSubmitting' = FALSE

RegNextStep ==
  /\ regStep < 4
  /\ ~regSubmitting
  /\ regStep' = regStep + 1
  /\ UNCHANGED regSubmitting

RegPrevStep ==
  /\ regStep > 1
  /\ ~regSubmitting
  /\ regStep' = regStep - 1
  /\ UNCHANGED regSubmitting

\* The button of step 4 and the guards of onSubmit.
MayRegister == regStep = 4 /\ isReady /\ ~regSubmitting /\ account # None

SubmitRegistration(slot, page) ==
  /\ MayRegister
  /\ Send(slot, [name |-> "registerInstitution", by |-> account,
                 key |-> None], page)
  /\ regSubmitting' = TRUE
  /\ UNCHANGED regStep

\* The store is updated after finality, whoever is connected by then.
Registered(slot) ==
  /\ Finalized(slot)
  /\ didStore' = WithInstitution(didStore, extrinsics[slot].call.by)

RegistrationSettles == regSubmitting' = FALSE /\ UNCHANGED regStep

RegFormNext == RegNextStep \/ RegPrevStep
-----------------------------------------------------------------------------
\* The form is at one of its steps.
RegTypeOK == regStep \in 1..4 /\ regSubmitting \in BOOLEAN
=============================================================================
