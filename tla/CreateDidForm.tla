--------------------------- MODULE CreateDidForm ----------------------------
(***************************************************************************)
(* CreateDIDForm.tsx, on a page of its own or in the dialog of the         *)
(* dashboard (CreateDIDModal.tsx): keys are made in the browser, shown for *)
(* a backup and registered on chain for the account of the wallet.  The    *)
(* type of the keys and what the chain stores of them are left out.        *)
(***************************************************************************)
EXTENDS Extrinsics

VARIABLES
  didStep,          \* select, generate, backup
  generatedKeys,    \* the address of the keys shown, or None
  backupConfirmed,  \* the box is ticked
  didSubmitting

didFormVars == <<didStep, generatedKeys, backupConfirmed, didSubmitting>>
-----------------------------------------------------------------------------
DidFormFresh ==
  /\ didStep = "select"
  /\ generatedKeys = None
  /\ backupConfirmed = FALSE
  /\ didSubmitting = FALSE

\* The form is taken off the screen, or shown anew.
LeaveDidForm ==
  /\ didStep' = "select"
  /\ generatedKeys' = None
  /\ backupConfirmed' = FALSE
  /\ didSubmitting' = FALSE

\* The three screens.  The first one goes on with an account and a ready api.
SelectScreen == didStep = "select"
Continuable == SelectScreen /\ account # None /\ isReady
GenerateScreen == didStep = "generate"
BackupScreen == didStep = "backup"

\* generateKeys up to its await; regenerateKeys is the same from the backup
\* screen, at any time, also while a submission is under way.
GenerateKeys ==
  /\ Continuable \/ BackupScreen
  /\ didStep' = "generate"
  /\ UNCHANGED <<generatedKeys, backupConfirmed, didSubmitting>>

KeysGenerated(key) ==
  /\ GenerateScreen
  /\ generatedKeys' = key
  /\ didStep' = "backup"
  /\ UNCHANGED <<backupConfirmed, didSubmitting>>

GeneratingFails ==
  /\ GenerateScreen
  /\ didStep' = "select"
  /\ UNCHANGED <<generatedKeys, backupConfirmed, didSubmitting>>

\* The box keeps its state when the keys are replaced.
ConfirmBackup ==
  /\ BackupScreen
  /\ backupConfirmed' = ~backupConfirmed
  /\ UNCHANGED <<didStep, generatedKeys, didSubmitting>>

StartOver ==
  /\ BackupScreen
  /\ ~didSubmitting
  /\ didStep' = "select"
  /\ generatedKeys' = None
  /\ UNCHANGED <<backupConfirmed, didSubmitting>>

\* The button, the rules of the form and the first guard of onSubmit.
MayCreateDid ==
  /\ BackupScreen
  /\ isReady /\ ~didSubmitting
  /\ backupConfirmed
  /\ generatedKeys # None /\ account # None

SubmitDid(slot, page) ==
  /\ MayCreateDid
  /\ Send(slot, [name |-> "createDid", by |-> account,
                 key |-> generatedKeys], page)
  /\ didSubmitting' = TRUE
  /\ UNCHANGED <<didStep, generatedKeys, backupConfirmed>>

\* After a success the form is left: see Site.
CreateDidFails(slot) ==
  /\ Fails(slot)
  /\ didSubmitting' = FALSE
  /\ UNCHANGED <<didStep, generatedKeys, backupConfirmed>>

DidFormNext ==
  \/ GenerateKeys \/ GeneratingFails \/ ConfirmBackup \/ StartOver
  \/ \E key \in Keys : KeysGenerated(key)
-----------------------------------------------------------------------------
\* The backup is shown with keys only.
DidFormTypeOK ==
  /\ didStep \in {"select", "generate", "backup"}
  /\ generatedKeys \in Keys \cup {None}
  /\ didStep = "backup" => generatedKeys # None
  /\ backupConfirmed \in BOOLEAN /\ didSubmitting \in BOOLEAN
=============================================================================
