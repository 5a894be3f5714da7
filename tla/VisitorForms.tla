----------------------------- MODULE VisitorForms -----------------------------
(* The form that signs a visitor in or up (components/auth/AuthForm.tsx) with  *)
(* the rules of lib/validation.ts. A value is empty, breaks the rules of its   *)
(* field, or keeps them; two passwords that keep them can differ. The form      *)
(* sends nothing: its submission is still to be written.                        *)
EXTENDS Integers

VARIABLES
  isLogin,     \* the mode of the form
  typed,       \* formData
  touched,     \* fields that were left, or submitted
  errors,      \* fields with a message in errors
  succeeded    \* onSuccess was called

formVars == << isLogin, typed, touched, errors, succeeded >>

FormFields == {"firstName", "lastName", "email", "password", "confirmPassword"}

\* "bad" is no name, no address, and a password long enough but too simple.
FieldValues(f) ==
  CASE f = "lastName" -> {"", "good"}
    [] f \in {"password", "confirmPassword"} -> {"", "bad", "good", "other"}
    [] OTHER -> {"", "bad", "good"}

\* The fields on the page; the schemas have a rule for each but the last name.
FieldsOnPage == IF isLogin THEN {"email", "password"} ELSE FormFields

\* validateField of value v in a form that holds the password pw: the schema of the
\* login asks for a long password only.
Valid(f, v, pw) ==
  CASE f = "lastName" -> TRUE
    [] f = "password" -> v \in (IF isLogin THEN {"bad", "good", "other"} ELSE {"good", "other"})
    [] f = "confirmPassword" -> v # "" /\ v = pw
    [] OTHER -> v = "good"

EmptyForm == [f \in FormFields |-> ""]

FormInit ==
  /\ isLogin \in BOOLEAN
  /\ typed = EmptyForm
  /\ touched = {}
  /\ errors = {}
  /\ succeeded = FALSE

\* errors with the message of f set or cleared.
WithError(e, f, wrong) == IF wrong THEN e \cup {f} ELSE e \ {f}

\* Mutant: a new password leaves the message of its repetition alone.
ChangeFieldAlone(f, v) ==
  /\ f \in FieldsOnPage /\ v \in FieldValues(f) /\ v # typed[f]
  /\ typed' = [typed EXCEPT ![f] = v]
  /\ errors' = IF f \in touched THEN WithError(errors, f, ~Valid(f, v, typed["password"])) ELSE errors
  /\ UNCHANGED << isLogin, touched, succeeded >>

\* handleChange: a touched field is validated anew, and so is the repetition when
\* the password changes, though for its being the same only.
ChangeField(f, v) ==
  /\ f \in FieldsOnPage /\ v \in FieldValues(f) /\ v # typed[f]
  /\ typed' = [typed EXCEPT ![f] = v]
  /\ LET own == IF f \in touched THEN WithError(errors, f, ~Valid(f, v, typed["password"])) ELSE errors
     IN errors' = IF f = "password" /\ "confirmPassword" \in touched /\ ~isLogin
                  THEN WithError(own, "confirmPassword", typed["confirmPassword"] # v)
                  ELSE own
  /\ UNCHANGED << isLogin, touched, succeeded >>

\* handleBlur
LeaveField(f) ==
  /\ f \in FieldsOnPage
  /\ touched' = touched \cup {f}
  /\ errors' = WithError(errors, f, ~Valid(f, typed[f], typed["password"]))
  /\ UNCHANGED << isLogin, typed, succeeded >>

\* isFormReady
Ready == \A f \in FieldsOnPage \ {"lastName"} : typed[f] # ""

\* handleSubmit
SubmitForm ==
  /\ Ready
  /\ LET wrong == { f \in FieldsOnPage : ~Valid(f, typed[f], typed["password"]) }
     IN /\ touched' = FieldsOnPage
        /\ errors' = IF wrong = {} THEN errors ELSE wrong
        /\ succeeded' = (succeeded \/ wrong = {})
  /\ UNCHANGED << isLogin, typed >>

\* toggleMode
ToggleMode ==
  /\ isLogin' = ~isLogin
  /\ typed' = EmptyForm
  /\ touched' = {}
  /\ errors' = {}
  /\ UNCHANGED succeeded

FormNext ==
  \/ \E f \in FormFields : LeaveField(f) \/ \E v \in FieldValues(f) : ChangeField(f, v)
  \/ SubmitForm \/ ToggleMode

FormSpec == FormInit /\ [][FormNext]_formVars

-----------------------------------------------------------------------------
FormTypeOK ==
  /\ isLogin \in BOOLEAN /\ succeeded \in BOOLEAN
  /\ DOMAIN typed = FormFields /\ \A f \in FormFields : typed[f] \in FieldValues(f)
  /\ touched \subseteq FieldsOnPage /\ errors \subseteq touched

\* A field that was left or submitted shows a message exactly when its value breaks its
\* rules, though the message of the repeated password depends on another field;
\* but a repetition that is left empty shows none once the password is emptied
\* too, as only their being the same is looked at (handleChange, handleBlur, handleSubmit).
MessagesAreCurrent ==
  \A f \in touched :
     \/ f \in errors <=> ~Valid(f, typed[f], typed["password"])
     \/ f = "confirmPassword" /\ typed[f] = "" /\ typed["password"] = ""
=============================================================================
