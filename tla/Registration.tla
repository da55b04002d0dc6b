----------------------------- MODULE Registration -----------------------------
(***************************************************************************)
(* What offline-first registration promises, whatever it keeps to do so:   *)
(* a form that this node holds is never replaced, the central register     *)
(* gets nothing from this node that it does not hold and never changes an  *)
(* entry, and a request is told once, what is true from then on.           *)
(* RegisterSync implements it (RegistrationHolds).                         *)
(***************************************************************************)

CONSTANTS Forms,     \* each submission of the form
          Emails,
          EmailOf,   \* the email that each form is about
          NoForm,
          Foreign,   \* a form that another node has put in the register
          Requests

VARIABLES held,      \* the form that this node holds for each email
          register,  \* the form that the central register has for each email
          told       \* what each request was told, and of which form

vars == <<held, register, told>>

Init ==
  /\ held = [e \in Emails |-> NoForm]
  /\ register = [e \in Emails |-> NoForm]
  /\ told = [r \in Requests |-> [form |-> NoForm, answer |-> "none"]]

\* This node takes the form for an email that it holds none for.
Hold(f) ==
  /\ held[EmailOf[f]] = NoForm
  /\ held' = [held EXCEPT ![EmailOf[f]] = f]
  /\ UNCHANGED <<register, told>>

\* The register takes a form of this node, which holds one for that email.
Enter(f) ==
  /\ held[EmailOf[f]] # NoForm
  /\ register[EmailOf[f]] = NoForm
  /\ register' = [register EXCEPT ![EmailOf[f]] = f]
  /\ UNCHANGED <<held, told>>

\* The register takes a form of another node.
EnterForeign(e) ==
  /\ register[e] = NoForm
  /\ register' = [register EXCEPT ![e] = Foreign]
  /\ UNCHANGED <<held, told>>

\* A request is told, for the first and last time: that its form was not taken, that one
\* for its email is held, or that the register has one from this node.
Tell(r, f, answer) ==
  /\ told[r].answer = "none"
  /\ answer \in {"pending", "synced"} => held[EmailOf[f]] # NoForm
  /\ answer = "synced" => register[EmailOf[f]] \in Forms
  /\ told' = [told EXCEPT ![r] = [form |-> f, answer |-> answer]]
  /\ UNCHANGED <<held, register>>

Next ==
  \/ \E f \in Forms : Hold(f) \/ Enter(f)
  \/ \E e \in Emails : EnterForeign(e)
  \/ \E r \in Requests, f \in Forms, answer \in {"local_save_failed", "pending", "synced"} :
       Tell(r, f, answer)

Spec == Init /\ [][Next]_vars
=============================================================================
