--------------------------- MODULE PortalForms ---------------------------
(***************************************************************************)
(* The forms of the two portals that create something                      *)
(* (src/frontend/*/src/pages), from the fields the user fills in to what   *)
(* the service made of them.  An intent is one thing the user wants done:  *)
(* it is submitted again only after an error was reported for it.          *)
(* PortalPages describes the forms.                                        *)
(***************************************************************************)
EXTENDS Naturals, FiniteSets, PortalPages

CONSTANTS
  Forms,       \* the forms to look at
  LoseEarly,   \* the connection may break while the service is still at work
  MaxIntents, MaxAttempts    \* bounds of the model

VARIABLES
  form,       \* the form on screen
  fields,     \* the intent in its fields (0: blank), and whether it has an identifier
  busy,
  calls,      \* requests: attempt, intent, how far the service is, who listens
  effects,    \* what the service created for an intent
  lost,       \* history: answers to an intent that never came
  count       \* intents and attempts so far; history: intents with an identifier

fvars == <<form, fields, busy, calls, effects, lost, count>>

Blank == [intent |-> 0, named |-> FALSE]

Init ==
  /\ form \in Forms
  /\ fields = Blank /\ busy = FALSE /\ calls = {}
  /\ effects = [i \in 1..MaxIntents |-> 0] /\ lost = [i \in 1..MaxIntents |-> 0]
  /\ count = [intents |-> 0, attempts |-> 0, named |-> {}]

-----------------------------------------------------------------------------
(* The page.                                                               *)

\* The fields stay editable while the form is busy.
Fill(named) ==
  /\ count.intents < MaxIntents
  /\ count' = [count EXCEPT !.intents = @ + 1,
                            !.named = IF named THEN @ \cup {count.intents + 1} ELSE @]
  /\ named => form.id # "none"
  /\ form.id = "unique" => named
  /\ fields' = [intent |-> count.intents + 1, named |-> named]
  /\ UNCHANGED <<form, busy, calls, effects, lost>>

SubmitEnabled_always == TRUE

SubmitEnabled == ~busy

Submit ==
  /\ fields.intent # 0 /\ SubmitEnabled
  /\ count.attempts < MaxAttempts /\ count' = [count EXCEPT !.attempts = @ + 1]
  /\ busy' = TRUE
  /\ calls' = calls \cup {[nr |-> count'.attempts, of |-> fields, at |-> "check", heard |-> TRUE]}
  /\ UNCHANGED <<form, fields, effects, lost>>

\* Escape, a click beside the dialog, another tab or page: nothing of it
\* waits for the request.
Close ==
  /\ fields # Blank \/ busy
  /\ CASE form.closing = "keeps" -> UNCHANGED <<fields, busy, calls>>
       [] form.closing = "clears" -> fields' = Blank /\ UNCHANGED <<busy, calls>>
       [] form.closing = "unmounts" ->
            /\ fields' = Blank /\ busy' = FALSE
            /\ calls' = {[c EXCEPT !.heard = FALSE] : c \in calls}
  /\ UNCHANGED <<form, effects, lost, count>>

-----------------------------------------------------------------------------
(* The service.                                                            *)

Step(c, at) == calls' = (calls \ {c}) \cup {[c EXCEPT !.at = at]}

Known(c) == form.id = "checked" /\ c.of.named /\ effects[c.of.intent] > 0

Check(c) ==
  /\ c.at = "check" /\ Step(c, IF Known(c) THEN "refused" ELSE "create")
  /\ UNCHANGED <<form, fields, busy, effects, lost, count>>

Create(c) ==
  /\ c.at = "create"
  /\ IF form.id = "unique" /\ effects[c.of.intent] > 0
     THEN Step(c, "refused") /\ UNCHANGED effects
     ELSE Step(c, "created") /\ effects' = [effects EXCEPT ![c.of.intent] = @ + 1]
  /\ UNCHANGED <<form, fields, busy, lost, count>>

\* No funds, a failing statement, a provider that says no.
Refuse(c) ==
  /\ c.at = "create" /\ Step(c, "refused")
  /\ UNCHANGED <<form, fields, busy, effects, lost, count>>

-----------------------------------------------------------------------------
(* The answer: success clears the fields, whatever they hold by then; an   *)
(* error leaves them for another attempt.                                  *)

Answer(c) ==
  /\ c.at \in {"created", "refused"} /\ calls' = calls \ {c}
  /\ busy' = IF c.heard THEN FALSE ELSE busy
  /\ fields' = IF c.heard /\ c.at = "created" THEN Blank ELSE fields
  /\ UNCHANGED <<form, effects, lost, count>>

\* fetch fails; the service goes on with what it has.
Lose(c) ==
  /\ c.heard /\ (LoseEarly \/ c.at \in {"created", "refused"})
  /\ lost' = [lost EXCEPT ![c.of.intent] = @ + 1] /\ busy' = FALSE
  /\ calls' = (calls \ {c}) \cup {[c EXCEPT !.heard = FALSE]}
  /\ UNCHANGED <<form, fields, effects, count>>

Next ==
  \/ \E named \in BOOLEAN : Fill(named)
  \/ Submit \/ Close
  \/ \E c \in calls : Check(c) \/ Create(c) \/ Refuse(c) \/ Answer(c) \/ Lose(c)

Spec == Init /\ [][Next]_fvars

-----------------------------------------------------------------------------
(***************************************************************************)
(* What the user wanted once happens once, however the form is closed,     *)
(* opened again, edited while it is busy and submitted again: a checked    *)
(* identifier makes it exact, without one every lost answer may add one.   *)
(***************************************************************************)
OncePerIntent ==
  \A i \in 1..MaxIntents :
    /\ effects[i] <= 1 + lost[i]
    /\ i \in count.named /\ form.id \in {"checked", "unique"} => effects[i] <= 1

=============================================================================
