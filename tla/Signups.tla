------------------------------ MODULE Signups ------------------------------
(* The sign-up queue: signup_requests, from the public form, the mailed      *)
(* verification link and the reminders of the backlog job to the review, and *)
(* the sign-ups at Cognito that the operator's invitations let in or deny    *)
(* (module Provisioning).                                                    *)
(*                                                                           *)
(* Every statement of the repository commits by itself.  A submission reads  *)
(* the row and upserts it in two statements, the backlog job expires, lists  *)
(* and reminds in three; steps of others come in between.  Mail is delivered *)
(* or lost.  A sweep and a submission take far less than a tick.  Texts,     *)
(* audit rows and the notices to the operator, which may be lost without a   *)
(* trace, are left out.                                                      *)
EXTENDS Provisioning

CONSTANTS
    Form,           \* concurrent submissions of the public form
    Ttl,            \* VERIFY_TOKEN_TTL_HOURS, in ticks
    Cooldown,       \* REMINDER_COOLDOWN_HOURS
    MinAge,         \* MIN_AGE_MINUTES
    MaxReminders,   \* MAX_REMINDERS
    PerDay,         \* submissions an e-mail has per day
    Day,            \* bucket_seconds of the limit
    LastSubmit,     \* bound: the latest time of a submission
    MaxFaults       \* bound: lost mails, lost captures, crashes

ASSUME SignupsAssumption ==
    /\ Ttl \in Nat \ {0} /\ Cooldown \in Nat /\ MinAge \in Nat /\ MaxReminders \in Nat
    /\ PerDay \in Nat /\ Day \in Nat \ {0}
    /\ LastSubmit \in Nat /\ MaxFaults \in Nat

\* A request submitted last may be reminded once, and expires after that.
MaxClock == LastSubmit + 2 * Ttl + 2

VARIABLES
    request,    \* signup_requests, by e-mail
    rate,       \* rate_limits of the e-mails
    form,       \* the submission of each caller
    sweep,      \* the backlog job
    captures,   \* denied sign-ups still to be recorded
    clock,
    faults,     \* number of faults so far
    submitted   \* history: submissions of each e-mail that were stored

queueVars == <<request, rate, form, sweep, captures, clock, faults, submitted>>
vars == <<provVars, queueVars>>

Statuses == {"awaiting_verification", "pending", "approved", "rejected", "expired"}

\* link is the verify token of the row: NULL, or mailed and held by the applicant,
\* or lost on the way; a token that was replaced matches no row any more.
\* last_reminder_at -1 stands for NULL, status "none" for no row.
Request == [status : Statuses \cup {"none"}, link : {"null", "held", "lost"}, expires : Nat,
            submitted_at : Nat, reminder_count : Nat, last_reminder_at : Nat \cup {-1}]

NoRow == [status |-> "none", link |-> "null", expires |-> 0, submitted_at |-> 0,
          reminder_count |-> 0, last_reminder_at |-> -1]

IdleForm == [pc |-> "idle", email |-> None]
IdleSweep == [pc |-> "idle", todo |-> {}]

TypeOK ==
    /\ ProvTypeOK
    /\ request \in [Emails -> Request]
    /\ rate \in [Emails -> [start : Nat, count : Nat]]
    /\ form \in [Form -> [pc : {"idle", "read"}, email : Emails \cup {None}]]
    /\ sweep \in [pc : {"idle", "expired", "listed"}, todo : SUBSET Emails]
    /\ captures \subseteq Emails
    /\ clock \in 0..MaxClock
    /\ faults \in 0..MaxFaults /\ submitted \in [Emails -> Nat]

Init ==
    /\ ProvInit
    /\ invited = [e \in Emails |-> "none"]
    /\ request = [e \in Emails |-> NoRow]
    /\ rate = [e \in Emails |-> [start |-> 0, count |-> 0]]
    /\ form = [c \in Form |-> IdleForm]
    /\ sweep = IdleSweep
    /\ captures = {}
    /\ clock = 0 /\ faults = 0
    /\ submitted = [e \in Emails |-> 0]

\* A mail reaches its addressee or is lost: emails._send swallows every error.
Send(link) ==
    \/ link = "held" /\ UNCHANGED faults
    \/ link = "lost" /\ faults < MaxFaults /\ faults' = faults + 1

-----------------------------------------------------------------------------
(* The public form.                                                          *)

\* check_and_increment: a fixed window, counted before it is compared.
Hit(email) ==
    IF rate[email].start < clock - Day THEN [start |-> clock, count |-> 1]
    ELSE [start |-> IF rate[email].count = 0 THEN clock ELSE rate[email].start,
          count |-> rate[email].count + 1]

\* Counted, and refused over the limit or when the request is already reviewed.
SubmitRead(c, e) ==
    /\ form[c].pc = "idle" /\ clock <= LastSubmit
    /\ Hit(e).count <= PerDay + 1  \* further refusals only count on
    /\ rate' = [rate EXCEPT ![e] = Hit(e)]
    /\ form' = [form EXCEPT ![c] =
                   IF rate'[e].count > PerDay \/ request[e].status \in {"approved", "rejected"}
                   THEN IdleForm ELSE [pc |-> "read", email |-> e]]
    /\ UNCHANGED <<provVars, request, sweep, captures, clock, faults,
                   submitted>>

\* Mutation: the upsert trusts the status read before it.
Reopened_Blind(status) == "awaiting_verification"

Reopened(status) ==
    IF status \in {"none", "awaiting_verification", "pending", "expired"}
    THEN "awaiting_verification" ELSE status

\* submitted_at and the reminders of the first submission stay.
SubmitUpsert(c) ==
    LET e == form[c].email IN
    /\ form[c].pc = "read"
    /\ \E link \in {"held", "lost"} :
           /\ Send(link)
           /\ request' = [request EXCEPT ![e] =
                  [request[e] EXCEPT !.status = Reopened(@), !.link = link, !.expires = clock + Ttl,
                                     !.submitted_at = IF request[e].status = "none" THEN clock ELSE @]]
    /\ submitted' = [submitted EXCEPT ![e] = @ + 1]
    /\ form' = [form EXCEPT ![c] = IdleForm]
    /\ UNCHANGED <<provVars, rate, sweep, captures, clock>>

\* The applicant follows a link; a link that is not the row's current one does nothing.
Verify(e) ==
    /\ request[e].link = "held" /\ request[e].status = "awaiting_verification" /\ request[e].expires > clock
    /\ request' = [request EXCEPT ![e].status = "pending", ![e].link = "null", ![e].expires = 0]
    /\ UNCHANGED <<provVars, rate, form, sweep, captures, clock, faults,
                   submitted>>

-----------------------------------------------------------------------------
(* reconcile_signup_backlog.                                                 *)

\* Mutation: a request that was reminded is left to its new link.
ExpireStale_Reminded ==
    /\ sweep.pc = "idle"
    /\ request' = [e \in Emails |->
                      IF request[e].status = "awaiting_verification" /\ request[e].expires < clock
                         /\ request[e].reminder_count = 0
                      THEN [request[e] EXCEPT !.status = "expired"] ELSE request[e]]
    /\ sweep' = [pc |-> "expired", todo |-> {}]
    /\ UNCHANGED <<provVars, rate, form, captures, clock, faults, submitted>>

ExpireStale ==
    /\ sweep.pc = "idle"
    /\ request' = [e \in Emails |->
                      IF request[e].status = "awaiting_verification" /\ request[e].expires < clock
                      THEN [request[e] EXCEPT !.status = "expired"] ELSE request[e]]
    /\ sweep' = [pc |-> "expired", todo |-> {}]
    /\ UNCHANGED <<provVars, rate, form, captures, clock, faults, submitted>>

\* Mutation: the cooldown is not looked at.
Stuck_NoCooldown(e) ==
    /\ request[e].status = "awaiting_verification" /\ request[e].expires > clock
    /\ request[e].submitted_at < clock - MinAge
    /\ request[e].reminder_count < MaxReminders

Stuck(e) ==
    /\ request[e].status = "awaiting_verification" /\ request[e].expires > clock
    /\ request[e].submitted_at < clock - MinAge
    /\ request[e].reminder_count < MaxReminders
    /\ \/ request[e].last_reminder_at = -1
       \/ request[e].last_reminder_at < clock - Cooldown

ListStuck ==
    /\ sweep.pc = "expired"
    /\ LET todo == {e \in Emails : Stuck(e)}
       IN  sweep' = IF todo = {} THEN IdleSweep ELSE [pc |-> "listed", todo |-> todo]
    /\ UNCHANGED <<provVars, request, rate, form, captures, clock, faults,
                   submitted>>

Swept(e) == LET rest == sweep.todo \ {e}
            IN  IF rest = {} THEN IdleSweep ELSE [pc |-> "listed", todo |-> rest]

\* Mutation: the UPDATE trusts the list.
Remindable_Listed(e) == TRUE

Remindable(e) == request[e].status = "awaiting_verification"

\* issue_verification_reminder, and the mail when it updated the row.
Remind(e) ==
    /\ sweep.pc = "listed" /\ e \in sweep.todo
    /\ IF Remindable(e)
       THEN \E link \in {"held", "lost"} :
                /\ Send(link)
                /\ request' = [request EXCEPT ![e] =
                       [request[e] EXCEPT !.link = link, !.expires = clock + Ttl,
                                          !.reminder_count = @ + 1, !.last_reminder_at = clock]]
       ELSE UNCHANGED <<request, faults>>
    /\ sweep' = Swept(e)
    /\ UNCHANGED <<provVars, rate, form, captures, clock, submitted>>

-----------------------------------------------------------------------------
(* Review.                                                                   *)

\* _get_reviewer_email selects the identity_id of tenants, which has no such column
\* in any migration, nor has tenant_identities: PostgreSQL refuses the statement.
GetReviewerEmailRaises == UNCHANGED vars

\* Both handlers begin with it and end with its error.  Nothing that follows it is
\* reached: mark_reviewed, the invitation of an approved applicant, the mail.
Approve(e) == request[e].status # "none" /\ GetReviewerEmailRaises

Reject(e) == request[e].status # "none" /\ GetReviewerEmailRaises

-----------------------------------------------------------------------------
(* A denied sign-up is recorded after the answer to Cognito.                 *)

Denied(s) ==
    /\ cognito[s] = "absent" /\ invited[EmailOf[s]] = "none"
    /\ captures' = captures \cup {EmailOf[s]}
    /\ UNCHANGED <<provVars, request, rate, form, sweep, clock, faults,
                   submitted>>

Recorded(row) ==
    IF row.status \in {"none", "awaiting_verification", "expired"}
    THEN [row EXCEPT !.status = "pending", !.submitted_at = IF row.status = "none" THEN clock ELSE @]
    ELSE row

\* The capture is written, or lost with the process.
RecordDenied(e) ==
    /\ e \in captures
    /\ captures' = captures \ {e}
    /\ \/ request' = [request EXCEPT ![e] = Recorded(@)] /\ UNCHANGED faults
       \/ faults < MaxFaults /\ faults' = faults + 1 /\ UNCHANGED request
    /\ UNCHANGED <<provVars, rate, form, sweep, clock, submitted>>

-----------------------------------------------------------------------------
Tick ==
    /\ clock < MaxClock /\ sweep.pc = "idle" /\ \A c \in Form : form[c].pc = "idle"
    /\ clock' = clock + 1
    /\ UNCHANGED <<provVars, request, rate, form, sweep, captures,
                   faults, submitted>>

Crash(r) == faults < MaxFaults /\ ReconcilerCrash(r) /\ faults' = faults + 1
            /\ UNCHANGED <<request, rate, form, sweep, captures, clock, submitted>>

Sweep == ExpireStale \/ ListStuck \/ \E e \in Emails : Remind(e)

Enrol(s) == SignUp(s) \/ Confirm(s)

Next ==
    \/ \E c \in Form, e \in Emails : SubmitRead(c, e)
    \/ \E c \in Form : SubmitUpsert(c)
    \/ \E e \in Emails : Verify(e) \/ Approve(e) \/ Reject(e) \/ RecordDenied(e)
    \/ Sweep \/ Tick
    \/ \E s \in Subs : Denied(s)
    \/ \E e \in Emails : (InviteAdd(e) \/ InviteRevoke(e)) /\ UNCHANGED queueVars
    \/ \E s \in Subs : Enrol(s) /\ UNCHANGED queueVars
    \/ \E r \in Reconcilers : Reconcile(r) /\ UNCHANGED queueVars
    \/ \E r \in Reconcilers : Crash(r)

\* The timers start the jobs again and again, handlers run to their end, time
\* passes, and an invited applicant signs up and confirms.
Fairness ==
    /\ WF_vars(Sweep) /\ SF_vars(Tick)
    /\ \A c \in Form : WF_vars(SubmitUpsert(c))
    /\ \A s \in Subs : WF_vars(Enrol(s) /\ UNCHANGED queueVars)
    /\ \A r \in Reconcilers : WF_vars(Reconcile(r) /\ UNCHANGED queueVars)

Spec == Init /\ [][Next]_vars /\ Fairness

-----------------------------------------------------------------------------
\* "safe to call concurrently with the public verify endpoint and the expiry sweep"
\* (repository.py:280): a request that the sweep has listed and that has since been
\* verified, recorded by a denied sign-up or expired gets no reminder and no link.
RemindedWhileAwaiting ==
    [][\A e \in Emails :
          request'[e].reminder_count # request[e].reminder_count
          => request[e].status = "awaiting_verification"
             /\ request'[e].status = "awaiting_verification"]_vars

\* A request is reminded at most once per submission: the link a reminder renews
\* lapses before the cooldown is over.
RemindedOncePerSubmission == \A e \in Emails : request[e].reminder_count <= submitted[e]

\* No applicant is left in limbo: a request that waits for its verification gets
\* verified, or recorded otherwise, or expires, whatever mails are lost.
AwaitingEnds ==
    \A e \in Emails : request[e].status = "awaiting_verification"
                      ~> request[e].status # "awaiting_verification"

=============================================================================
