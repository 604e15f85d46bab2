---------------------------- MODULE Notification -----------------------------
(***************************************************************************)
(* NotificationService: one notification to one user, which callers may    *)
(* ask for again, with its row per channel, the retry job, an              *)
(* administrator's redelivery, the provider's delivery events, and the     *)
(* user's STOP, consent and change of number in between.                   *)
(*                                                                         *)
(* Every statement is a step of its own, since the code awaits each one.   *)
(* Reading, archiving and the wording of a notification are left out.      *)
(***************************************************************************)
EXTENDS Naturals, Sequences, FiniteSets, SequencesExt

CONSTANTS
  Caller,          \* requests and jobs that run at the same time
  Phone,           \* numbers the user may verify
  Notices,         \* [channels, critical]: what may be sent, see NOTIFICATION_TEMPLATES
  MaxTries,        \* maxAttempts
  MaxRedeliveries  \* bound: an administrator's redeliveries

NoPhone == "no phone"

ASSUME NotificationAssumption ==
  /\ NoPhone \notin Phone
  /\ MaxTries \in Nat \ {0} /\ MaxRedeliveries \in Nat

VARIABLES
  notice,      \* the notification, with its dedupe key
  events,      \* notification_event rows, in the order of their insertion
  preference,  \* the channels the user has not switched off
  phone,       \* getPhone: the number that was verified last
  optedOut,    \* sms_opt_out
  smsConsent,  \* the user's sms_consent row
  consenting,  \* the number that activateSmsConsent has read and not yet written
  calls,       \* what each caller is doing
  sends,       \* sends[i]: how often row i was recorded as taken on by a provider
  redeliveries \* how often an administrator had row i sent

noticeVars == <<notice, events, preference, phone, optedOut, smsConsent, consenting,
                calls, sends, redeliveries>>

\* sweep: rows that the retry job has read; id and attempts: the row being
\* delivered, as read; to: the number it goes to.  stopped and covered are
\* history: the numbers opted out when the delivery began, and the numbers that
\* a consent has covered since; once the delivery has its number, that one.
NoCall == [op |-> "none", pc |-> "idle", todo |-> <<>>, sweep |-> {}, id |-> 0,
           attempts |-> 0, to |-> NoPhone, stopped |-> {}, covered |-> {}]

NoticeInit ==
  /\ notice \in Notices
  /\ events = <<>> /\ sends = <<>> /\ redeliveries = <<>>
  /\ preference = ToSet(notice.channels)
  /\ phone = NoPhone
  /\ optedOut = {}
  /\ smsConsent = [active |-> FALSE, phone |-> NoPhone]
  /\ consenting = NoPhone
  /\ calls = [c \in Caller |-> NoCall]

------------------------------------------------------------------------------
\* The call's own steps.

Doing(c, pc) == calls[c].pc = pc
Does(c, call) == calls' = [calls EXCEPT ![c] = call]

KeepUser == UNCHANGED <<notice, preference, phone, optedOut, smsConsent, consenting>>
KeepRows == UNCHANGED <<events, sends, redeliveries>>

\* resolveChannels: preferences are not read for a critical notification.
resolveChannels ==
  SelectSeq(notice.channels, LAMBDA ch : notice.critical \/ ch \in preference)

notify(c) ==
  /\ Doing(c, "idle")
  /\ Does(c, [NoCall EXCEPT !.op = "notify", !.pc = "channel", !.todo = resolveChannels])
  /\ KeepUser /\ KeepRows

findByDedupeKey(ch) == \E i \in DOMAIN events : events[i].channel = ch

\* Mutant: no unique index on the dedupe key.
NoIndex(ch) == FALSE

\* notification_event_dedupe_key_unique
KeyIsTaken(ch) == \E i \in DOMAIN events : events[i].channel = ch

nextChannel(c) ==
  LET call == calls[c]  IN
  /\ Doing(c, "channel")
  /\ IF call.todo = <<>>                THEN Does(c, NoCall)
     ELSE IF findByDedupeKey(call.todo[1]) THEN Does(c, [call EXCEPT !.todo = Tail(@)])
     ELSE Does(c, [call EXCEPT !.pc = "insert"])
  /\ KeepUser /\ KeepRows

\* Begins the delivery of row id as it was read.
Begin(call, id, attempts) ==
  [call EXCEPT !.pc = "deliver", !.id = id, !.attempts = attempts, !.stopped = optedOut,
               !.covered = IF smsConsent.active THEN {smsConsent.phone} ELSE {}]

\* The index turns a second insert into an error, which ends the call.
insertNotice(c) ==
  LET call == calls[c]  ch == Head(call.todo) IN
  /\ Doing(c, "insert")
  /\ IF KeyIsTaken(ch) THEN Does(c, NoCall) /\ KeepRows
     ELSE /\ events' = Append(events, [channel |-> ch, status |-> "pending", attempts |-> 0,
                                       retry |-> FALSE, message |-> 0])
          /\ sends' = Append(sends, 0) /\ redeliveries' = Append(redeliveries, 0)
          /\ Does(c, [Begin(call, Len(events) + 1, 0) EXCEPT !.todo = Tail(@)])
  /\ KeepUser

\* findDueForRetry.  The job runs once a day (vercel.json): two do not overlap.
retryDueNotifications(c) ==
  LET due == {i \in DOMAIN events : events[i].status = "failed" /\ events[i].retry
                                    /\ events[i].attempts < MaxTries} IN
  /\ Doing(c, "idle") /\ due # {}
  /\ \A other \in Caller : calls[other].op # "sweep"
  /\ Does(c, [NoCall EXCEPT !.op = "sweep", !.pc = "next",
                            !.sweep = {<<i, events[i].attempts>> : i \in due}])
  /\ KeepUser /\ KeepRows

nextDue(c) ==
  LET call == calls[c] IN
  /\ Doing(c, "next")
  /\ IF call.sweep = {} THEN Does(c, NoCall)
     ELSE \E r \in call.sweep :
            Does(c, [Begin(call, r[1], r[2]) EXCEPT !.sweep = @ \ {r}])
  /\ KeepUser /\ KeepRows

redeliverFailedEvent(c) ==
  /\ Doing(c, "idle")
  /\ \E i \in DOMAIN events :
       /\ events[i].status = "failed" /\ redeliveries[i] < MaxRedeliveries
       /\ redeliveries' = [redeliveries EXCEPT ![i] = @ + 1]
       /\ Does(c, Begin([NoCall EXCEPT !.op = "redeliver"], i, events[i].attempts))
  /\ UNCHANGED <<events, sends>> /\ KeepUser

------------------------------------------------------------------------------
\* deliver

Channel(c) == events[calls[c].id].channel

\* The delivery is over, and the call goes on with what it was doing.
Delivered(c) ==
  LET call == calls[c] IN
  Does(c, CASE call.op = "notify"    -> [NoCall EXCEPT !.op = call.op, !.pc = "channel", !.todo = call.todo]
            [] call.op = "sweep"     -> [NoCall EXCEPT !.op = call.op, !.pc = "next", !.sweep = call.sweep]
            [] call.op = "redeliver" -> NoCall)

\* markSent, markDelivered and markFailed write the row by its id.
WriteRow(c, row) == events' = [events EXCEPT ![calls[c].id] = row]

\* A refusal that is not to be tried again.
Refuse(c) ==
  /\ WriteRow(c, [events[calls[c].id] EXCEPT !.status = "failed", !.attempts = calls[c].attempts,
                                          !.retry = FALSE])
  /\ Delivered(c) /\ UNCHANGED <<sends, redeliveries>>

deliverInApp(c) ==
  /\ Doing(c, "deliver") /\ Channel(c) = "in_app"
  /\ WriteRow(c, [events[calls[c].id] EXCEPT !.status = "delivered", !.retry = FALSE])
  /\ Delivered(c) /\ KeepUser /\ UNCHANGED <<sends, redeliveries>>

\* Without an address the row stays pending.
deliverEmail(c) ==
  /\ Doing(c, "deliver") /\ Channel(c) = "email"
  /\ Does(c, [calls[c] EXCEPT !.pc = "send"]) \/ Delivered(c)
  /\ KeepUser /\ KeepRows

\* Without a number the row stays pending.
getPhone(c) ==
  /\ Doing(c, "deliver") /\ Channel(c) = "sms"
  /\ IF phone = NoPhone THEN Delivered(c)
     ELSE Does(c, [calls[c] EXCEPT !.pc = "optOut", !.to = phone, !.stopped = @ \cap {phone},
                                   !.covered = @ \cap {phone}])
  /\ KeepUser /\ KeepRows

isOptedOut(c) ==
  /\ Doing(c, "optOut")
  /\ IF calls[c].to \in optedOut THEN Refuse(c)
     ELSE Does(c, [calls[c] EXCEPT !.pc = "consent"]) /\ KeepRows
  /\ KeepUser

\* Mutant: any active consent will do.
AnyConsent(number) == smsConsent.active

Covers(number) == smsConsent.active /\ smsConsent.phone = number

findConsent(c) ==
  /\ Doing(c, "consent")
  /\ IF Covers(calls[c].to) THEN Does(c, [calls[c] EXCEPT !.pc = "send"]) /\ KeepRows
     ELSE Refuse(c)
  /\ KeepUser

providerAccepts(c) ==
  /\ Doing(c, "send")
  /\ Does(c, [calls[c] EXCEPT !.pc = "sent"])
  /\ KeepUser /\ KeepRows

markSent(c) ==
  /\ Doing(c, "sent")
  /\ sends' = [sends EXCEPT ![calls[c].id] = @ + 1]
  /\ WriteRow(c, [events[calls[c].id] EXCEPT !.status = "sent", !.retry = FALSE,
                                          !.message = sends'[calls[c].id]])
  /\ Delivered(c) /\ KeepUser /\ UNCHANGED redeliveries

\* The catch block: a lookup fails, or the provider does, for now or for good.
deliveryFails(c) ==
  LET attempts == calls[c].attempts + 1 IN
  /\ \/ calls[c].pc \in {"optOut", "consent", "send"}
     \/ Doing(c, "deliver") /\ Channel(c) # "in_app"
  /\ \E retryable \in {TRUE} \cup {~Doing(c, "send")} :
       WriteRow(c, [events[calls[c].id] EXCEPT !.status = "failed", !.attempts = attempts,
                   !.retry = retryable /\ attempts < MaxTries])
  /\ Delivered(c) /\ KeepUser /\ UNCHANGED <<sends, redeliveries>>

\* A statement fails outside the reach of the catch block, or the process dies.
Dies(c) ==
  /\ ~Doing(c, "idle")
  /\ Does(c, NoCall) /\ KeepUser /\ KeepRows

\* An event about the message that the row knows.
recordProviderDeliveryEvent(c) ==
  /\ Doing(c, "idle")
  /\ \E i \in DOMAIN events :
       /\ events[i].message # 0
       /\ Does(c, [NoCall EXCEPT !.op = "event", !.pc = "outcome", !.id = i,
                                 !.attempts = events[i].attempts])
  /\ KeepUser /\ KeepRows

markOutcome(c) ==
  LET row == events[calls[c].id] IN
  /\ Doing(c, "outcome")
  /\ \/ WriteRow(c, [row EXCEPT !.status = "delivered", !.retry = FALSE])
     \/ WriteRow(c, [row EXCEPT !.status = "failed", !.retry = FALSE, !.attempts = calls[c].attempts])
  /\ Does(c, NoCall) /\ KeepUser /\ UNCHANGED <<sends, redeliveries>>

------------------------------------------------------------------------------
\* The user.  Numbers and consents matter to texts alone.

Texts == "sms" \in ToSet(notice.channels)

setPreference ==
  /\ ~notice.critical
  /\ \E ch \in ToSet(notice.channels) : preference' \in {preference \cup {ch}, preference \ {ch}}
  /\ UNCHANGED <<notice, phone, optedOut, smsConsent, consenting, calls>> /\ KeepRows

\* Enrolls another number for text messages, or none (MfaService).
changePhone ==
  /\ Texts
  /\ phone' \in (Phone \cup {NoPhone}) \ {phone}
  /\ UNCHANGED <<notice, preference, optedOut, smsConsent, consenting, calls>> /\ KeepRows

recordSmsOptOut ==
  /\ Texts
  /\ phone # NoPhone /\ optedOut' = optedOut \cup {phone}
  /\ UNCHANGED <<notice, preference, phone, smsConsent, consenting, calls>> /\ KeepRows

activateSmsConsent ==
  /\ Texts /\ consenting = NoPhone /\ phone # NoPhone
  /\ consenting' = phone
  /\ UNCHANGED <<notice, preference, phone, optedOut, smsConsent, calls>> /\ KeepRows

writeConsent ==
  /\ consenting # NoPhone
  /\ smsConsent' = [active |-> TRUE, phone |-> consenting]
  /\ calls' = [c \in Caller |-> IF calls[c].id # 0 /\ calls[c].to \in {NoPhone, consenting}
                                THEN [calls[c] EXCEPT !.covered = @ \cup {consenting}]
                                ELSE calls[c]]
  /\ consenting' = NoPhone
  /\ UNCHANGED <<notice, preference, phone, optedOut>> /\ KeepRows

withdrawSmsConsent ==
  /\ Texts
  /\ smsConsent' = [smsConsent EXCEPT !.active = FALSE]
  /\ UNCHANGED <<notice, preference, phone, optedOut, consenting, calls>> /\ KeepRows

------------------------------------------------------------------------------

NoticeNext ==
  \/ \E c \in Caller :
       \/ notify(c) \/ nextChannel(c) \/ insertNotice(c)
       \/ retryDueNotifications(c) \/ nextDue(c) \/ redeliverFailedEvent(c)
       \/ deliverInApp(c) \/ deliverEmail(c) \/ getPhone(c) \/ isOptedOut(c) \/ findConsent(c)
       \/ providerAccepts(c) \/ markSent(c) \/ deliveryFails(c) \/ Dies(c)
       \/ recordProviderDeliveryEvent(c) \/ markOutcome(c)
  \/ setPreference \/ changePhone \/ recordSmsOptOut
  \/ activateSmsConsent \/ writeConsent \/ withdrawSmsConsent

NoticeSpec == NoticeInit /\ [][NoticeNext]_noticeVars

------------------------------------------------------------------------------
\* Properties.

\* A text is about to leave only for a number the user had not opted out when
\* its delivery began, and which a consent has covered at some moment since:
\* not an earlier number's consent, nor one withdrawn before.
TextsAreConsented ==
  \A c \in Caller : Doing(c, "send") /\ Channel(c) = "sms" =>
    calls[c].to \in calls[c].covered \ calls[c].stopped

\* The user is told once: however often the notification is asked for, and
\* whatever is retried, each channel records it as sent once, and once more for
\* each time an administrator had it sent again.  (A process that dies between
\* the provider's answer and the record leaves nothing to tell it by.)
ToldOnce ==
  \A ch \in ToSet(notice.channels) :
    LET rows == {i \in DOMAIN events : events[i].channel = ch} IN
    \A i \in rows : sends[i] <= 1 + redeliveries[i] /\ Cardinality(rows) = 1
==============================================================================
