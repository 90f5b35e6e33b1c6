------------------------------- MODULE Signup -------------------------------
(***************************************************************************)
(* A signup and its one-time codes: the backend's requests register,       *)
(* complete-registration, discard-registration and login for one email,    *)
(* in several workers at the same time, over the users row and the rows of *)
(* otp_codes.                                                              *)
(*                                                                         *)
(* Oracle: a query sees what is committed; an UPDATE waits for a row that  *)
(* another transaction has changed and looks at it again; a statement of   *)
(* its own transaction is one step.                                        *)
(***************************************************************************)
EXTENDS Integers, FiniteSets

CONSTANTS
  Workers,        \* backend threads that serve this email
  Cap,            \* OTP_MAX_ATTEMPTS
  MaxCodes,       \* bound: codes that are generated
  SignupRequests, \* bound: what the visitor asks for
  MaxErrors       \* bound: requests that end in an error half way

SignupRequestKinds == {"register", "complete", "guess", "discard", "login"}

ASSUME SignupConstants ==
  /\ IsFiniteSet(Workers) /\ Cap \in Nat \ {0} /\ MaxCodes \in Nat /\ MaxErrors \in Nat
  /\ SignupRequests \subseteq SignupRequestKinds

CodeIds == 1..MaxCodes
NoCode == 0

VARIABLES
  account,   \* the users row: absent, or with email_verified or not
  data,      \* whether the account has its bots rows, which delete_user deletes
  codes,     \* otp_codes: state of each row and its attempts
  created,   \* rows inserted so far, in the order of created_at
  serving,   \* what each worker is doing
  tested,    \* history: wrong guesses compared with each code
  consumed,  \* history: how often each code was accepted and used up
  errors     \* history: requests that ended in an error

signupVars == <<account, data, codes, created, serving, tested, consumed, errors>>

\* "hidden": inserted and not committed; "deleted": by another generation;
\* "expired": by its time.
CodeStates == {"absent", "hidden", "live", "used", "deleted", "expired"}
ServingSteps == {"idle", "marking", "inserting", "trimming", "mailing",
                 "checking", "checked", "consuming", "accepted", "purging"}
Row == [id : CodeIds, tries : 0..Cap]
Serving == [step : ServingSteps,
            code : CodeIds \cup {NoCode}, \* the code it generated or was given
            rows : SUBSET Row,            \* rows that verify_otp has still to compare
            locked : SUBSET CodeIds]      \* rows it has changed and not committed
NotServing == [step |-> "idle", code |-> NoCode, rows |-> {}, locked |-> {}]

\* A row that had its attempts is closed, and a row exists when it was inserted.
SignupTypeOK ==
  /\ account \in {"absent", "unverified", "verified"}
  /\ data \in BOOLEAN
  /\ codes \in [CodeIds -> [state : CodeStates, attempts : 0..Cap]]
  /\ created \in 0..MaxCodes
  /\ serving \in [Workers -> Serving]
  /\ tested \in [CodeIds -> Nat] /\ consumed \in [CodeIds -> Nat]
  /\ errors \in 0..MaxErrors
  /\ \A c \in CodeIds :
       /\ codes[c].state = "live" => codes[c].attempts < Cap
       /\ codes[c].state = "absent" <=> c > created

SignupInit ==
  /\ account = "absent" /\ data = FALSE
  /\ codes = [c \in CodeIds |-> [state |-> "absent", attempts |-> 0]]
  /\ created = 0
  /\ serving = [w \in Workers |-> NotServing]
  /\ tested = [c \in CodeIds |-> 0] /\ consumed = [c \in CodeIds |-> 0]
  /\ errors = 0

-----------------------------------------------------------------------------
(* Helpers *)

ServeGoes(w, step) == serving' = [serving EXCEPT ![w].step = step]
ServeEnds(w) == serving' = [serving EXCEPT ![w] = NotServing]
LiveCodes == {c \in CodeIds : codes[c].state = "live"}
LockedByOthers(w) == UNION {serving[v].locked : v \in Workers \ {w}}
CountsKept == UNCHANGED <<tested, consumed, errors>>
AccountKept == UNCHANGED <<account, data>>

-----------------------------------------------------------------------------
(* generate_otp *)

\* create_user, or the resumption of a signup that was never verified.
RegisterBegins(w) ==
  /\ "register" \in SignupRequests /\ serving[w].step = "idle"
  /\ account # "verified" /\ created < MaxCodes
  /\ account' = "unverified" /\ data' = (data \/ account = "absent")
  /\ ServeGoes(w, "marking")
  /\ UNCHANGED <<codes, created>> /\ CountsKept

\* UPDATE ... SET used=1: waits for rows that another generation has marked.
OtpMarks(w) ==
  /\ serving[w].step = "marking" /\ LiveCodes \cap LockedByOthers(w) = {}
  /\ serving' = [serving EXCEPT ![w].step = "inserting", ![w].locked = LiveCodes]
  /\ AccountKept /\ UNCHANGED <<codes, created>> /\ CountsKept

OtpInserts(w) ==
  /\ serving[w].step = "inserting" /\ created < MaxCodes
  /\ created' = created + 1
  /\ codes' = [codes EXCEPT ![created + 1] = [state |-> "hidden", attempts |-> 0]]
  /\ serving' = [serving EXCEPT ![w].step = "trimming", ![w].code = created + 1]
  /\ AccountKept /\ CountsKept

\* The rows that the DELETE sees: its own, and what is committed and not marked.
Visible(w) == (LiveCodes \ serving[w].locked) \cup {serving[w].code}
\* Mutant: all but its own.
TrimmedButOwn(w) == Visible(w) \ {serving[w].code}
\* All but the newest.
Trimmed(w) == {c \in Visible(w) : \E d \in Visible(w) : d > c}
\* The DELETE and the commit.
OtpTrims(w) ==
  /\ serving[w].step = "trimming" /\ Trimmed(w) \cap LockedByOthers(w) = {}
  /\ codes' = [c \in CodeIds |-> [codes[c] EXCEPT !.state =
       IF c \in Trimmed(w) THEN "deleted"
       ELSE IF c = serving[w].code THEN "live"
       ELSE IF c \in serving[w].locked /\ codes[c].state = "live" THEN "used"
       ELSE @]]
  /\ serving' = [serving EXCEPT ![w].step = "mailing", ![w].locked = {}]
  /\ AccountKept /\ UNCHANGED created /\ CountsKept

\* The mail is sent, or it fails and delete_user purges the data of the account,
\* whose row stays.
OtpMailed(w) ==
  /\ serving[w].step = "mailing"
  /\ ServeEnds(w) /\ data' \in {data, FALSE}
  /\ UNCHANGED <<account, codes, created>> /\ CountsKept

-----------------------------------------------------------------------------
(* verify_otp and complete-registration *)

CommittedRows == {[id |-> c, tries |-> codes[c].attempts] : c \in LiveCodes}

\* A right code, or a guess that fits none.
CompleteBegins(w) ==
  /\ serving[w].step = "idle" /\ account # "absent"
  /\ \E c \in CodeIds \cup {NoCode} :
       /\ IF c = NoCode THEN "guess" \in SignupRequests
          ELSE "complete" \in SignupRequests /\ codes[c].state \notin {"absent", "hidden"}
       /\ serving' = [serving EXCEPT ![w] =
            [step |-> "checking", code |-> c, rows |-> CommittedRows, locked |-> {}]]
  /\ AccountKept /\ UNCHANGED <<codes, created>> /\ CountsKept

\* Mutant: the attempts are counted from the row that was read.
CountLost(r) == r.tries + 1
\* attempts = NVL(attempts, 0) + 1.
CountWrong(r) == codes[r.id].attempts + 1

\* used = CASE WHEN ... >= :cap.
Closes(attempts) == attempts >= Cap

\* A row that has had its attempts is closed; a guess that does not fit is
\* counted, and the last one closes the row.  Rows that are not live any more
\* are not touched.
VerifyRefuses(w) ==
  /\ serving[w].step \in {"checking", "consuming"}
  /\ \E r \in serving[w].rows :
       /\ r.tries >= Cap \/ r.id # serving[w].code
       /\ r.id \notin LockedByOthers(w)
       /\ serving' = [serving EXCEPT ![w].rows = @ \ {r}]
       /\ tested' = IF r.tries >= Cap THEN tested ELSE [tested EXCEPT ![r.id] = @ + 1]
       /\ codes' =
            IF codes[r.id].state # "live" THEN codes
            ELSE IF r.tries >= Cap THEN [codes EXCEPT ![r.id].state = "used"]
            ELSE [codes EXCEPT ![r.id] =
                    [state |-> IF Closes(CountWrong(r)) THEN "used" ELSE "live",
                     attempts |-> CountWrong(r)]]
  /\ AccountKept /\ UNCHANGED <<created, consumed, errors>>

\* The row of the code that was given, still to be compared.
Matching(w) == {r \in serving[w].rows : r.id = serving[w].code /\ r.tries < Cap}

\* mark_used=False: the code stays as it is.
CheckAccepts(w) ==
  /\ serving[w].step = "checking" /\ Matching(w) # {}
  /\ serving' = [serving EXCEPT ![w].step = "checked", ![w].rows = {}]
  /\ AccountKept /\ UNCHANGED <<codes, created>> /\ CountsKept

\* The account has the address of the code: the code is verified again.
CompleteRechecks(w) ==
  /\ serving[w].step = "checked"
  /\ serving' = [serving EXCEPT ![w].step = "consuming", ![w].rows = CommittedRows]
  /\ AccountKept /\ UNCHANGED <<codes, created>> /\ CountsKept

\* Mutant: the UPDATE without used=0, and its row count not looked at.
ConsumeUnchecked(w) ==
  /\ serving[w].step = "consuming" /\ Matching(w) # {}
  /\ ServeGoes(w, "accepted")
  /\ codes' = [codes EXCEPT ![serving[w].code].state = "used"]
  /\ consumed' = [consumed EXCEPT ![serving[w].code] = @ + 1]
  /\ AccountKept /\ UNCHANGED <<created, tested, errors>>
\* One UPDATE decides who uses the code; the others are refused.
Consume(w) ==
  /\ serving[w].step = "consuming" /\ Matching(w) # {}
  /\ serving[w].code \notin LockedByOthers(w)
  /\ IF codes[serving[w].code].state = "live"
     THEN /\ ServeGoes(w, "accepted")
          /\ codes' = [codes EXCEPT ![serving[w].code].state = "used"]
          /\ consumed' = [consumed EXCEPT ![serving[w].code] = @ + 1]
     ELSE ServeEnds(w) /\ UNCHANGED <<codes, consumed>>
  /\ AccountKept /\ UNCHANGED <<created, tested, errors>>

\* No row is left: the request is refused.
VerifyEnds(w) ==
  /\ serving[w].step \in {"checking", "consuming"} /\ serving[w].rows = {}
  /\ ServeEnds(w)
  /\ AccountKept /\ UNCHANGED <<codes, created>> /\ CountsKept

\* verify_user_email.
CompleteVerifies(w) ==
  /\ serving[w].step = "accepted"
  /\ account' = "verified" /\ ServeEnds(w)
  /\ UNCHANGED <<data, codes, created>> /\ CountsKept

\* A verified owner's list of bots gets the rows it lacks (ensure_bot_slots).
BotsListed ==
  /\ account = "verified" /\ data' = TRUE
  /\ UNCHANGED <<account, codes, created, serving>> /\ CountsKept

-----------------------------------------------------------------------------
(* Requests that purge a signup that was not verified *)

\* discard-registration and login read the row, and purge what was unverified.
PurgeReads(w) ==
  /\ {"discard", "login"} \cap SignupRequests # {}
  /\ serving[w].step = "idle" /\ account = "unverified"
  /\ ServeGoes(w, "purging")
  /\ AccountKept /\ UNCHANGED <<codes, created>> /\ CountsKept

\* delete_user: sessions, bots and events; the users row and its codes stay.
Purges(w) ==
  /\ serving[w].step = "purging"
  /\ ServeEnds(w) /\ data' = FALSE
  /\ UNCHANGED <<account, codes, created>> /\ CountsKept

-----------------------------------------------------------------------------
\* The ten minutes of a code are over: cleanup_expired_otps deletes the row.
CodeExpires(c) ==
  /\ codes[c].state = "live"
  /\ \A w \in Workers : c \notin serving[w].locked
  /\ codes' = [codes EXCEPT ![c].state = "expired"]
  /\ AccountKept /\ UNCHANGED <<created, serving>> /\ CountsKept

\* A request ends in an error: what it has not committed is undone.
RequestFails(w) ==
  /\ serving[w].step # "idle" /\ errors < MaxErrors
  /\ errors' = errors + 1
  /\ codes' = [c \in CodeIds |->
       IF serving[w].step = "trimming" /\ c = serving[w].code
       THEN [codes[c] EXCEPT !.state = "deleted"] ELSE codes[c]]
  /\ ServeEnds(w)
  /\ AccountKept /\ UNCHANGED <<created, tested, consumed>>

Generates(w) == OtpMarks(w) \/ OtpInserts(w) \/ OtpTrims(w) \/ OtpMailed(w)
Verifies(w) ==
  \/ VerifyRefuses(w) \/ CheckAccepts(w) \/ CompleteRechecks(w)
  \/ Consume(w) \/ VerifyEnds(w) \/ CompleteVerifies(w)

SignupNext ==
  \/ \E w \in Workers :
       \/ RegisterBegins(w) \/ Generates(w)
       \/ CompleteBegins(w) \/ Verifies(w)
       \/ PurgeReads(w) \/ Purges(w) \/ RequestFails(w)
  \/ \E c \in CodeIds : CodeExpires(c)
  \/ BotsListed

SignupSpec == SignupInit /\ [][SignupNext]_signupVars

-----------------------------------------------------------------------------
(* Properties *)

\* However many requests present the same code at the same time, it completes
\* one of them (the row count in verify_otp).
CodeOnce == \A c \in CodeIds : consumed[c] <= 1

\* A code is compared with OTP_MAX_ATTEMPTS wrong guesses, and with no more
\* beyond them than there are other requests in flight (verify_otp).
GuessBound == \A c \in CodeIds : tested[c] <= Cap + Cardinality(Workers) - 1

\* Overlapping generations never delete each other's codes in turn: unless some
\* request ended in an error, the newest code is not deleted
\* (generate_otp).
NewestStays == created > 0 /\ errors = 0 => codes[created].state # "deleted"
=============================================================================
