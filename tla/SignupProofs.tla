---------------------------- MODULE SignupProofs ----------------------------
(***************************************************************************)
(* A code completes one request, is guessed a bounded number of times, and *)
(* is not deleted while it is the newest, for any number of workers,       *)
(* codes, attempts and errors.                                             *)
(***************************************************************************)
EXTENDS Signup, FiniteSetTheorems, TLAPS

Known == [state : CodeStates, attempts : Nat]
Work == [step : ServingSteps, code : CodeIds \cup {NoCode}, rows : SUBSET [id : CodeIds, tries : Nat],
         locked : SUBSET CodeIds]
SignupTyped ==
  /\ codes \in [CodeIds -> Known] /\ created \in 0..MaxCodes /\ serving \in [Workers -> Work]
  /\ consumed \in [CodeIds -> Nat]
\* A row is its generation's own until it is committed, and no code was used that
\* could still be.
Own(w) ==
  serving[w].step = "trimming" =>
    /\ serving[w].code \in CodeIds /\ codes[serving[w].code].state = "hidden"
    /\ \A v \in Workers \ {w} : serving[v].step = "trimming" => serving[v].code # serving[w].code
Unused(c) ==
  /\ c > created => codes[c].state = "absent"
  /\ codes[c].state \in {"absent", "hidden", "live"} => consumed[c] = 0
SignupInv ==
  SignupTyped /\ CodeOnce /\ (\A w \in Workers : Own(w)) /\ \A c \in CodeIds : Unused(c)

LEMMA NotServingTyped == NotServing \in Work /\ NotServing.step = "idle"
BY DEF NotServing, Work, ServingSteps

LEMMA SignupInitially == SignupInit => SignupInv
<1> SUFFICES ASSUME SignupInit PROVE SignupInv
  OBVIOUS
<1>1. SignupTyped
  BY NotServingTyped, SignupConstants DEF SignupInit, SignupTyped, Known, CodeStates
<1>2. \A w \in Workers : Own(w)
  BY NotServingTyped DEF SignupInit, Own
<1> QED BY <1>1, <1>2 DEF SignupInit, SignupInv, CodeOnce, Unused

\* What becomes of a worker that does anything but generate.
Serves(w) ==
  /\ serving' \in [Workers -> Work] /\ serving'[w].step # "trimming"
  /\ \A v \in Workers \ {w} : serving'[v] = serving[v]

\* The rows a worker touches are live ones or its own.
LEMMA Touching ==
  ASSUME SignupInv, NEW w \in Workers, Serves(w), created' = created,
         codes' \in [CodeIds -> Known], consumed' = consumed,
         \A c \in CodeIds :
           \/ codes'[c].state = codes[c].state
           \/ codes[c].state = "live" /\ codes'[c].state \in {"live", "used", "deleted", "expired"}
           \/ /\ serving[w].step = "trimming" /\ c = serving[w].code
              /\ codes'[c].state \in {"live", "deleted"}
  PROVE  SignupInv'
<1>1. SignupTyped'
  BY DEF SignupInv, SignupTyped, Serves
<1>2. ASSUME NEW c \in CodeIds PROVE Unused(c)' /\ consumed'[c] <= 1
  <2>1. Unused(c) /\ consumed[c] <= 1
    BY DEF SignupInv, CodeOnce
  <2>2. serving[w].step = "trimming" => codes[serving[w].code].state = "hidden"
    BY DEF SignupInv, Own
  <2> QED BY <2>1, <2>2 DEF Unused
<1>3. ASSUME NEW v \in Workers PROVE Own(v)'
  <2>1. CASE v = w
    BY <2>1 DEF Own, Serves
  <2>2. CASE v # w
    <3>1. serving'[v] = serving[v] /\ Own(v)
      BY <2>2 DEF SignupInv, Serves
    <3>2. ASSUME serving[v].step = "trimming"
          PROVE  /\ serving[v].code \in CodeIds /\ codes'[serving[v].code].state = "hidden"
                 /\ \A u \in Workers \ {v} : serving'[u].step = "trimming" => serving'[u].code # serving[v].code
      <4>1. /\ serving[v].code \in CodeIds /\ codes[serving[v].code].state = "hidden"
            /\ serving[w].step = "trimming" => serving[w].code # serving[v].code
            /\ \A u \in Workers \ {v} : serving[u].step = "trimming" => serving[u].code # serving[v].code
        BY <2>2, <3>1, <3>2 DEF Own
      <4> QED BY <2>2, <4>1 DEF Serves
    <3> QED BY <3>1, <3>2 DEF Own
  <2> QED BY <2>1, <2>2
<1> QED BY <1>1, <1>2, <1>3 DEF SignupInv, CodeOnce

LEMMA GoingServes ==
  ASSUME SignupTyped, NEW w \in Workers, NEW step \in ServingSteps \ {"trimming"}, ServeGoes(w, step)
  PROVE  Serves(w)
<1>1. [serving[w] EXCEPT !.step = step] \in Work
  BY DEF SignupTyped, Work
<1> QED BY <1>1 DEF ServeGoes, Serves, SignupTyped, Work

LEMMA EndingServes == ASSUME SignupTyped, NEW w \in Workers, ServeEnds(w) PROVE Serves(w)
BY NotServingTyped DEF ServeEnds, Serves, SignupTyped

\* A worker that changes no row.
LEMMA ServingOnly ==
  ASSUME SignupInv, NEW w \in Workers, Serves(w), UNCHANGED <<codes, created, consumed>>
  PROVE  SignupInv'
<1>1. codes' \in [CodeIds -> Known]
  BY DEF SignupInv, SignupTyped
<1> QED BY <1>1, Touching

LEMMA CommittedTyped == ASSUME SignupTyped PROVE CommittedRows \subseteq [id : CodeIds, tries : Nat]
BY DEF SignupTyped, CommittedRows, LiveCodes, Known

-----------------------------------------------------------------------------
(* generate_otp *)

LEMMA InsertKeeps == ASSUME SignupInv, NEW w \in Workers, OtpInserts(w) PROVE SignupInv'
<1> DEFINE new == [serving[w] EXCEPT !.step = "trimming", !.code = created + 1]
<1>1. SignupTyped /\ created + 1 \in CodeIds /\ created' = created + 1 /\ created' \in 0..MaxCodes
  BY SignupConstants DEF SignupInv, SignupTyped, OtpInserts, CodeIds
<1>2. new \in Work /\ new.step = "trimming" /\ new.code = created + 1
  BY <1>1 DEF SignupTyped, Work, ServingSteps
<1>3. /\ serving' \in [Workers -> Work] /\ serving'[w] = new
      /\ \A v \in Workers \ {w} : serving'[v] = serving[v]
  BY <1>1, <1>2 DEF OtpInserts, SignupTyped
<1>4. [state |-> "hidden", attempts |-> 0] \in Known
  BY DEF Known, CodeStates
<1>5. /\ codes' \in [CodeIds -> Known] /\ codes'[created + 1].state = "hidden"
      /\ \A c \in CodeIds \ {created + 1} : codes'[c] = codes[c]
      /\ consumed' = consumed
  BY <1>1, <1>4 DEF OtpInserts, SignupTyped, CountsKept
<1>6. codes[created + 1].state = "absent" /\ consumed[created + 1] = 0
  BY <1>1, SignupConstants DEF SignupInv, SignupTyped, Unused
<1>7. ASSUME NEW c \in CodeIds PROVE Unused(c)' /\ consumed'[c] <= 1
  <2>1. Unused(c) /\ consumed[c] <= 1 /\ c \in Int /\ created \in Int
    BY <1>1, SignupConstants DEF SignupInv, SignupTyped, CodeOnce, CodeIds
  <2> QED BY <1>1, <1>5, <1>6, <2>1 DEF Unused
<1>8. ASSUME NEW v \in Workers PROVE Own(v)'
  <2>1. \A u \in Workers \ {w} : serving[u].step = "trimming" =>
          serving[u].code \in CodeIds /\ codes[serving[u].code].state = "hidden"
          /\ serving[u].code # created + 1
    BY <1>6 DEF SignupInv, Own
  <2>2. CASE v = w
    BY ZenonT(60), <1>1, <1>2, <1>3, <1>5, <2>1, <2>2 DEF Own
  <2>3. CASE v # w
    <3>1. serving'[v] = serving[v] /\ Own(v)
      BY <1>3, <2>3 DEF SignupInv
    <3>2. ASSUME serving[v].step = "trimming"
          PROVE  /\ serving[v].code \in CodeIds /\ codes'[serving[v].code].state = "hidden"
                 /\ \A u \in Workers \ {v} : serving'[u].step = "trimming" => serving'[u].code # serving[v].code
      <4>1. serving[v].code \in CodeIds \ {created + 1} /\ codes[serving[v].code].state = "hidden"
        BY <2>1, <2>3, <3>2
      <4>2. ASSUME NEW u \in Workers \ {v}, serving'[u].step = "trimming"
            PROVE  serving'[u].code # serving[v].code
        <5>1. CASE u = w
          BY <1>2, <1>3, <4>1, <5>1
        <5>2. CASE u # w
          BY <1>3, <3>1, <3>2, <4>2, <5>2 DEF Own
        <5> QED BY <5>1, <5>2
      <4> QED BY <1>5, <4>1, <4>2
    <3> QED BY <3>1, <3>2 DEF Own
  <2> QED BY <2>2, <2>3
<1> QED BY <1>1, <1>3, <1>5, <1>7, <1>8 DEF SignupInv, SignupTyped, CodeOnce

LEMMA TrimKeeps == ASSUME SignupInv, NEW w \in Workers, OtpTrims(w) PROVE SignupInv'
<1> DEFINE new == [serving[w] EXCEPT !.step = "mailing", !.locked = {}]
<1>1. SignupTyped /\ Own(w) /\ serving[w].step = "trimming"
  BY DEF SignupInv, OtpTrims
<1>2. Serves(w)
  <2>1. new \in Work /\ new.step = "mailing"
    BY <1>1 DEF SignupTyped, Work, ServingSteps
  <2> QED BY <1>1, <2>1 DEF OtpTrims, Serves, SignupTyped
<1>3. \A c \in Trimmed(w) : codes[c].state = "live" \/ c = serving[w].code
  BY DEF Trimmed, Visible, LiveCodes
<1>4. ASSUME NEW c \in CodeIds
      PROVE  /\ codes'[c] \in Known
             /\ \/ codes'[c].state = codes[c].state
                \/ codes[c].state = "live" /\ codes'[c].state \in {"live", "used", "deleted", "expired"}
                \/ c = serving[w].code /\ codes'[c].state \in {"live", "deleted"}
  <2>1. codes[c] \in Known
    BY <1>1 DEF SignupTyped
  <2>2. codes'[c] = [codes[c] EXCEPT !.state =
          IF c \in Trimmed(w) THEN "deleted"
          ELSE IF c = serving[w].code THEN "live"
          ELSE IF c \in serving[w].locked /\ codes[c].state = "live" THEN "used"
          ELSE codes[c].state]
    BY DEF OtpTrims
  <2> QED BY <1>3, <2>1, <2>2 DEF Known, CodeStates
<1>5. codes' \in [CodeIds -> Known]
  <2>1. DOMAIN codes' = CodeIds /\ codes' = [c \in CodeIds |-> codes'[c]]
    BY DEF OtpTrims
  <2> QED BY <1>4, <2>1
<1>6. created' = created /\ consumed' = consumed
  BY DEF OtpTrims, CountsKept
<1> QED BY <1>1, <1>2, <1>4, <1>5, <1>6, Touching

LEMMA GeneratesKeeps ==
  ASSUME SignupInv, NEW w \in Workers, RegisterBegins(w) \/ Generates(w) PROVE SignupInv'
<1> USE DEF CountsKept
<1>1. SignupTyped
  BY DEF SignupInv
<1>2. CASE RegisterBegins(w)
  BY <1>1, <1>2, GoingServes, ServingOnly DEF RegisterBegins, ServingSteps
<1>3. CASE OtpMarks(w)
  <2>1. [serving[w] EXCEPT !.step = "inserting", !.locked = LiveCodes] \in Work
    BY <1>1 DEF SignupTyped, Work, ServingSteps, LiveCodes
  <2>2. [serving[w] EXCEPT !.step = "inserting", !.locked = LiveCodes].step = "inserting"
    BY <1>1 DEF SignupTyped, Work
  <2>3. Serves(w)
    BY <1>1, <1>3, <2>1, <2>2 DEF OtpMarks, Serves, SignupTyped
  <2> QED BY <1>3, <2>3, ServingOnly DEF OtpMarks
<1>4. CASE OtpMailed(w)
  BY <1>1, <1>4, EndingServes, ServingOnly DEF OtpMailed
<1> QED BY <1>2, <1>3, <1>4, InsertKeeps, TrimKeeps DEF Generates

-----------------------------------------------------------------------------
(* verify_otp *)

LEMMA RefuseKeeps == ASSUME SignupInv, NEW w \in Workers, VerifyRefuses(w) PROVE SignupInv'
<1>1. SignupTyped /\ serving[w] \in Work
  BY DEF SignupInv, SignupTyped
<1>2. PICK r \in serving[w].rows :
        /\ serving' = [serving EXCEPT ![w].rows = @ \ {r}]
        /\ codes' =
             IF codes[r.id].state # "live" THEN codes
             ELSE IF r.tries >= Cap THEN [codes EXCEPT ![r.id].state = "used"]
             ELSE [codes EXCEPT ![r.id] =
                     [state |-> IF Closes(CountWrong(r)) THEN "used" ELSE "live",
                      attempts |-> CountWrong(r)]]
  BY DEF VerifyRefuses
<1>3. r.id \in CodeIds /\ codes[r.id] \in Known
  BY <1>1 DEF Work, SignupTyped
<1>4. Serves(w)
  <2>1. /\ [serving[w] EXCEPT !.rows = @ \ {r}] \in Work
        /\ [serving[w] EXCEPT !.rows = @ \ {r}].step = serving[w].step
    BY <1>1 DEF Work
  <2>2. serving[w].step # "trimming"
    BY DEF VerifyRefuses
  <2> QED BY <1>1, <1>2, <2>1, <2>2 DEF Serves, SignupTyped
<1>5. created' = created /\ consumed' = consumed
  BY DEF VerifyRefuses
<1>6. CASE codes' = codes
  BY <1>4, <1>5, <1>6, ServingOnly
<1>7. CASE codes[r.id].state = "live" /\ codes' = [codes EXCEPT ![r.id].state = "used"]
  <2>1. codes' \in [CodeIds -> Known] /\ codes'[r.id].state = "used"
        /\ \A c \in CodeIds \ {r.id} : codes'[c] = codes[c]
    BY <1>1, <1>3, <1>7 DEF SignupTyped, Known, CodeStates
  <2> QED BY <1>4, <1>5, <1>7, <2>1, Touching
<1>8. CASE /\ codes[r.id].state = "live"
           /\ codes' = [codes EXCEPT ![r.id] =
                          [state |-> IF Closes(CountWrong(r)) THEN "used" ELSE "live",
                           attempts |-> CountWrong(r)]]
  <2>1. CountWrong(r) \in Nat
    BY <1>3 DEF CountWrong, Known
  <2>2. PICK state \in {"used", "live"} :
          codes' = [codes EXCEPT ![r.id] = [state |-> state, attempts |-> CountWrong(r)]]
    BY <1>8
  <2>3. [state |-> state, attempts |-> CountWrong(r)] \in Known
    BY <2>1 DEF Known, CodeStates
  <2>4. codes' \in [CodeIds -> Known] /\ codes'[r.id].state = state
        /\ \A c \in CodeIds \ {r.id} : codes'[c] = codes[c]
    BY <1>1, <1>3, <2>2, <2>3 DEF SignupTyped
  <2> QED BY <1>4, <1>5, <1>8, <2>4, Touching
<1> QED BY <1>2, <1>6, <1>7, <1>8

\* One UPDATE uses the code: it is live, so nobody had used it, and it is live no
\* more.
LEMMA ConsumeKeeps == ASSUME SignupInv, NEW w \in Workers, Consume(w) PROVE SignupInv'
<1> DEFINE k == serving[w].code
<1>1. SignupTyped /\ serving[w] \in Work /\ serving[w].step = "consuming"
  BY DEF SignupInv, SignupTyped, Consume
<1>2. k \in CodeIds
  BY <1>1 DEF Consume, Matching, Work
<1>3. CASE codes[k].state # "live"
  <2>1. ServeEnds(w) /\ UNCHANGED <<codes, consumed, created>>
    BY <1>3 DEF Consume
  <2> QED BY <1>1, <2>1, EndingServes, ServingOnly
<1>4. CASE codes[k].state = "live"
  <2>1. /\ ServeGoes(w, "accepted") /\ codes' = [codes EXCEPT ![k].state = "used"]
        /\ consumed' = [consumed EXCEPT ![k] = @ + 1] /\ created' = created
    BY <1>4 DEF Consume
  <2>2. Serves(w)
    BY <1>1, <2>1, GoingServes DEF ServingSteps
  <2>3. /\ codes' \in [CodeIds -> Known] /\ codes'[k].state = "used"
        /\ \A c \in CodeIds \ {k} : codes'[c] = codes[c]
    BY <1>1, <1>2, <2>1 DEF SignupTyped, Known, CodeStates
  <2>4. consumed[k] = 0
    BY <1>2, <1>4 DEF SignupInv, Unused
  <2>5. /\ consumed' \in [CodeIds -> Nat] /\ consumed'[k] = 1
        /\ \A c \in CodeIds \ {k} : consumed'[c] = consumed[c]
    BY <1>1, <1>2, <2>1, <2>4 DEF SignupTyped
  <2>6. SignupTyped'
    BY <1>1, <2>1, <2>2, <2>3, <2>5 DEF SignupTyped, Serves
  <2>7. ASSUME NEW c \in CodeIds PROVE Unused(c)' /\ consumed'[c] <= 1
    <3>1. Unused(c) /\ consumed[c] <= 1
      BY DEF SignupInv, CodeOnce
    <3> QED BY <1>4, <2>1, <2>3, <2>5, <3>1 DEF Unused
  <2>8. ASSUME NEW v \in Workers PROVE Own(v)'
    <3>1. /\ serving'[v].step = "trimming" => v # w
          /\ v # w => serving'[v] = serving[v] /\ Own(v)
      BY <2>2 DEF Serves, SignupInv
    <3>2. \A u \in Workers : serving'[u].step = "trimming" =>
            serving'[u] = serving[u] /\ codes[serving[u].code].state = "hidden"
      BY <2>2 DEF Serves, SignupInv, Own
    <3> QED BY <1>4, <2>3, <3>1, <3>2 DEF Own
  <2> QED BY <2>6, <2>7, <2>8 DEF SignupInv, CodeOnce
<1> QED BY <1>3, <1>4

LEMMA VerifiesKeeps ==
  ASSUME SignupInv, NEW w \in Workers, CompleteBegins(w) \/ Verifies(w) PROVE SignupInv'
<1> USE DEF CountsKept
<1>1. SignupTyped /\ serving[w] \in Work /\ CommittedRows \subseteq [id : CodeIds, tries : Nat]
  BY CommittedTyped DEF SignupInv, SignupTyped
<1>2. CASE CompleteBegins(w)
  <2>1. PICK c \in CodeIds \cup {NoCode} :
          serving' = [serving EXCEPT ![w] =
            [step |-> "checking", code |-> c, rows |-> CommittedRows, locked |-> {}]]
    BY <1>2 DEF CompleteBegins
  <2>2. [step |-> "checking", code |-> c, rows |-> CommittedRows, locked |-> {}] \in Work
    BY <1>1 DEF Work, ServingSteps
  <2>3. Serves(w)
    BY <1>1, <2>1, <2>2 DEF Serves, SignupTyped
  <2> QED BY <1>2, <2>3, ServingOnly DEF CompleteBegins
<1>3. CASE CheckAccepts(w)
  <2>1. /\ [serving[w] EXCEPT !.step = "checked", !.rows = {}] \in Work
        /\ [serving[w] EXCEPT !.step = "checked", !.rows = {}].step = "checked"
    BY <1>1 DEF Work, ServingSteps
  <2>2. Serves(w)
    BY <1>1, <1>3, <2>1 DEF CheckAccepts, Serves, SignupTyped
  <2> QED BY <1>3, <2>2, ServingOnly DEF CheckAccepts
<1>4. CASE CompleteRechecks(w)
  <2>1. /\ [serving[w] EXCEPT !.step = "consuming", !.rows = CommittedRows] \in Work
        /\ [serving[w] EXCEPT !.step = "consuming", !.rows = CommittedRows].step = "consuming"
    BY <1>1 DEF Work, ServingSteps
  <2>2. Serves(w)
    BY <1>1, <1>4, <2>1 DEF CompleteRechecks, Serves, SignupTyped
  <2> QED BY <1>4, <2>2, ServingOnly DEF CompleteRechecks
<1>5. CASE VerifyEnds(w) \/ CompleteVerifies(w)
  BY <1>1, <1>5, EndingServes, ServingOnly DEF VerifyEnds, CompleteVerifies
<1> QED BY <1>2, <1>3, <1>4, <1>5, RefuseKeeps, ConsumeKeeps DEF Verifies

-----------------------------------------------------------------------------
(* The rest *)

LEMMA FailsKeeps == ASSUME SignupInv, NEW w \in Workers, RequestFails(w) PROVE SignupInv'
<1>1. SignupTyped /\ Serves(w) /\ created' = created /\ consumed' = consumed
  BY EndingServes DEF SignupInv, RequestFails
<1>2. ASSUME NEW c \in CodeIds
      PROVE  /\ codes'[c] \in Known
             /\ \/ codes'[c] = codes[c]
                \/ /\ serving[w].step = "trimming" /\ c = serving[w].code
                   /\ codes'[c].state = "deleted"
  <2>1. codes[c] \in Known
    BY <1>1 DEF SignupTyped
  <2>2. codes'[c] = IF serving[w].step = "trimming" /\ c = serving[w].code
                    THEN [codes[c] EXCEPT !.state = "deleted"] ELSE codes[c]
    BY DEF RequestFails
  <2> QED BY <2>1, <2>2 DEF Known, CodeStates
<1>3. codes' \in [CodeIds -> Known]
  <2>1. codes' = [c \in CodeIds |-> codes'[c]]
    BY DEF RequestFails
  <2> QED BY <1>2, <2>1
<1> QED BY <1>1, <1>2, <1>3, Touching

LEMMA ExpiryKeeps == ASSUME SignupInv, NEW c \in CodeIds, CodeExpires(c) PROVE SignupInv'
<1>1. /\ codes' = [codes EXCEPT ![c].state = "expired"] /\ codes[c].state = "live"
      /\ UNCHANGED <<created, serving, consumed>> /\ SignupTyped
  BY DEF CodeExpires, CountsKept, SignupInv
<1>2. /\ codes' \in [CodeIds -> Known] /\ codes'[c].state = "expired"
      /\ \A d \in CodeIds \ {c} : codes'[d] = codes[d]
  BY <1>1 DEF SignupTyped, Known, CodeStates
<1>3. SignupTyped'
  BY <1>1, <1>2 DEF SignupTyped
<1>4. \A d \in CodeIds : Unused(d)' /\ consumed'[d] <= 1
  BY <1>1, <1>2 DEF SignupInv, CodeOnce, Unused
<1>5. \A w \in Workers : Own(w)'
  BY <1>1, <1>2 DEF SignupInv, Own
<1> QED BY <1>3, <1>4, <1>5 DEF SignupInv, CodeOnce

LEMMA SignupKept == SignupInv /\ [SignupNext]_signupVars => SignupInv'
<1>1. ASSUME SignupInv, NEW w \in Workers, PurgeReads(w) \/ Purges(w) PROVE SignupInv'
  <2>1. Serves(w)
    BY <1>1, GoingServes, EndingServes DEF SignupInv, PurgeReads, Purges, ServingSteps
  <2> QED BY <1>1, <2>1, ServingOnly DEF PurgeReads, Purges, CountsKept
<1>2. ASSUME SignupInv, BotsListed \/ UNCHANGED signupVars PROVE SignupInv'
  BY <1>2 DEF BotsListed, signupVars, CountsKept, SignupInv, SignupTyped, CodeOnce, Own, Unused
<1> QED BY <1>1, <1>2, GeneratesKeeps, VerifiesKeeps, FailsKeeps, ExpiryKeeps DEF SignupNext

\* CodeOnce for any number of workers, codes, attempts and errors: one code
\* completes one request.
THEOREM CodeUsedOnce == SignupSpec => []CodeOnce
<1>1. SignupInv => CodeOnce
  BY DEF SignupInv
<1> QED BY SignupInitially, SignupKept, <1>1, PTL DEF SignupSpec

-----------------------------------------------------------------------------
(* The newest code *)

Newest ==
  errors \in Nat /\ (created > 0 /\ errors = 0 => codes[created].state # "deleted")

LEMMA NewestKept == SignupInv /\ Newest /\ [SignupNext]_signupVars => Newest'
<1> SUFFICES ASSUME SignupInv, Newest, [SignupNext]_signupVars PROVE Newest'
  OBVIOUS
<1>1. /\ created \in 0..MaxCodes /\ codes \in [CodeIds -> Known]
      /\ created > 0 => created \in CodeIds
  BY SignupConstants DEF SignupInv, SignupTyped, CodeIds
<1>2. ASSUME NEW w \in Workers, OtpInserts(w) PROVE Newest'
  <2>1. created + 1 \in CodeIds /\ created' = created + 1
    BY <1>1, <1>2, SignupConstants DEF OtpInserts, CodeIds
  <2>2. codes'[created'].state = "hidden" /\ errors' = errors
    BY <1>1, <1>2, <2>1 DEF OtpInserts, CountsKept
  <2> QED BY <2>2 DEF Newest
<1>3. ASSUME NEW w \in Workers, OtpTrims(w) PROVE Newest'
  <2> SUFFICES ASSUME created > 0, codes[created].state # "deleted"
               PROVE  codes'[created].state # "deleted"
    BY <1>3 DEF OtpTrims, CountsKept, Newest
  <2>1. \A d \in Visible(w) : d <= created
    <3> SUFFICES ASSUME NEW d \in Visible(w) PROVE d <= created
      OBVIOUS
    <3>1. d \in CodeIds /\ codes[d].state \in {"live", "hidden"}
      BY <1>3 DEF Visible, LiveCodes, OtpTrims, SignupInv, Own
    <3> QED BY <1>1, <3>1 DEF SignupInv, Unused, CodeIds
  <2>2. created \notin Trimmed(w)
    <3>1. \A d \in Visible(w) : ~(d > created)
      <4> SUFFICES ASSUME NEW d \in Visible(w) PROVE ~(d > created)
        OBVIOUS
      <4>1. d \in Int /\ created \in Int
        BY <1>1, <1>3 DEF Visible, LiveCodes, OtpTrims, SignupInv, Own, CodeIds
      <4> QED BY <2>1, <4>1
    <3> QED BY <3>1 DEF Trimmed
  <2>3. created \in CodeIds /\ codes[created] \in Known
    BY <1>1
  <2>4. codes'[created] = [codes[created] EXCEPT !.state =
          IF created = serving[w].code THEN "live"
          ELSE IF created \in serving[w].locked /\ codes[created].state = "live" THEN "used"
          ELSE codes[created].state]
    BY <1>3, <2>2, <2>3 DEF OtpTrims
  <2> QED BY <2>3, <2>4 DEF Known
<1>4. ASSUME NEW w \in Workers, VerifyRefuses(w) \/ Consume(w) PROVE Newest'
  <2>1. created' = created /\ errors' = errors
    BY <1>4 DEF VerifyRefuses, Consume, ServeEnds
  <2>2. PICK c \in CodeIds, k \in Known :
          k.state # "deleted" /\ codes' \in {codes, [codes EXCEPT ![c] = k]}
    <3>1. CASE VerifyRefuses(w)
      <4>1. PICK r \in serving[w].rows :
              codes' =
                IF codes[r.id].state # "live" THEN codes
                ELSE IF r.tries >= Cap THEN [codes EXCEPT ![r.id].state = "used"]
                ELSE [codes EXCEPT ![r.id] =
                        [state |-> IF Closes(CountWrong(r)) THEN "used" ELSE "live",
                         attempts |-> CountWrong(r)]]
        BY <3>1 DEF VerifyRefuses
      <4>2. r.id \in CodeIds /\ codes[r.id] \in Known
        BY <1>1 DEF SignupInv, SignupTyped, Work
      <4>3. /\ [codes[r.id] EXCEPT !.state = "used"] \in Known
            /\ [codes[r.id] EXCEPT !.state = "used"].state = "used"
            /\ \A state \in {"used", "live"} : [state |-> state, attempts |-> CountWrong(r)] \in Known
            /\ [state |-> "used", attempts |-> 0] \in Known
        BY <4>2 DEF Known, CodeStates, CountWrong
      <4> QED BY <1>1, <4>1, <4>2, <4>3
    <3>2. CASE Consume(w)
      <4>1. serving[w].code \in CodeIds /\ codes[serving[w].code] \in Known
        BY <1>1, <3>2 DEF Consume, Matching, SignupInv, SignupTyped, Work
      <4>2. [codes[serving[w].code] EXCEPT !.state = "used"] \in Known
            /\ [codes[serving[w].code] EXCEPT !.state = "used"].state = "used"
        BY <4>1 DEF Known, CodeStates
      <4>3. codes' \in {codes, [codes EXCEPT ![serving[w].code].state = "used"]}
        BY <3>2 DEF Consume
      <4> QED BY <1>1, <4>1, <4>2, <4>3
    <3> QED BY <1>4, <3>1, <3>2
  <2> QED BY <1>1, <2>1, <2>2 DEF Newest
<1>5. ASSUME NEW c \in CodeIds, CodeExpires(c) PROVE Newest'
  BY <1>1, <1>5 DEF CodeExpires, CountsKept, Newest, Known
<1>6. ASSUME NEW w \in Workers, RequestFails(w) PROVE Newest'
  <2>1. errors' = errors + 1 /\ errors \in Nat
    BY <1>6 DEF RequestFails, Newest
  <2> QED BY <2>1 DEF Newest
<1>7. ASSUME UNCHANGED <<codes, created, errors>> PROVE Newest'
  BY <1>7 DEF Newest
<1>8. ASSUME NEW w \in Workers,
             \/ RegisterBegins(w) \/ OtpMarks(w) \/ OtpMailed(w)
             \/ CompleteBegins(w) \/ CheckAccepts(w) \/ CompleteRechecks(w) \/ VerifyEnds(w)
             \/ CompleteVerifies(w) \/ PurgeReads(w) \/ Purges(w)
      PROVE  UNCHANGED <<codes, created, errors>>
  BY <1>8 DEF RegisterBegins, OtpMarks, OtpMailed, CompleteBegins, CheckAccepts, CompleteRechecks,
              VerifyEnds, CompleteVerifies, PurgeReads, Purges, CountsKept
<1>9. BotsListed \/ UNCHANGED signupVars => UNCHANGED <<codes, created, errors>>
  BY DEF BotsListed, CountsKept, signupVars
<1> QED BY <1>2, <1>3, <1>4, <1>5, <1>6, <1>7, <1>8, <1>9 DEF SignupNext, Generates, Verifies

\* NewestStays for any number of workers, codes and attempts: generations that
\* overlap do not delete each other's codes in turn.
THEOREM NewestCodeStays == SignupSpec => []NewestStays
<1>1. SignupInit => Newest
  BY DEF SignupInit, Newest
<1>2. Newest => NewestStays
  BY DEF Newest, NewestStays
<1> QED BY SignupInitially, SignupKept, NewestKept, <1>1, <1>2, PTL DEF SignupSpec
-----------------------------------------------------------------------------
(* The guesses *)

\* Workers that will compare a wrong guess with the code, from what they read.
Pending(c) == {w \in Workers : \E r \in serving[w].rows : r.id = c /\ r.tries < Cap}
\* A code that is live counts each comparison; one that is not yet committed has
\* had none.
GuessesCounted(c) ==
  /\ codes[c].state = "live" => tested[c] = codes[c].attempts /\ tested[c] < Cap
  /\ codes[c].state \in {"absent", "hidden"} => tested[c] = 0 /\ codes[c].attempts = 0
\* A worker has read each code once, after it was committed.
ReadOnce(w) ==
  /\ \A r \in serving[w].rows : codes[r.id].state \notin {"absent", "hidden"}
  /\ \A r, other \in serving[w].rows : r.id = other.id => r = other
\* When a code is closed, no new worker comes to it.
Bounded(c) == tested[c] + Cardinality(Pending(c)) <= Cap - 1 + Cardinality(Workers)
GuessInv ==
  /\ tested \in [CodeIds -> Nat]
  /\ \A c \in CodeIds : GuessesCounted(c) /\ Bounded(c)
  /\ \A w \in Workers : ReadOnce(w)

LEMMA PendingFinite ==
  ASSUME NEW S \in SUBSET Workers
  PROVE  IsFiniteSet(S) /\ Cardinality(S) \in Nat /\ Cardinality(S) <= Cardinality(Workers)
         /\ Cardinality(Workers) \in Nat
BY SignupConstants, FS_Subset, FS_CardinalityType

\* What may become of a code when nobody compares a guess with it.
CodeMoves(c) ==
  \/ codes'[c] = codes[c]
  \/ codes[c].state = "live" /\ codes'[c].state \in {"used", "deleted", "expired"}
  \/ /\ codes[c].state = "hidden" /\ codes'[c].attempts = codes[c].attempts
     /\ codes'[c].state \in {"live", "deleted"}
  \/ codes[c].state = "absent" /\ codes'[c] = [state |-> "hidden", attempts |-> 0]
\* A worker drops rows, or reads what is live.
RowsMove(w) == serving'[w].rows \subseteq serving[w].rows \/ serving'[w].rows = CommittedRows

LEMMA NothingTested ==
  ASSUME SignupInv, SignupInv', GuessInv, tested' = tested,
         \A c \in CodeIds : CodeMoves(c), \A w \in Workers : RowsMove(w)
  PROVE  GuessInv'
<1>1. ASSUME NEW c \in CodeIds PROVE GuessesCounted(c)'
  <2>1. GuessesCounted(c) /\ CodeMoves(c) /\ tested[c] \in Nat
    BY DEF GuessInv
  <2>2. codes'[c] = [state |-> "hidden", attempts |-> 0] =>
          codes'[c].state = "hidden" /\ codes'[c].attempts = 0
    OBVIOUS
  <2> QED BY <2>1, <2>2, SignupConstants DEF GuessesCounted, CodeMoves
<1>2. ASSUME NEW w \in Workers PROVE ReadOnce(w)'
  <2>1. ReadOnce(w) /\ RowsMove(w)
    BY DEF GuessInv
  <2>2. \A r \in serving'[w].rows : r.id \in CodeIds /\ codes[r.id].state \notin {"absent", "hidden"}
    <3>1. \A r \in serving[w].rows : r.id \in CodeIds
      BY DEF SignupInv, SignupTyped, Work
    <3>2. \A r \in CommittedRows : r.id \in CodeIds /\ codes[r.id].state = "live"
      BY DEF CommittedRows, LiveCodes
    <3> QED BY <2>1, <3>1, <3>2 DEF ReadOnce, RowsMove
  <2>3. \A r, other \in serving'[w].rows : r.id = other.id => r = other
    BY <2>1 DEF ReadOnce, RowsMove, CommittedRows
  <2>4. \A c \in CodeIds :
          codes[c].state \notin {"absent", "hidden"} => codes'[c].state \notin {"absent", "hidden"}
    BY DEF CodeMoves
  <2> QED BY <2>2, <2>3, <2>4 DEF ReadOnce
<1>3. ASSUME NEW c \in CodeIds PROVE Bounded(c)'
  <2>1. GuessesCounted(c) /\ Bounded(c) /\ tested[c] \in Nat
    BY DEF GuessInv
  <2>2. Pending(c) \in SUBSET Workers /\ Pending(c)' \in SUBSET Workers
    BY DEF Pending
  <2>3. /\ Cardinality(Pending(c)) \in Nat /\ IsFiniteSet(Pending(c))
        /\ Cardinality(Pending(c)') \in Nat /\ Cardinality(Pending(c)') <= Cardinality(Workers)
        /\ Cardinality(Workers) \in Nat
    BY <2>2, PendingFinite
  <2>4. CASE codes[c].state = "live"
    BY <2>1, <2>3, <2>4, SignupConstants DEF GuessesCounted, Bounded
  <2>5. CASE codes[c].state # "live"
    <3>1. ASSUME NEW w \in Workers, w \in Pending(c)' PROVE w \in Pending(c)
      <4>1. PICK r \in serving'[w].rows : r.id = c /\ r.tries < Cap
        BY <3>1 DEF Pending
      <4>2. r \notin CommittedRows
        BY <2>5, <4>1 DEF CommittedRows, LiveCodes
      <4>3. RowsMove(w)
        OBVIOUS
      <4>4. r \in serving[w].rows
        BY <4>1, <4>2, <4>3 DEF RowsMove
      <4> QED BY <4>1, <4>4 DEF Pending
    <3>2. Cardinality(Pending(c)') <= Cardinality(Pending(c))
      <4>1. Pending(c)' \in SUBSET Pending(c)
        BY <2>2, <3>1
      <4> QED BY <2>3, <4>1, FS_Subset
    <3> QED BY <2>1, <2>3, <3>2, SignupConstants DEF Bounded
  <2> QED BY <2>4, <2>5
<1>4. tested' \in [CodeIds -> Nat]
  BY DEF GuessInv
<1> QED BY <1>1, <1>2, <1>3, <1>4 DEF GuessInv

\* A comparison: one that pends becomes one that is counted.
LEMMA GuessTested ==
  ASSUME SignupInv, SignupInv', GuessInv, NEW w \in Workers, NEW r \in serving[w].rows,
         r.tries < Cap, serving' = [serving EXCEPT ![w].rows = @ \ {r}],
         tested' = [tested EXCEPT ![r.id] = @ + 1],
         codes' = IF codes[r.id].state # "live" THEN codes
                  ELSE [codes EXCEPT ![r.id] =
                          [state |-> IF Closes(CountWrong(r)) THEN "used" ELSE "live",
                           attempts |-> CountWrong(r)]]
  PROVE  GuessInv'
<1>1. SignupTyped /\ r.id \in CodeIds /\ serving[w] \in Work /\ codes[r.id] \in Known
  BY DEF SignupInv, SignupTyped, Work
<1>2. /\ serving'[w].rows = serving[w].rows \ {r}
      /\ \A v \in Workers \ {w} : serving'[v] = serving[v]
  BY <1>1 DEF SignupTyped, Work
<1>3. /\ tested' \in [CodeIds -> Nat] /\ tested'[r.id] = tested[r.id] + 1
      /\ \A c \in CodeIds \ {r.id} : tested'[c] = tested[c]
  BY <1>1 DEF GuessInv
<1>4. \A c \in CodeIds \ {r.id} : codes'[c] = codes[c]
  BY <1>1 DEF SignupTyped
<1>5. codes[r.id].state \notin {"absent", "hidden"} /\ ReadOnce(w)
  BY DEF GuessInv, ReadOnce
<1>6. codes'[r.id].state \notin {"absent", "hidden"} /\ GuessesCounted(r.id)'
  <2>1. CASE codes[r.id].state # "live"
    BY <1>5, <2>1 DEF GuessesCounted
  <2>2. CASE codes[r.id].state = "live"
    <3>1. tested[r.id] = codes[r.id].attempts /\ tested[r.id] \in Nat
      BY <1>1, <2>2 DEF GuessInv, GuessesCounted
    <3>2. /\ codes'[r.id].attempts = tested[r.id] + 1
          /\ codes'[r.id].state = IF Closes(CountWrong(r)) THEN "used" ELSE "live"
      BY <1>1, <2>2, <3>1 DEF SignupTyped, CountWrong
    <3>3. ~Closes(CountWrong(r)) => tested[r.id] + 1 < Cap
      BY <3>1, SignupConstants DEF Closes, CountWrong
    <3> QED BY <1>3, <3>2, <3>3 DEF GuessesCounted
  <2> QED BY <2>1, <2>2
<1>7. ASSUME NEW c \in CodeIds PROVE GuessesCounted(c)'
  BY <1>3, <1>4, <1>6 DEF GuessInv, GuessesCounted
<1>8. ASSUME NEW v \in Workers PROVE ReadOnce(v)'
  <2>1. ReadOnce(v) /\ serving'[v].rows \subseteq serving[v].rows
    BY <1>2 DEF GuessInv
  <2>2. \A q \in serving[v].rows : q.id \in CodeIds
    BY <1>1 DEF SignupTyped, Work
  <2> QED BY <1>4, <1>6, <2>1, <2>2 DEF ReadOnce
<1>9. ASSUME NEW c \in CodeIds PROVE Bounded(c)'
  <2>1. Bounded(c) /\ tested[c] \in Nat
    BY DEF GuessInv
  <2>2. Pending(c) \in SUBSET Workers
    BY DEF Pending
  <2>3. /\ Cardinality(Pending(c)) \in Nat /\ IsFiniteSet(Pending(c))
        /\ Cardinality(Workers) \in Nat
    BY <2>2, PendingFinite
  <2>4. CASE c = r.id
    <3>1. w \in Pending(c)
      BY <2>4 DEF Pending
    <3>2. Pending(c)' = Pending(c) \ {w}
      <4>1. \A q \in serving'[w].rows : q.id # c
        BY <1>2, <1>5, <2>4 DEF ReadOnce
      <4> QED BY <1>2, <4>1 DEF Pending
    <3>3. Cardinality(Pending(c)') = Cardinality(Pending(c)) - 1
      BY <2>3, <3>1, <3>2, FS_RemoveElement
    <3> QED BY <1>3, <2>1, <2>3, <2>4, <3>3, SignupConstants DEF Bounded
  <2>5. CASE c # r.id
    <3>1. Pending(c)' = Pending(c)
      BY <1>2, <2>5 DEF Pending
    <3> QED BY <1>3, <2>1, <2>5, <3>1 DEF Bounded
  <2> QED BY <2>4, <2>5
<1> QED BY <1>3, <1>7, <1>8, <1>9 DEF GuessInv

LEMMA GuessKept == SignupInv /\ SignupInv' /\ GuessInv /\ [SignupNext]_signupVars => GuessInv'
<1> SUFFICES ASSUME SignupInv, SignupInv', GuessInv, [SignupNext]_signupVars PROVE GuessInv'
  OBVIOUS
<1>1. SignupTyped
  BY DEF SignupInv
<1>2. \A v \in Workers : serving' = serving => RowsMove(v)
  BY DEF RowsMove
<1>3. \A c \in CodeIds : codes' = codes => CodeMoves(c)
  BY DEF CodeMoves
<1>4. ASSUME NEW w \in Workers,
             \/ RegisterBegins(w) \/ OtpMarks(w) \/ OtpMailed(w)
             \/ CompleteBegins(w) \/ CheckAccepts(w) \/ CompleteRechecks(w) \/ VerifyEnds(w)
             \/ CompleteVerifies(w) \/ PurgeReads(w) \/ Purges(w)
      PROVE  GuessInv'
  <2>1. UNCHANGED <<codes, tested>>
    BY <1>4 DEF RegisterBegins, OtpMarks, OtpMailed, CompleteBegins, CheckAccepts, CompleteRechecks,
                VerifyEnds, CompleteVerifies, PurgeReads, Purges, CountsKept
  <2>2. \A v \in Workers : RowsMove(v)
    <3>1. CASE \E step \in ServingSteps : ServeGoes(w, step)
      BY <1>1, <3>1 DEF ServeGoes, RowsMove, SignupTyped, Work
    <3>2. CASE ServeEnds(w)
      BY <1>1, <3>2 DEF ServeEnds, NotServing, RowsMove, SignupTyped
    <3>3. CASE OtpMarks(w)
      BY <1>1, <3>3 DEF OtpMarks, RowsMove, SignupTyped, Work
    <3>4. CASE CompleteBegins(w)
      <4>1. PICK c \in CodeIds \cup {NoCode} :
              serving' = [serving EXCEPT ![w] =
                [step |-> "checking", code |-> c, rows |-> CommittedRows, locked |-> {}]]
        BY <3>4 DEF CompleteBegins
      <4> QED BY <1>1, <4>1 DEF RowsMove, SignupTyped
    <3>5. CASE CheckAccepts(w)
      BY <1>1, <3>5 DEF CheckAccepts, RowsMove, SignupTyped, Work
    <3>6. CASE CompleteRechecks(w)
      BY <1>1, <3>6 DEF CompleteRechecks, RowsMove, SignupTyped, Work
    <3> QED BY <1>4, <3>1, <3>2, <3>3, <3>4, <3>5, <3>6
            DEF RegisterBegins, OtpMailed, VerifyEnds, CompleteVerifies, PurgeReads, Purges, ServingSteps
  <2> QED BY <1>3, <2>1, <2>2, NothingTested
<1>5. ASSUME NEW w \in Workers, OtpInserts(w) PROVE GuessInv'
  <2>1. created + 1 \in CodeIds /\ codes[created + 1].state = "absent"
    BY <1>1, <1>5, SignupConstants DEF OtpInserts, SignupInv, SignupTyped, Unused, CodeIds
  <2>2. \A c \in CodeIds : CodeMoves(c)
    BY <1>1, <1>5, <2>1 DEF OtpInserts, CodeMoves, SignupTyped
  <2>3. \A v \in Workers : RowsMove(v)
    BY <1>1, <1>5 DEF OtpInserts, RowsMove, SignupTyped, Work
  <2> QED BY <1>5, <2>2, <2>3, NothingTested DEF OtpInserts, CountsKept
<1>6. ASSUME NEW w \in Workers, OtpTrims(w) PROVE GuessInv'
  <2>1. ASSUME NEW c \in CodeIds PROVE CodeMoves(c)
    <3>1. /\ c \in Trimmed(w) => codes[c].state = "live" \/ c = serving[w].code
          /\ codes[serving[w].code].state = "hidden" /\ codes[c] \in Known
      BY <1>1, <1>6 DEF Trimmed, Visible, LiveCodes, OtpTrims, SignupInv, Own, SignupTyped
    <3>2. codes'[c] = [codes[c] EXCEPT !.state =
            IF c \in Trimmed(w) THEN "deleted"
            ELSE IF c = serving[w].code THEN "live"
            ELSE IF c \in serving[w].locked /\ codes[c].state = "live" THEN "used"
            ELSE codes[c].state]
      BY <1>6 DEF OtpTrims
    <3> QED BY <3>1, <3>2 DEF CodeMoves, Known
  <2>2. \A v \in Workers : RowsMove(v)
    BY <1>1, <1>6 DEF OtpTrims, RowsMove, SignupTyped, Work
  <2> QED BY <1>6, <2>1, <2>2, NothingTested DEF OtpTrims, CountsKept
<1>7. ASSUME NEW w \in Workers, VerifyRefuses(w) PROVE GuessInv'
  <2>1. PICK r \in serving[w].rows :
          /\ serving' = [serving EXCEPT ![w].rows = @ \ {r}]
          /\ tested' = IF r.tries >= Cap THEN tested ELSE [tested EXCEPT ![r.id] = @ + 1]
          /\ codes' =
               IF codes[r.id].state # "live" THEN codes
               ELSE IF r.tries >= Cap THEN [codes EXCEPT ![r.id].state = "used"]
               ELSE [codes EXCEPT ![r.id] =
                       [state |-> IF Closes(CountWrong(r)) THEN "used" ELSE "live",
                        attempts |-> CountWrong(r)]]
    BY <1>7 DEF VerifyRefuses
  <2>2. r.id \in CodeIds /\ r.tries \in Nat /\ codes[r.id] \in Known
    BY <1>1 DEF SignupTyped, Work
  <2>3. CASE r.tries >= Cap
    <3>1. \A c \in CodeIds : CodeMoves(c)
      BY <1>1, <2>1, <2>2, <2>3 DEF CodeMoves, SignupTyped, Known
    <3>2. \A v \in Workers : RowsMove(v)
      BY <1>1, <2>1 DEF RowsMove, SignupTyped, Work
    <3> QED BY <2>1, <2>3, <3>1, <3>2, NothingTested
  <2>4. CASE r.tries < Cap
    <3>1. ~(r.tries >= Cap)
      BY <2>2, <2>4, SignupConstants
    <3>2. /\ tested' = [tested EXCEPT ![r.id] = @ + 1]
          /\ codes' = IF codes[r.id].state # "live" THEN codes
                      ELSE [codes EXCEPT ![r.id] =
                              [state |-> IF Closes(CountWrong(r)) THEN "used" ELSE "live",
                               attempts |-> CountWrong(r)]]
      BY <2>1, <3>1
    <3> QED BY <2>1, <2>4, <3>2, GuessTested
  <2> QED BY <2>2, <2>3, <2>4, SignupConstants
<1>8. ASSUME NEW w \in Workers, Consume(w) PROVE GuessInv'
  <2>1. serving[w].code \in CodeIds /\ codes[serving[w].code] \in Known
    BY <1>1, <1>8 DEF Consume, Matching, SignupTyped, Work
  <2>2. \A c \in CodeIds : CodeMoves(c)
    BY <1>1, <1>8, <2>1 DEF Consume, CodeMoves, SignupTyped, Known
  <2>3. \A v \in Workers : RowsMove(v)
    BY <1>1, <1>8 DEF Consume, RowsMove, ServeGoes, ServeEnds, NotServing, SignupTyped, Work
  <2> QED BY <1>8, <2>2, <2>3, NothingTested DEF Consume
<1>9. ASSUME NEW c \in CodeIds, CodeExpires(c) PROVE GuessInv'
  <2>1. \A d \in CodeIds : CodeMoves(d)
    BY <1>1, <1>9 DEF CodeExpires, CodeMoves, SignupTyped, Known
  <2> QED BY <1>2, <1>9, <2>1, NothingTested DEF CodeExpires, CountsKept
<1>10. ASSUME NEW w \in Workers, RequestFails(w) PROVE GuessInv'
  <2>1. ASSUME NEW c \in CodeIds PROVE CodeMoves(c)
    <3>1. /\ codes[c] \in Known
          /\ serving[w].step = "trimming" => codes[serving[w].code].state = "hidden"
      BY <1>1 DEF SignupInv, Own, SignupTyped
    <3>2. codes'[c] = IF serving[w].step = "trimming" /\ c = serving[w].code
                      THEN [codes[c] EXCEPT !.state = "deleted"] ELSE codes[c]
      BY <1>10 DEF RequestFails
    <3> QED BY <3>1, <3>2 DEF CodeMoves, Known
  <2>2. \A v \in Workers : RowsMove(v)
    BY <1>1, <1>10 DEF RequestFails, RowsMove, ServeEnds, NotServing, SignupTyped, Work
  <2> QED BY <1>10, <2>1, <2>2, NothingTested DEF RequestFails
<1>11. ASSUME BotsListed \/ UNCHANGED signupVars PROVE GuessInv'
  <2>1. UNCHANGED <<codes, serving, tested>>
    BY <1>11 DEF BotsListed, CountsKept, signupVars
  <2> QED BY <1>2, <1>3, <2>1, NothingTested
<1> QED BY <1>4, <1>5, <1>6, <1>7, <1>8, <1>9, <1>10, <1>11 DEF SignupNext, Generates, Verifies

\* GuessBound for any number of workers, codes and attempts: a code is compared
\* with as many wrong guesses as it has attempts, and one more for each other
\* worker.
THEOREM GuessesBounded == SignupSpec => []GuessBound
<1>1. SignupInit => GuessInv
  <2> SUFFICES ASSUME SignupInit PROVE GuessInv
    OBVIOUS
  <2>1. ASSUME NEW c \in CodeIds PROVE GuessesCounted(c) /\ Bounded(c)
    <3>1. Pending(c) = {}
      BY DEF Pending, SignupInit, NotServing
    <3>2. Cardinality(Pending(c)) = 0 /\ Cardinality(Workers) \in Nat
      BY <3>1, FS_EmptySet, PendingFinite
    <3> QED BY <3>2, SignupConstants DEF GuessesCounted, Bounded, SignupInit
  <2>2. \A w \in Workers : ReadOnce(w)
    BY DEF ReadOnce, SignupInit, NotServing
  <2> QED BY <2>1, <2>2 DEF GuessInv, SignupInit
<1>2. GuessInv => GuessBound
  <2> SUFFICES ASSUME GuessInv, NEW c \in CodeIds PROVE tested[c] <= Cap + Cardinality(Workers) - 1
    BY DEF GuessBound
  <2>1. Pending(c) \in SUBSET Workers
    BY DEF Pending
  <2>2. Cardinality(Pending(c)) \in Nat /\ Cardinality(Workers) \in Nat
    BY <2>1, PendingFinite
  <2> QED BY <2>2, SignupConstants DEF GuessInv, Bounded
<1> QED BY SignupInitially, SignupKept, GuessKept, <1>1, <1>2, PTL DEF SignupSpec

-----------------------------------------------------------------------------
(* The types *)

\* A code has had no more attempts than it has, and fewer while it is live.
Fits(c) ==
  /\ codes[c].attempts <= Cap /\ (codes[c].state \in {"hidden", "live"} => codes[c].attempts < Cap)
  /\ codes[c].state = "absent" => c > created
SignupRest ==
  /\ account \in {"absent", "unverified", "verified"} /\ data \in BOOLEAN /\ errors \in 0..MaxErrors
  /\ tested \in [CodeIds -> Nat]
SignupFits ==
  /\ SignupRest /\ \A c \in CodeIds : Fits(c)
  /\ \A w \in Workers : serving[w].rows \subseteq Row

LEMMA CommittedFit == ASSUME SignupTyped, SignupFits PROVE CommittedRows \subseteq Row
<1> SUFFICES ASSUME NEW c \in LiveCodes PROVE codes[c].attempts \in 0..Cap /\ c \in CodeIds
  BY DEF CommittedRows, Row
<1>1. c \in CodeIds /\ codes[c] \in Known
  BY DEF LiveCodes, SignupTyped
<1> QED BY <1>1, SignupConstants DEF SignupFits, Fits, Known

LEMMA RestKept ==
  ASSUME SignupTyped, SignupFits, [SignupNext]_signupVars PROVE SignupRest'
<1>1. CASE UNCHANGED <<account, data, errors, tested>>
  BY <1>1 DEF SignupFits, SignupRest
<1>2. ASSUME NEW w \in Workers, RegisterBegins(w) PROVE SignupRest'
  BY <1>2 DEF RegisterBegins, CountsKept, SignupFits, SignupRest
<1>3. ASSUME NEW w \in Workers, OtpMailed(w) \/ CompleteVerifies(w) \/ Purges(w) PROVE SignupRest'
  BY <1>3 DEF OtpMailed, CompleteVerifies, Purges, CountsKept, SignupFits, SignupRest
<1>4. ASSUME NEW w \in Workers, VerifyRefuses(w) PROVE SignupRest'
  <2>1. PICK r \in serving[w].rows :
          tested' = IF r.tries >= Cap THEN tested ELSE [tested EXCEPT ![r.id] = @ + 1]
    BY <1>4 DEF VerifyRefuses
  <2>2. tested' \in [CodeIds -> Nat]
    BY <2>1 DEF SignupFits, SignupRest, Row
  <2> QED BY <1>4, <2>2 DEF VerifyRefuses, AccountKept, SignupFits, SignupRest
<1>5. ASSUME NEW w \in Workers, RequestFails(w) PROVE SignupRest'
  BY <1>5, SignupConstants DEF RequestFails, AccountKept, SignupFits, SignupRest
<1>6. CASE BotsListed
  BY <1>6 DEF BotsListed, CountsKept, SignupFits, SignupRest
<1>7. ASSUME NEW w \in Workers,
             \/ OtpMarks(w) \/ OtpInserts(w) \/ OtpTrims(w) \/ CompleteBegins(w) \/ CheckAccepts(w)
             \/ CompleteRechecks(w) \/ Consume(w) \/ VerifyEnds(w) \/ PurgeReads(w)
      PROVE  UNCHANGED <<account, data, errors, tested>>
  BY <1>7 DEF OtpMarks, OtpInserts, OtpTrims, CompleteBegins, CheckAccepts, CompleteRechecks, Consume,
     VerifyEnds, PurgeReads, AccountKept, CountsKept
<1>8. ASSUME NEW c \in CodeIds, CodeExpires(c) PROVE UNCHANGED <<account, data, errors, tested>>
  BY <1>8 DEF CodeExpires, AccountKept, CountsKept
<1>9. UNCHANGED signupVars => UNCHANGED <<account, data, errors, tested>>
  BY DEF signupVars
<1> QED BY <1>1, <1>2, <1>3, <1>4, <1>5, <1>6, <1>7, <1>8, <1>9
        DEF SignupNext, Generates, Verifies

\* What a worker has still to compare was read from the rows.
LEMMA RowsFitKept ==
  ASSUME SignupTyped, SignupFits, [SignupNext]_signupVars, NEW v \in Workers
  PROVE  serving'[v].rows \subseteq Row
<1>1. serving[v].rows \subseteq Row /\ CommittedRows \subseteq Row /\ {} \subseteq Row
      /\ serving \in [Workers -> Work]
  BY CommittedFit DEF SignupFits, SignupTyped
<1>2. \/ serving'[v].rows \subseteq serving[v].rows \/ serving'[v].rows = CommittedRows
      \/ serving'[v].rows = {}
  <2>1. CASE UNCHANGED serving
    BY <2>1
  <2>2. ASSUME NEW w \in Workers, NEW step, ServeGoes(w, step)
        PROVE  serving'[v].rows = serving[v].rows
    BY <1>1, <2>2 DEF ServeGoes, Work
  <2>3. ASSUME NEW w \in Workers, ServeEnds(w)
        PROVE  serving'[v].rows = serving[v].rows \/ serving'[v].rows = {}
    BY <1>1, <2>3 DEF ServeEnds, NotServing
  <2>4. ASSUME NEW w \in Workers, RegisterBegins(w) \/ PurgeReads(w)
        PROVE  serving'[v].rows = serving[v].rows
    BY <2>2, <2>4 DEF RegisterBegins, PurgeReads
  <2>5. ASSUME NEW w \in Workers, OtpMarks(w) \/ OtpInserts(w) \/ OtpTrims(w)
        PROVE  serving'[v].rows = serving[v].rows
    BY <1>1, <2>5 DEF OtpMarks, OtpInserts, OtpTrims, Work
  <2>6. ASSUME NEW w \in Workers,
               OtpMailed(w) \/ VerifyEnds(w) \/ CompleteVerifies(w) \/ Purges(w) \/ RequestFails(w)
        PROVE  serving'[v].rows = serving[v].rows \/ serving'[v].rows = {}
    BY <2>3, <2>6 DEF OtpMailed, VerifyEnds, CompleteVerifies, Purges, RequestFails
  <2>7. ASSUME NEW w \in Workers, CompleteBegins(w)
        PROVE  serving'[v].rows = serving[v].rows \/ serving'[v].rows = CommittedRows
    <3>1. PICK c : serving' = [serving EXCEPT ![w] =
                     [step |-> "checking", code |-> c, rows |-> CommittedRows, locked |-> {}]]
      BY <2>7 DEF CompleteBegins
    <3> QED BY <1>1, <3>1
  <2>8. ASSUME NEW w \in Workers, VerifyRefuses(w) PROVE serving'[v].rows \subseteq serving[v].rows
    <3>1. PICK r : serving' = [serving EXCEPT ![w].rows = @ \ {r}]
      BY <2>8 DEF VerifyRefuses
    <3> QED BY <1>1, <3>1 DEF Work
  <2>9. ASSUME NEW w \in Workers, CheckAccepts(w) \/ CompleteRechecks(w)
        PROVE  \/ serving'[v].rows = serving[v].rows \/ serving'[v].rows = CommittedRows
               \/ serving'[v].rows = {}
    BY <1>1, <2>9 DEF CheckAccepts, CompleteRechecks, Work
  <2>10. ASSUME NEW w \in Workers, Consume(w)
         PROVE  serving'[v].rows = serving[v].rows \/ serving'[v].rows = {}
    BY <2>2, <2>3, <2>10 DEF Consume
  <2>11. ASSUME \/ \E c \in CodeIds : CodeExpires(c)
                \/ BotsListed \/ UNCHANGED signupVars
         PROVE  UNCHANGED serving
    BY <2>11 DEF CodeExpires, BotsListed, signupVars
  <2> QED BY <2>1, <2>4, <2>5, <2>6, <2>7, <2>8, <2>9, <2>10, <2>11
          DEF SignupNext, Generates, Verifies
<1> QED BY <1>1, <1>2

LEMMA FitsKept ==
  ASSUME SignupInv, SignupFits, [SignupNext]_signupVars, NEW c \in CodeIds
  PROVE  Fits(c)'
<1>1. /\ codes \in [CodeIds -> Known] /\ codes[c] \in Known /\ created \in Nat /\ c \in Nat
      /\ serving \in [Workers -> Work] /\ Cap \in Nat \ {0} /\ Fits(c)
  BY SignupConstants DEF SignupInv, SignupTyped, SignupFits, CodeIds
<1>2. ASSUME codes' = codes, created' = created PROVE Fits(c)'
  BY <1>1, <1>2 DEF Fits
\* A state that a row goes into with the attempts it had.
<1>3. ASSUME NEW state \in {"used", "deleted", "expired"}, created' = created,
             codes'[c] = codes[c] \/ codes'[c] = [codes[c] EXCEPT !.state = state]
      PROVE  Fits(c)'
  BY <1>1, <1>3 DEF Fits, Known
<1>4. ASSUME NEW w \in Workers, OtpInserts(w) PROVE Fits(c)'
  <2>1. created' = created + 1 /\ codes' = [codes EXCEPT ![created + 1] = [state |-> "hidden", attempts |-> 0]]
    BY <1>4 DEF OtpInserts
  <2>2. CASE c = created + 1
    BY <1>1, <2>1, <2>2 DEF Fits
  <2>3. CASE c # created + 1
    <3>1. codes'[c] = codes[c]
      BY <1>1, <2>1, <2>3
    <3>2. c > created => c > created + 1
      BY <1>1, <2>3
    <3> QED BY <1>1, <2>1, <3>1, <3>2 DEF Fits
  <2> QED BY <2>2, <2>3
<1>5. ASSUME NEW w \in Workers, OtpTrims(w) PROVE Fits(c)'
  <2>1. created' = created
    BY <1>5 DEF OtpTrims
  <2>2. CASE codes'[c] = [codes[c] EXCEPT !.state = "live"] /\ c = serving[w].code
    <3>1. codes[c].state = "hidden"
      BY <1>5, <2>2 DEF OtpTrims, SignupInv, Own
    <3> QED BY <1>1, <2>1, <2>2, <3>1 DEF Fits, Known
  <2>3. CASE ~(codes'[c] = [codes[c] EXCEPT !.state = "live"] /\ c = serving[w].code)
    <3>1. \/ codes'[c] = [codes[c] EXCEPT !.state = "deleted"]
          \/ codes'[c] = [codes[c] EXCEPT !.state = "used"] \/ codes'[c] = codes[c]
      BY <1>1, <1>5, <2>3 DEF OtpTrims, Known
    <3> QED BY <1>3, <2>1, <3>1
  <2> QED BY <2>2, <2>3
<1>6. ASSUME NEW w \in Workers, VerifyRefuses(w) PROVE Fits(c)'
  <2>1. PICK r \in serving[w].rows :
          codes' =
            IF codes[r.id].state # "live" THEN codes
            ELSE IF r.tries >= Cap THEN [codes EXCEPT ![r.id].state = "used"]
            ELSE [codes EXCEPT ![r.id] =
                    [state |-> IF Closes(CountWrong(r)) THEN "used" ELSE "live",
                     attempts |-> CountWrong(r)]]
    BY <1>6 DEF VerifyRefuses
  <2>2. created' = created /\ r.id \in CodeIds
    BY <1>6 DEF VerifyRefuses, SignupFits, Row
  <2>3. CASE codes[r.id].state # "live"
    BY <1>2, <2>1, <2>2, <2>3
  <2>4. CASE codes[r.id].state = "live" /\ r.tries >= Cap
    <3>1. codes' = [codes EXCEPT ![r.id].state = "used"]
      BY <2>1, <2>4
    <3>2. codes'[c] = codes[c] \/ codes'[c] = [codes[c] EXCEPT !.state = "used"]
      BY <1>1, <2>2, <3>1
    <3> QED BY <1>3, <2>2, <3>2
  <2>5. CASE codes[r.id].state = "live" /\ ~(r.tries >= Cap)
    <3> DEFINE n == CountWrong(r)
    <3>1. codes' = [codes EXCEPT ![r.id] = [state |-> IF Closes(n) THEN "used" ELSE "live", attempts |-> n]]
      BY <2>1, <2>5
    <3>2. CASE c = r.id
      <4>1. n \in Nat /\ n <= Cap /\ (n >= Cap <=> Closes(n))
        BY <1>1, <2>5, <3>2 DEF CountWrong, Closes, Fits, Known
      <4>2. codes'[c] = [state |-> IF Closes(n) THEN "used" ELSE "live", attempts |-> n]
        BY <1>1, <3>1, <3>2
      <4> HIDE DEF n
      <4> QED BY <1>1, <4>1, <4>2 DEF Fits
    <3>3. CASE c # r.id
      <4>1. codes'[c] = codes[c]
        BY <1>1, <3>1, <3>3
      <4> QED BY <1>3, <2>2, <4>1
    <3> QED BY <3>2, <3>3
  <2> QED BY <2>3, <2>4, <2>5
<1>7. ASSUME NEW w \in Workers, Consume(w) PROVE Fits(c)'
  <2>1. codes'[c] = codes[c] \/ codes'[c] = [codes[c] EXCEPT !.state = "used"]
    BY <1>1, <1>7 DEF Consume
  <2> QED BY <1>3, <1>7, <2>1 DEF Consume
<1>8. ASSUME NEW d \in CodeIds, CodeExpires(d) PROVE Fits(c)'
  <2>1. codes'[c] = codes[c] \/ codes'[c] = [codes[c] EXCEPT !.state = "expired"]
    BY <1>1, <1>8 DEF CodeExpires
  <2> QED BY <1>3, <1>8, <2>1 DEF CodeExpires
<1>9. ASSUME NEW w \in Workers, RequestFails(w) PROVE Fits(c)'
  <2>1. codes'[c] = codes[c] \/ codes'[c] = [codes[c] EXCEPT !.state = "deleted"]
    BY <1>9 DEF RequestFails
  <2> QED BY <1>3, <1>9, <2>1 DEF RequestFails
<1>10. ASSUME \/ BotsListed \/ UNCHANGED signupVars
              \/ \E w \in Workers :
                   \/ RegisterBegins(w) \/ OtpMarks(w) \/ OtpMailed(w) \/ CompleteBegins(w)
                   \/ CheckAccepts(w) \/ CompleteRechecks(w) \/ VerifyEnds(w) \/ CompleteVerifies(w)
                   \/ PurgeReads(w) \/ Purges(w)
       PROVE codes' = codes /\ created' = created
  BY <1>10 DEF BotsListed, signupVars, RegisterBegins, OtpMarks, OtpMailed, CompleteBegins, CheckAccepts,
     CompleteRechecks, VerifyEnds, CompleteVerifies, PurgeReads, Purges
<1> QED BY <1>2, <1>4, <1>5, <1>6, <1>7, <1>8, <1>9, <1>10 DEF SignupNext, Generates, Verifies

\* Types of the signup: a live code has attempts left, and no row counts more
\* than OTP_MAX_ATTEMPTS.
THEOREM SignupKeepsTypes == SignupSpec => []SignupTypeOK
<1>1. SignupInit => SignupFits
  <2> SUFFICES ASSUME SignupInit PROVE SignupFits
    OBVIOUS
  <2>1. SignupRest
    <3>1. data \in BOOLEAN
      BY DEF SignupInit
    <3>2. errors = 0
      BY DEF SignupInit
    <3>3. errors \in 0..MaxErrors
      BY <3>2, SignupConstants
    <3>4. tested \in [CodeIds -> Nat]
      BY DEF SignupInit
    <3> QED BY <3>1, <3>3, <3>4 DEF SignupInit, SignupRest
  <2>2. \A c \in CodeIds : Fits(c)
    BY SignupConstants DEF SignupInit, Fits, CodeIds
  <2>3. \A w \in Workers : serving[w].rows = {}
    BY DEF SignupInit, NotServing
  <2> QED BY <2>1, <2>2, <2>3 DEF SignupFits
<1>2. SignupInv /\ SignupFits /\ [SignupNext]_signupVars => SignupFits'
  BY RestKept, RowsFitKept, FitsKept DEF SignupInv, SignupFits
<1>3. SignupInv /\ SignupFits => SignupTypeOK
  <2> SUFFICES ASSUME SignupInv, SignupFits PROVE SignupTypeOK
    OBVIOUS
  <2>1. codes \in [CodeIds -> [state : CodeStates, attempts : 0..Cap]]
    <3>1. ASSUME NEW c \in CodeIds PROVE codes[c] \in [state : CodeStates, attempts : 0..Cap]
      BY SignupConstants DEF SignupInv, SignupTyped, SignupFits, Fits, Known
    <3> QED BY <3>1 DEF SignupInv, SignupTyped
  <2>2. serving \in [Workers -> Serving]
    <3>1. ASSUME NEW w \in Workers PROVE serving[w] \in Serving
      BY DEF SignupInv, SignupTyped, SignupFits, Work, Serving
    <3> QED BY <3>1 DEF SignupInv, SignupTyped
  <2>3. ASSUME NEW c \in CodeIds
        PROVE  (codes[c].state = "live" => codes[c].attempts < Cap)
               /\ (codes[c].state = "absent" <=> c > created)
    BY DEF SignupInv, SignupFits, Fits, Unused
  <2> QED BY <2>1, <2>2, <2>3 DEF SignupTypeOK, SignupInv, SignupTyped, SignupFits, SignupRest
<1> QED BY SignupInitially, SignupKept, <1>1, <1>2, <1>3, PTL DEF SignupSpec
=============================================================================
