-------------------------- MODULE CommandLine_proofs --------------------------
(***************************************************************************)
(* Theorems about one invocation of xcron, command or program: that its    *)
(* counters agree with one another, that it touches no more than its       *)
(* options and configuration allow, and that a command's exit code is      *)
(* true - for any installation, configuration and number of calls.         *)
(***************************************************************************)
EXTENDS CommandLine, SequenceTheorems, TLAPS

----------------------------------------------------------------------------
(* What the ports answer. *)

Answers == {"valid", "invalid", "conflicts"} \cup Errors

AnyReply == [answer : Answers, bumps : SUBSET Outcomes, changed : BOOLEAN]

LEMMA ReplyIsReply ==
  ASSUME NEW a \in Answers, NEW b \in SUBSET Outcomes, NEW c \in BOOLEAN
  PROVE  Reply(a, b, c) \in AnyReply
  BY DEF Reply, AnyReply

AreReplies(replies) == \A q \in replies : q \in AnyReply
AreCounters(more) == more \subseteq Outcomes
AreAnswers(answers) == answers \subseteq Answers

(* What is added to the counters of a reply leaves the rest of it alone. *)
LEMMA PlusFacts ==
  ASSUME NEW more, AreCounters(more), NEW replies, AreReplies(replies),
         NEW r \in Plus(more, replies)
  PROVE  /\ r \in AnyReply
         /\ \E q \in replies :
              r.answer = q.answer /\ r.changed = q.changed /\ r.bumps = q.bumps \cup more
<1>1. PICK q \in replies : r = [q EXCEPT !.bumps = @ \cup more]
  BY DEF Plus
<1>2. q \in AnyReply /\ more \in SUBSET Outcomes
  BY DEF AreReplies, AreCounters
<1>3. r.answer = q.answer /\ r.changed = q.changed /\ r.bumps = q.bumps \cup more
  BY <1>1, <1>2 DEF AnyReply
<1>4. r \in AnyReply
  BY <1>1, <1>2 DEF AnyReply
<1> QED
  BY <1>3, <1>4

LEMMA QuietFacts ==
  ASSUME NEW answers, AreAnswers(answers), NEW r \in Quiet(answers)
  PROVE  r \in AnyReply /\ r.answer \in answers /\ r.bumps = {} /\ ~r.changed
<1>1. PICK a \in answers : r = Reply(a, {}, FALSE)
  BY DEF Quiet
<1>2. a \in Answers /\ {} \in SUBSET Outcomes /\ FALSE \in BOOLEAN
  BY DEF AreAnswers
<1>3. r \in AnyReply
  BY <1>1, <1>2, ReplyIsReply
<1> QED
  BY <1>1, <1>3 DEF Reply

LEMMA QuietReplies ==
  ASSUME NEW answers, AreAnswers(answers)
  PROVE  AreReplies(Quiet(answers))
  BY QuietFacts DEF AreReplies

(* What the status projection replies: answer and counters. *)
IsStatus(r) ==
  /\ r \in AnyReply
  /\ ~r.changed
  /\ \/ r.answer = "invalid" /\ r.bumps = {"status.failed"} \cup {"status.calls"}
     \/ r.answer = "exception" /\ r.bumps = {"status.calls"}
     \/ r.answer = "valid" /\ r.bumps = {"status.succeeded"} \cup {"status.calls"}
     \/ r.answer = "unknown backend" /\ r.bumps = {"status.calls"} /\ ~scope.known

LEMMA StatusRepliesAre ==
  ASSUME NEW r \in StatusReplies
  PROVE  IsStatus(r)
<1> DEFINE I == {"invalid"}
           E == {"exception"}
           V == {"valid"}
           U == {"unknown backend"}
           F == {"status.failed"}
           S == {"status.succeeded"}
           C == {"status.calls"}
           failing == Plus(F, Quiet(I))
           answering == IF scope.known THEN Plus(S, Quiet(V)) ELSE Quiet(U)
           inner == failing \cup Quiet(E) \cup answering
<1>1. /\ AreAnswers(I) /\ AreAnswers(E) /\ AreAnswers(V) /\ AreAnswers(U)
      /\ AreCounters(F) /\ AreCounters(S) /\ AreCounters(C)
  BY DEF AreAnswers, AreCounters, Answers, Errors, Outcomes
<1>2. r \in Plus(C, inner)
  BY DEF StatusReplies
<1>3. /\ \A a \in I : a = "invalid"
      /\ \A a \in E : a = "exception"
      /\ \A a \in V : a = "valid"
      /\ \A a \in U : a = "unknown backend"
  OBVIOUS
<1> HIDE DEF I, E, V, U, F, S, C
<1>4. ASSUME NEW q \in failing
      PROVE  q \in AnyReply /\ q.answer = "invalid" /\ ~q.changed /\ q.bumps = F
  <2>1. /\ q \in AnyReply
        /\ \E p \in Quiet(I) :
             q.answer = p.answer /\ q.changed = p.changed /\ q.bumps = p.bumps \cup F
    BY <1>1, QuietReplies, PlusFacts
  <2> QED
    BY <1>1, <1>3, <2>1, QuietFacts
<1>5. ASSUME NEW q \in Quiet(E)
      PROVE  q \in AnyReply /\ q.answer = "exception" /\ ~q.changed /\ q.bumps = {}
  BY <1>1, <1>3, QuietFacts
<1>6. ASSUME NEW q \in answering
      PROVE  /\ q \in AnyReply /\ ~q.changed
             /\ \/ q.answer = "valid" /\ q.bumps = S
                \/ q.answer = "unknown backend" /\ q.bumps = {} /\ ~scope.known
  <2>1. CASE scope.known
    <3>1. /\ q \in AnyReply
          /\ \E p \in Quiet(V) :
               q.answer = p.answer /\ q.changed = p.changed /\ q.bumps = p.bumps \cup S
      BY <1>1, <2>1, QuietReplies, PlusFacts
    <3> QED
      BY <1>1, <1>3, <3>1, QuietFacts
  <2>2. CASE ~scope.known
    BY <1>1, <1>3, <2>2, QuietFacts
  <2> QED
    BY <2>1, <2>2
<1> HIDE DEF failing, answering
<1>7. AreReplies(inner)
  BY <1>4, <1>5, <1>6 DEF AreReplies
<1>8. /\ r \in AnyReply
      /\ \E q \in inner :
           r.answer = q.answer /\ r.changed = q.changed /\ r.bumps = q.bumps \cup C
  <2> HIDE DEF inner
  <2> QED
    BY <1>1, <1>2, <1>7, PlusFacts
<1>9. PICK q \in inner :
        r.answer = q.answer /\ r.changed = q.changed /\ r.bumps = q.bumps \cup C
  BY <1>8
<1>10. /\ q.changed \in BOOLEAN
       /\ ~q.changed
       /\ \/ q.answer = "invalid" /\ q.bumps = F
          \/ q.answer = "exception" /\ q.bumps = {}
          \/ q.answer = "valid" /\ q.bumps = S
          \/ q.answer = "unknown backend" /\ q.bumps = {} /\ ~scope.known
  BY <1>4, <1>5, <1>6 DEF AnyReply
<1> QED
  BY <1>8, <1>9, <1>10 DEF IsStatus, F, S, C

(* One call and its two outcomes among the counters a reply bumps: a call   *)
(* that was counted has one outcome, unless it raised.                     *)
Outcome(r, began, won, lost) ==
  /\ began \in r.bumps =>
       /\ ~ (won \in r.bumps /\ lost \in r.bumps)
       /\ won \notin r.bumps /\ lost \notin r.bumps => r.answer \in Errors
  /\ began \notin r.bumps => won \notin r.bumps /\ lost \notin r.bumps

Accounts(r) ==
  /\ Outcome(r, "status.calls", "status.succeeded", "status.failed")
  /\ Outcome(r, "apply.calls", "apply.succeeded", "apply.failed")
  /\ "apply.succeeded" \in r.bumps => "status.succeeded" \in r.bumps
  /\ "apply.calls" \in r.bumps => "status.calls" \in r.bumps

(* What an operation may be answered, as the rest of the proofs need it. *)
Answered(r) ==
  /\ r \in AnyReply
  /\ Accounts(r)
  /\ r.answer = "unknown backend" => ~scope.known /\ ~r.changed

LEMMA StatusFacts ==
  ASSUME NEW r, IsStatus(r)
  PROVE  Answered(r)
  BY DEF IsStatus, Answered, Accounts, Outcome, Errors


LEMMA DeployFacts ==
  ASSUME NEW s, IsStatus(s), s.answer = "valid", NEW r \in Deploy(s)
  PROVE  /\ r \in AnyReply
         /\ \/ r.answer = "exception" /\ r.bumps = s.bumps
            \/ r.answer = "valid" /\ r.bumps = s.bumps \cup {"apply.succeeded"}
<1> DEFINE A == {"apply.succeeded"}
           raising == {[s EXCEPT !.answer = "exception", !.changed = c] : c \in BOOLEAN}
           working == {[s EXCEPT !.changed = c] : c \in BOOLEAN}
<1>1. s \in AnyReply /\ "exception" \in Answers /\ AreCounters(A)
  BY DEF IsStatus, Answers, Errors, AreCounters, Outcomes
<1>2. r \in raising \cup Plus(A, working)
  BY DEF Deploy
<1> HIDE DEF A
<1>3. ASSUME NEW q \in raising
      PROVE  q \in AnyReply /\ q.answer = "exception" /\ q.bumps = s.bumps
  <2>1. PICK c \in BOOLEAN : q = [s EXCEPT !.answer = "exception", !.changed = c]
    OBVIOUS
  <2> QED
    BY <1>1, <2>1 DEF AnyReply
<1>4. ASSUME NEW q \in working
      PROVE  q \in AnyReply /\ q.answer = "valid" /\ q.bumps = s.bumps
  <2>1. PICK c \in BOOLEAN : q = [s EXCEPT !.changed = c]
    OBVIOUS
  <2> QED
    BY <1>1, <2>1 DEF AnyReply
<1> HIDE DEF raising, working
<1>5. ASSUME r \in Plus(A, working)
      PROVE  r \in AnyReply /\ r.answer = "valid" /\ r.bumps = s.bumps \cup A
  <2>1. AreReplies(working)
    BY <1>4 DEF AreReplies
  <2> QED
    BY <1>1, <1>4, <1>5, <2>1, PlusFacts
<1> QED
  BY <1>2, <1>3, <1>5 DEF A

LEMMA ApplyFacts ==
  ASSUME NEW r \in ApplyReplies
  PROVE  Answered(r)
<1> DEFINE C == {"apply.calls"}
           F == {"apply.failed"}
           quitting == Answering({"exception", "unknown backend"}, StatusReplies)
           I == Answering({"invalid"}, StatusReplies)
           refused == Plus(F, I)
           V == Answering({"valid"}, StatusReplies)
           Bad(s) == {[s EXCEPT !.answer = "invalid"]}
           going == UNION {Deploy(s) \cup Plus(F, Bad(s)) : s \in V}
           inner == quitting \cup refused \cup going
<1>1. AreCounters(C) /\ AreCounters(F) /\ "invalid" \in Answers
  BY DEF AreCounters, Answers, Outcomes
<1>2. r \in Plus(C, inner)
  BY DEF ApplyReplies
<1>3. ASSUME NEW q \in quitting
      PROVE  IsStatus(q) /\ q.answer \in {"exception", "unknown backend"}
  BY StatusRepliesAre DEF Answering
<1>4. ASSUME NEW q \in I
      PROVE  IsStatus(q) /\ q.answer = "invalid"
  BY StatusRepliesAre DEF Answering
<1>5. ASSUME NEW q \in V
      PROVE  IsStatus(q) /\ q.answer = "valid"
  BY StatusRepliesAre DEF Answering
<1> HIDE DEF C, F, quitting, I, V
<1>6. ASSUME NEW q \in refused
      PROVE  \E s : /\ IsStatus(s) /\ s.answer = "invalid" /\ q \in AnyReply
                    /\ q.answer = "invalid" /\ q.bumps = s.bumps \cup F
  <2>1. AreReplies(I)
    BY <1>4 DEF AreReplies, IsStatus
  <2>2. /\ q \in AnyReply
        /\ \E s \in I : q.answer = s.answer /\ q.changed = s.changed /\ q.bumps = s.bumps \cup F
    BY <1>1, <2>1, PlusFacts
  <2> QED
    BY <1>4, <2>2
<1>7. ASSUME NEW q \in going
      PROVE  \E s : /\ IsStatus(s) /\ s.answer = "valid" /\ q \in AnyReply
                    /\ \/ q.answer = "exception" /\ q.bumps = s.bumps
                       \/ q.answer = "valid" /\ q.bumps = s.bumps \cup {"apply.succeeded"}
                       \/ q.answer = "invalid" /\ q.bumps = s.bumps \cup F
  <2>1. PICK s \in V : q \in Deploy(s) \cup Plus(F, Bad(s))
    OBVIOUS
  <2>2. IsStatus(s) /\ s.answer = "valid"
    BY <1>5
  <2>3. CASE q \in Deploy(s)
    BY <2>2, <2>3, DeployFacts
  <2>4. CASE q \in Plus(F, Bad(s))
    <3>1. ASSUME NEW p \in Bad(s)
          PROVE  p \in AnyReply /\ p.answer = "invalid" /\ p.bumps = s.bumps
      <4>1. s \in AnyReply
        BY <2>2 DEF IsStatus
      <4>2. p = [s EXCEPT !.answer = "invalid"]
        OBVIOUS
      <4> QED
        BY <1>1, <4>1, <4>2 DEF AnyReply
    <3> HIDE DEF Bad
    <3>2. AreReplies(Bad(s))
      BY <3>1 DEF AreReplies
    <3>3. /\ q \in AnyReply
          /\ \E p \in Bad(s) : q.answer = p.answer /\ q.changed = p.changed /\ q.bumps = p.bumps \cup F
      BY <1>1, <2>4, <3>2, PlusFacts
    <3> QED
      BY <2>2, <3>1, <3>3
  <2> QED
    BY <2>1, <2>3, <2>4
<1> HIDE DEF refused, going
<1>8. AreReplies(inner)
  BY <1>3, <1>6, <1>7 DEF AreReplies, IsStatus
<1>9. /\ r \in AnyReply
      /\ \E q \in inner :
           r.answer = q.answer /\ r.changed = q.changed /\ r.bumps = q.bumps \cup C
  <2> HIDE DEF inner
  <2> QED
    BY <1>1, <1>2, <1>8, PlusFacts
<1>10. PICK q \in inner :
         r.answer = q.answer /\ r.changed = q.changed /\ r.bumps = q.bumps \cup C
  BY <1>9
<1>11. \A b : b \in r.bumps <=> b \in q.bumps \/ b = "apply.calls"
  BY <1>10 DEF C
<1>12. CASE q \in quitting
  <2>1. /\ IsStatus(q) /\ r.answer = q.answer
        /\ q.answer \in {"exception", "unknown backend"}
        /\ q.bumps = {"status.calls"}
    BY <1>3, <1>10, <1>12 DEF IsStatus
  <2>a. /\ "status.calls" \in r.bumps /\ "apply.calls" \in r.bumps
        /\ "status.succeeded" \notin r.bumps /\ "status.failed" \notin r.bumps
        /\ "apply.succeeded" \notin r.bumps /\ "apply.failed" \notin r.bumps
    <3>1. \A b : b \in q.bumps <=> b = "status.calls"
      BY <2>1
    <3> QED
      BY <1>11, <3>1
  <2>b. r.answer \in Errors
    BY <2>1 DEF Errors
  <2>2. Accounts(r)
    BY <2>a, <2>b DEF Accounts, Outcome
  <2>3. r.answer = "unknown backend" => ~scope.known /\ ~r.changed
    BY <1>10, <2>1 DEF IsStatus, AnyReply
  <2> QED
    BY <1>9, <2>2, <2>3 DEF Answered
<1>13. CASE q \in refused
  <2>1. r.answer = "invalid" /\ q.bumps = ({"status.failed"} \cup {"status.calls"}) \cup F
    BY <1>6, <1>10, <1>13 DEF IsStatus
  <2>2. Accounts(r)
    BY <1>11, <2>1 DEF Accounts, Outcome, F
  <2> QED
    BY <1>9, <2>1, <2>2 DEF Answered
<1>14. CASE q \in going
  <2>1. PICK s : /\ IsStatus(s) /\ s.answer = "valid"
                 /\ \/ q.answer = "exception" /\ q.bumps = s.bumps
                    \/ q.answer = "valid" /\ q.bumps = s.bumps \cup {"apply.succeeded"}
                    \/ q.answer = "invalid" /\ q.bumps = s.bumps \cup F
    BY <1>7, <1>14
  <2>2. \A b : b \in s.bumps <=> b = "status.succeeded" \/ b = "status.calls"
    BY <2>1 DEF IsStatus
  <2>3. \/ r.answer = "exception" /\ \A b : b \in q.bumps <=> b \in s.bumps
        \/ r.answer = "valid" /\ \A b : b \in q.bumps <=> b \in s.bumps \/ b = "apply.succeeded"
        \/ r.answer = "invalid" /\ \A b : b \in q.bumps <=> b \in s.bumps \/ b = "apply.failed"
    BY <1>10, <2>1 DEF F
  <2>a. /\ "status.calls" \in r.bumps /\ "apply.calls" \in r.bumps
        /\ "status.succeeded" \in r.bumps /\ "status.failed" \notin r.bumps
        /\ ~ ("apply.succeeded" \in r.bumps /\ "apply.failed" \in r.bumps)
        /\ "apply.succeeded" \notin r.bumps /\ "apply.failed" \notin r.bumps =>
             r.answer = "exception"
    BY <1>11, <2>2, <2>3
  <2>4. Accounts(r)
    BY <2>a DEF Accounts, Outcome, Errors
  <2> QED
    BY <1>9, <2>3, <2>4 DEF Answered
<1> QED
  BY <1>12, <1>13, <1>14

(* Only status, inspect and apply count anything. *)
LEMMA UncountedFacts ==
  ASSUME NEW r \in AnyReply, r.bumps = {},
         r.answer = "unknown backend" => ~scope.known /\ ~r.changed
  PROVE  Answered(r)
  BY DEF Answered, Accounts, Outcome

LEMMA QuietAnswered ==
  ASSUME NEW answers, AreAnswers(answers), "unknown backend" \in answers => ~scope.known,
         NEW r \in Quiet(answers)
  PROVE  Answered(r) /\ r.answer \in answers
<1>1. r \in AnyReply /\ r.answer \in answers /\ r.bumps = {} /\ ~r.changed
  BY QuietFacts
<1> QED
  BY <1>1, UncountedFacts

LEMMA EitherAnswered ==
  ASSUME NEW a \in Answers, a # "unknown backend", NEW r \in Either(a)
  PROVE  Answered(r) /\ r.answer = a
<1>1. PICK c \in BOOLEAN : r = Reply(a, {}, c)
  BY DEF Either
<1>2. r \in AnyReply
  BY <1>1 DEF Reply, AnyReply
<1>3. r.answer = a /\ r.bumps = {}
  BY <1>1 DEF Reply
<1> QED
  BY <1>2, <1>3, UncountedFacts

LEMMA PlainReply ==
  ASSUME NEW a \in Answers, a # "unknown backend", NEW c \in BOOLEAN
  PROVE  Answered(Reply(a, {}, c))
<1> DEFINE r == Reply(a, {}, c)
<1>1. r \in AnyReply
  BY DEF Reply, AnyReply
<1>2. r.answer = a /\ r.bumps = {}
  BY DEF Reply
<1> HIDE DEF r
<1>3. Answered(r)
  BY <1>1, <1>2, UncountedFacts
<1> QED
  BY <1>3 DEF r

LEMMA PlanFacts ==
  ASSUME NEW r \in PlanReplies
  PROVE  Answered(r)
<1> DEFINE A == {"invalid", "exception", Backend}
<1>1. AreAnswers(A) /\ ("unknown backend" \in A => ~scope.known)
  BY DEF AreAnswers, Answers, Errors, Backend
<1>2. r \in Quiet(A)
  BY DEF PlanReplies
<1> HIDE DEF A
<1> QED
  BY <1>1, <1>2, QuietAnswered

LEMMA PruneFacts ==
  ASSUME NEW r \in PruneReplies
  PROVE  Answered(r)
<1>1. PruneReplies = PlanReplies \cup
        (IF scope.known THEN {Reply("valid", {}, TRUE), Reply("exception", {}, TRUE)} ELSE {})
  BY DEF PlanReplies, PruneReplies
<1>2. Answered(Reply("valid", {}, TRUE)) /\ Answered(Reply("exception", {}, TRUE))
  BY PlainReply DEF Answers, Errors
<1> QED
  BY <1>1, <1>2, PlanFacts

LEMMA InspectFacts ==
  ASSUME NEW r \in InspectReplies
  PROVE  Answered(r)
<1> DEFINE V == Answering({"valid"}, StatusReplies)
<1>1. r \in StatusReplies \/ \E s \in V, a \in {"invalid", "exception"} : r = [s EXCEPT !.answer = a]
  BY DEF InspectReplies
<1>2. CASE r \in StatusReplies
  BY <1>2, StatusRepliesAre, StatusFacts
<1>3. CASE \E s \in V, a \in {"invalid", "exception"} : r = [s EXCEPT !.answer = a]
  <2>1. PICK s \in V, a \in {"invalid", "exception"} : r = [s EXCEPT !.answer = a]
    BY <1>3
  <2>2. IsStatus(s) /\ s.answer = "valid"
    BY StatusRepliesAre DEF Answering
  <2>3. s \in AnyReply /\ s.bumps = {"status.succeeded"} \cup {"status.calls"}
    BY <2>2 DEF IsStatus
  <2>4. r \in AnyReply /\ r.answer = a /\ r.bumps = s.bumps
    BY <2>1, <2>3 DEF AnyReply, Answers, Errors
  <2>5. \A b : b \in r.bumps <=> b = "status.succeeded" \/ b = "status.calls"
    BY <2>3, <2>4
  <2>6. Accounts(r)
    BY <2>5 DEF Accounts, Outcome
  <2> QED
    BY <2>4, <2>6 DEF Answered
<1> QED
  BY <1>1, <1>2, <1>3

(* Every reply of every port: its counters are in order, and only a client  *)
(* opened for a backend nobody knows hears so; the hooks are never refused. *)
LEMMA RepliesAnswered ==
  ASSUME NEW op \in Ops, NEW r \in Replies(op)
  PROVE  /\ Answered(r)
         /\ op = "hook status" => r.answer \in {"valid", "hook error", "exception"}
         /\ op = "clear logs" => r.answer # "unknown backend"
<1> DEFINE VI == {"valid", "invalid"}
           VIE == {"valid", "invalid", "exception"}
           V == {"valid"}
           VHE == {"valid", "hook error", "exception"}
           C == {"conflicts"}
<1>1. /\ AreAnswers(VI) /\ AreAnswers(VIE) /\ AreAnswers(V) /\ AreAnswers(VHE) /\ AreAnswers(C)
      /\ "valid" \in Answers /\ "invalid" \in Answers /\ "exception" \in Answers
      /\ "hook error" \in Answers
  BY DEF AreAnswers, Answers, Errors
<1>2. /\ "unknown backend" \notin VI /\ "unknown backend" \notin VIE /\ "unknown backend" \notin V
      /\ "unknown backend" \notin VHE /\ "unknown backend" \notin C
  OBVIOUS
<1>3. VHE = {"valid", "hook error", "exception"}
  OBVIOUS
<1>4. CASE op = "validate"
  <2>1. r \in Quiet(VI)
    BY <1>4 DEF Replies
  <2> HIDE DEF VI
  <2> QED
    BY <1>1, <1>2, <1>4, <2>1, QuietAnswered
<1>5. CASE op = "plan"
  <2>1. r \in PlanReplies
    BY <1>5 DEF Replies
  <2> QED
    BY <1>5, <2>1, PlanFacts
<1>6. CASE op = "status"
  <2>1. r \in StatusReplies
    BY <1>6 DEF Replies
  <2> QED
    BY <1>6, <2>1, StatusRepliesAre, StatusFacts
<1>7. CASE op = "inspect"
  <2>1. r \in InspectReplies
    BY <1>7 DEF Replies
  <2> QED
    BY <1>7, <2>1, InspectFacts
<1>8. CASE op = "apply"
  <2>1. r \in ApplyReplies
    BY <1>8 DEF Replies
  <2> QED
    BY <1>8, <2>1, ApplyFacts
<1>9. CASE op = "prune"
  <2>1. r \in PruneReplies
    BY <1>9 DEF Replies
  <2> QED
    BY <1>9, <2>1, PruneFacts
<1>10. CASE op \in {"list jobs", "list logs", "clear logs"}
  <2>1. r \in Quiet(VIE)
    BY <1>10 DEF Replies
  <2> HIDE DEF VIE
  <2>2. Answered(r) /\ r.answer \in VIE
    BY <1>1, <1>2, <2>1, QuietAnswered
  <2> QED
    BY <1>2, <1>10, <2>2
<1>11. CASE op \in {"add job", "update job", "set job"}
  <2>1. r \in Either("valid") \cup Either("invalid") \cup Either("exception")
    BY <1>11 DEF Replies
  <2> QED
    BY <1>1, <1>11, <2>1, EitherAnswered
<1>12. CASE op = "show metrics"
  <2>1. r \in Quiet(V)
    BY <1>12 DEF Replies
  <2> HIDE DEF V
  <2> QED
    BY <1>1, <1>2, <1>12, <2>1, QuietAnswered
<1>13. CASE op = "reset metrics"
  <2>1. r = Reply("valid", {}, TRUE) \/ r = Reply("exception", {}, FALSE)
    BY <1>13 DEF Replies
  <2>2. Answered(Reply("valid", {}, TRUE)) /\ Answered(Reply("exception", {}, FALSE))
    BY <1>1, PlainReply
  <2> QED
    BY <1>13, <2>1, <2>2
<1>14. CASE op = "hook status"
  <2>1. r \in Quiet(VHE)
    BY <1>14 DEF Replies
  <2> HIDE DEF VHE
  <2>2. Answered(r) /\ r.answer \in VHE
    BY <1>1, <1>2, <2>1, QuietAnswered
  <2> QED
    BY <1>3, <2>2
<1>15. CASE op \in {"install hooks", "end session"}
  <2>1. r \in Either("valid") \cup Either("hook error") \cup Either("exception")
    BY <1>15 DEF Replies
  <2> QED
    BY <1>1, <1>15, <2>1, EitherAnswered
<1>16. CASE op = "initialize"
  <2>1. r \in Either("valid") \cup Quiet(C) \cup Either("exception")
    BY <1>16 DEF Replies
  <2> HIDE DEF C
  <2>2. r \in Quiet(C) => Answered(r)
    BY <1>1, <1>2, QuietAnswered
  <2> QED
    BY <1>1, <1>16, <2>1, <2>2, EitherAnswered
<1> QED
  BY <1>4, <1>5, <1>6, <1>7, <1>8, <1>9, <1>10, <1>11, <1>12, <1>13, <1>14, <1>15, <1>16
     DEF Ops, ScheduleOps, JobsOps, Operations, HookOps, HomeOps

----------------------------------------------------------------------------
(* The commands, and the calls they make. *)
Scripts == {<<op>> : op \in Ops} \cup {<<"plan", "hook status">>}

LEMMA PairFacts ==
  ASSUME NEW a, NEW b
  PROVE  <<a, b>> # <<>> /\ Head(<<a, b>>) = a /\ Tail(<<a, b>>) = <<b>>
<1> DEFINE s == <<a, b>>
           t == <<b>>
<1>1. s \in Seq({a, b}) /\ Len(s) = 2 /\ s[1] = a /\ s[2] = b /\ s # <<>>
  OBVIOUS
<1>2. t \in Seq({a, b}) /\ Len(t) = 1 /\ t[1] = b
  OBVIOUS
<1> HIDE DEF s, t
<1>3. /\ Tail(s) \in Seq({a, b}) /\ Len(Tail(s)) = Len(s) - 1
      /\ \A i \in 1 .. Len(Tail(s)) : Tail(s)[i] = s[i + 1]
  BY <1>1, HeadTailProperties
<1>4. Len(Tail(s)) = 1
  BY <1>1, <1>3
<1>5. \A i \in 1 .. Len(Tail(s)) : Tail(s)[i] = t[i]
  <2>1. \A i \in 1 .. 1 : i = 1
    OBVIOUS
  <2>2. Tail(s)[1] = s[2]
    BY <1>3, <1>4
  <2> QED
    BY <1>1, <1>2, <1>4, <2>1, <2>2
<1>6. Tail(s) = t
  BY <1>2, <1>3, <1>4, <1>5, SeqEqual
<1> QED
  BY <1>1, <1>6 DEF s, t

LEMMA SingletonFacts ==
  ASSUME NEW a
  PROVE  <<a>> # <<>> /\ Head(<<a>>) = a /\ Tail(<<a>>) = <<>>
  OBVIOUS

LEMMA HookScript == <<"hook status">> \in Scripts
  BY DEF Scripts, Ops, HookOps

LEMMA ScriptFacts ==
  ASSUME NEW s \in Scripts
  PROVE  /\ s # <<>>
         /\ Head(s) \in Ops
         /\ Tail(s) = <<>> \/ Tail(s) = <<"hook status">>
<1>1. CASE s \in {<<op>> : op \in Ops}
  BY <1>1, SingletonFacts
<1>2. CASE s = <<"plan", "hook status">>
  <2>1. "plan" \in Ops
    BY DEF Ops, ScheduleOps
  <2> QED
    BY <1>2, <2>1, PairFacts
<1> QED
  BY <1>1, <1>2 DEF Scripts

(* Only a scoped client is given a backend. *)
IsCommand(c) ==
  /\ c.scoped \in BOOLEAN /\ c.backend \in BOOLEAN /\ c.ops \in Scripts
  /\ c.backend => c.scoped

LEMMA RowFields ==
  ASSUME NEW path, NEW scoped \in BOOLEAN, NEW backend \in BOOLEAN, NEW ops \in Scripts,
         backend => scoped
  PROVE  IsCommand(Row(path, scoped, backend, ops))
  BY DEF Row, IsCommand

LEMMA SingleCall ==
  ASSUME NEW op \in Ops, NEW path, NEW scoped \in BOOLEAN, NEW backend \in BOOLEAN,
         backend => scoped
  PROVE  IsCommand(Row(path, scoped, backend, <<op>>))
<1>1. <<op>> \in Scripts
  BY DEF Scripts
<1> QED
  BY <1>1, RowFields

LEMMA TwoCalls ==
  ASSUME NEW path, NEW backend \in BOOLEAN
  PROVE  IsCommand(Row(path, TRUE, backend, <<"plan", "hook status">>))
<1>1. <<"plan", "hook status">> \in Scripts
  BY DEF Scripts
<1> QED
  BY <1>1, RowFields

LEMMA CommandFacts ==
  ASSUME NEW c \in CommandTable
  PROVE  IsCommand(c)
<1>1. CASE c \in HomeView
  BY <1>1, TwoCalls DEF HomeView
<1>2. CASE c \in InitCommand \cup ValidateCommand
  BY <1>2, SingleCall DEF InitCommand, ValidateCommand, Ops, HomeOps, ScheduleOps
<1>3. CASE c \in ReadCommands \cup WriteCommands
  BY <1>3, SingleCall DEF ReadCommands, WriteCommands, Ops, ScheduleOps
<1>4. CASE c \in JobsReads \cup JobsAdd \cup JobsUpdate \cup JobsMutations
  BY <1>4, SingleCall DEF JobsReads, JobsAdd, JobsUpdate, JobsMutations, Ops, JobsOps
<1>5. CASE c \in LogsCommands \cup MetricsCommands
  BY <1>5, SingleCall DEF LogsCommands, MetricsCommands, Ops, Operations
<1>6. CASE c \in HookCommands
  BY <1>6, SingleCall, TwoCalls DEF HookCommands, Ops, HookOps
<1> QED
  BY <1>1, <1>2, <1>3, <1>4, <1>5, <1>6 DEF CommandTable

----------------------------------------------------------------------------
(* The exit code.  While a command works or is about to print, either        *)
(* nothing went wrong but what its verdict says, or the backend was unknown   *)
(* before anything was changed, or something went wrong that exits with 1.    *)
Fine(f, m, v) == f = "none" /\ m = (IF v = "invalid" THEN {"invalid"} ELSE {})
Wrongly(f, m, changed) ==
  f = "unknown backend" /\ given.command.scoped /\ m = {"unknown backend"} /\ ~changed
Failed(f, m) == f \notin {"none", "unknown backend"} /\ ~ (m \subseteq {"usage", "unknown backend"})
Stands(f, m, v, changed) == Fine(f, m, v) \/ Wrongly(f, m, changed) \/ Failed(f, m)

Accounted(h, m) == h = "open" => m \cap {"open", "close"} # {}

AtShell ==
  stage = "shell" =>
    /\ client = "none" /\ host = "none" /\ flight = "none" /\ verdict = "none"
    /\ mishaps = {} /\ ~world.changed

AtWork ==
  stage = "work" =>
    /\ client = "open"
    /\ ~scope.known => given.command.scoped
    /\ \/ script = <<>> \/ script = <<"hook status">>
       \/ verdict = "none" /\ ~world.changed /\ script \in Scripts
    /\ Stands(flight, mishaps, verdict, world.changed)

AtRender ==
  stage = "render" =>
    Stands(flight, mishaps, verdict, world.changed) /\ Accounted(host, mishaps)

ExitInv ==
  /\ stage \in {"shell", "program", "work", "render", "done"}
  /\ stage # "program" => given.command \in CommandTable
  /\ AtShell /\ AtWork /\ AtRender
  /\ ExitTellsTheTruth

LEMMA InitExit == CliInit => ExitInv
<1> SUFFICES ASSUME CliInit PROVE ExitInv
  OBVIOUS
<1>1. stage \in {"shell", "program"} /\ (stage = "shell" => given.command \in CommandTable)
  BY GivensAssumption DEF CliInit, ClientInit
<1>2. AtShell
  BY DEF CliInit, ClientInit, AtShell
<1> QED
  BY <1>1, <1>2 DEF ExitInv, AtWork, AtRender, ExitTellsTheTruth

(* An exit, by the code and what went wrong. *)
Truth(n, m) == n = IF m = {} THEN 0 ELSE IF m \subseteq {"usage", "unknown backend"} THEN 2 ELSE 1

LEMMA Exits ==
  ASSUME NEW n, Exit(n), Truth(n, mishaps'), n = 2 => ~world'.changed,
         Accounted(host, mishaps)', given' = given, given.command \in CommandTable
  PROVE  ExitInv'
<1>1. ExitTellsTheTruth'
  BY DEF ExitTellsTheTruth, Exit, Accounted, Truth
<1> QED
  BY <1>1 DEF ExitInv, AtShell, AtWork, AtRender, Exit

LEMMA ShellExits ==
  ASSUME ExitInv, AttachFails \/ UnknownCommand \/ WrongOutput \/ WrongArguments
  PROVE  ExitInv'
<1>1. stage = "shell" /\ given.command \in CommandTable /\ mishaps = {} /\ host = "none" /\ ~world.changed
  BY DEF ExitInv, AtShell, AttachFails, UnknownCommand, WrongOutput, WrongArguments
<1>2. given' = given /\ world' = world /\ host' = host
  BY DEF AttachFails, UnknownCommand, WrongOutput, WrongArguments, Misused, ClientStands
<1>3. Accounted(host, mishaps)'
  BY <1>1, <1>2 DEF Accounted
<1>4. CASE AttachFails
  <2>1. Exit(1) /\ mishaps' = {"wiring"}
    BY <1>1, <1>4 DEF AttachFails, Mishap
  <2>2. Truth(1, mishaps')
    BY <2>1 DEF Truth
  <2> QED
    BY <1>1, <1>2, <1>3, <2>1, <2>2, Exits
<1>5. CASE UnknownCommand \/ WrongOutput \/ WrongArguments
  <2>1. Exit(2) /\ mishaps' = {"usage"}
    BY <1>1, <1>5 DEF UnknownCommand, WrongOutput, WrongArguments, Misused, Mishap
  <2>2. Truth(2, mishaps')
    BY <2>1 DEF Truth
  <2> QED
    BY <1>1, <1>2, <1>3, <2>1, <2>2, Exits
<1> QED
  BY <1>4, <1>5

(* Opening a client, or failing to. *)
LEMMA EnterExit ==
  ASSUME ExitInv, Enter
  PROVE  ExitInv'
<1> DEFINE backend == IF given.command.backend THEN given.backend ELSE "known"
<1>1. /\ stage = "shell" /\ given.command \in CommandTable
      /\ flight = "none" /\ verdict = "none" /\ mishaps = {} /\ ~world.changed
  BY DEF ExitInv, AtShell, Enter, Ready
<1>2. IsCommand(given.command)
  BY <1>1, CommandFacts
<1>3. /\ given' = given /\ client' = "open" /\ scope' = Scope(given.command.scoped, backend)
      /\ flight' = "none" /\ verdict' = "none" /\ mishaps' = {} /\ world' = world
      /\ stage' = "work" /\ script' = given.command.ops
  BY <1>1 DEF Enter, Open
<1>4. scope'.known <=> backend = "known"
  BY <1>3 DEF Scope
<1>5. ~scope'.known => given.command.scoped
  BY <1>2, <1>4 DEF IsCommand
<1>6. script' \in Scripts
  BY <1>2, <1>3 DEF IsCommand
<1>7. Stands(flight, mishaps, verdict, world.changed)'
  BY <1>3 DEF Stands, Fine
<1>8. AtWork'
  BY <1>1, <1>3, <1>5, <1>6, <1>7 DEF AtWork
<1> QED
  BY <1>1, <1>3, <1>8 DEF ExitInv, AtShell, AtRender, ExitTellsTheTruth

LEMMA EnterFailsExit ==
  ASSUME ExitInv, EnterFails
  PROVE  ExitInv'
<1>1. /\ stage = "shell" /\ given.command \in CommandTable
      /\ mishaps = {} /\ host = "none"
  BY DEF ExitInv, AtShell, EnterFails, Ready
<1>2. given' = given /\ flight' = "exception" /\ stage' = "render"
  BY DEF EnterFails, HostRefuses, OpenRaises
<1>3. \/ host' = "none" /\ mishaps' = {"host"}
      \/ mishaps' = {"open"}
  BY <1>1 DEF EnterFails, HostRefuses, OpenRaises, Mishap
<1>4. Failed(flight, mishaps)' /\ Accounted(host, mishaps)'
  <2>1. CASE host' = "none" /\ mishaps' = {"host"}
    BY <1>2, <2>1 DEF Failed, Accounted
  <2>2. CASE mishaps' = {"open"}
    <3>1. mishaps' \cap {"open", "close"} # {} /\ "open" \in mishaps'
      BY <2>2
    <3> QED
      BY <1>2, <3>1 DEF Failed, Accounted
  <2> QED
    BY <1>3, <2>1, <2>2
<1>5. AtRender'
  BY <1>4 DEF AtRender, Stands
<1> QED
  BY <1>1, <1>2, <1>5 DEF ExitInv, AtShell, AtWork, ExitTellsTheTruth

(* What a call that is answered leaves of the command's standing. *)
LEMMA CallFacts ==
  ASSUME NEW op \in Ops, Call(op)
  PROVE  \E r \in Replies(op) :
           /\ Answered(r)
           /\ op = "hook status" => r.answer \in {"valid", "hook error", "exception"}
           /\ r.answer = "unknown backend" => (world'.changed <=> world.changed \/ r.changed)
           /\ flight' = IF r.answer \in Errors THEN r.answer ELSE "none"
           /\ verdict' = IF r.answer \in Errors \/ verdict # "none" THEN verdict ELSE r.answer
           /\ mishaps' = mishaps \cup (IF r.answer \in {"valid", "conflicts"} THEN {} ELSE {r.answer})
           /\ client = "open" /\ UNCHANGED <<given, client, host, scope>>
<1>1. PICK r \in Replies(op) :
        /\ \E cleared \in (IF op = "clear logs" THEN Cleared(r.answer) ELSE {{}}) : Affect(op, r, cleared)
        /\ flight' = IF r.answer \in Errors THEN r.answer ELSE "none"
        /\ verdict' = IF r.answer \in Errors \/ verdict # "none" THEN verdict ELSE r.answer
        /\ mishaps' = mishaps \cup (IF r.answer \in {"valid", "conflicts"} THEN {} ELSE {r.answer})
  BY DEF Call
<1>2. /\ Answered(r)
      /\ op = "hook status" => r.answer \in {"valid", "hook error", "exception"}
      /\ op = "clear logs" => r.answer # "unknown backend"
  BY RepliesAnswered
<1>3. client = "open" /\ UNCHANGED <<given, client, host, scope>>
  BY DEF Call
<1>4. ASSUME r.answer = "unknown backend"
      PROVE  world'.changed <=> world.changed \/ r.changed
  <2>1. Affect(op, r, {})
    BY <1>1, <1>2, <1>4
  <2>2. world'.changed = (world.changed \/ r.changed \/ world.logs \cap {} # {})
    BY <2>1 DEF Affect
  <2> QED
    BY <2>2
<1> QED
  BY <1>1, <1>2, <1>3, <1>4

LEMMA WorkExit ==
  ASSUME ExitInv, Work
  PROVE  ExitInv'
<1> DEFINE op == Head(script)
<1>1. /\ stage = "work" /\ flight = "none" /\ script # <<>> /\ given.command \in CommandTable
      /\ client = "open" /\ (~scope.known => given.command.scoped)
      /\ \/ script = <<"hook status">>
         \/ verdict = "none" /\ ~world.changed /\ script \in Scripts
  BY DEF ExitInv, AtWork, Work
<1>2. script \in Scripts
  BY <1>1, HookScript
<1>3. /\ op \in Ops /\ script' = Tail(script) /\ stage' = "work"
      /\ script' = <<>> \/ script' = <<"hook status">>
  BY <1>2, ScriptFacts DEF Work
<1>4. op = "hook status" \/ (verdict = "none" /\ ~world.changed)
  BY <1>1, SingletonFacts
<1>5. mishaps = IF verdict = "invalid" THEN {"invalid"} ELSE {}
  BY <1>1 DEF ExitInv, AtWork, Stands, Fine, Wrongly, Failed
<1>6. given' = given /\ client' = client /\ scope' = scope
  BY DEF Work, Unserved, Call
<1>7. Stands(flight, mishaps, verdict, world.changed)'
  <2>1. CASE Unserved(op)
    <3>1. flight' = "exception" /\ "unserved" \in mishaps'
      BY <2>1 DEF Unserved, Mishap
    <3> QED
      BY <3>1 DEF Stands, Failed
  <2>2. CASE Call(op)
    <3> HIDE DEF op
    <3>1. PICK r \in Replies(op) :
            /\ Answered(r)
            /\ op = "hook status" => r.answer \in {"valid", "hook error", "exception"}
            /\ r.answer = "unknown backend" => (world'.changed <=> world.changed \/ r.changed)
            /\ flight' = IF r.answer \in Errors THEN r.answer ELSE "none"
            /\ verdict' = IF r.answer \in Errors \/ verdict # "none" THEN verdict ELSE r.answer
            /\ mishaps' = mishaps \cup (IF r.answer \in {"valid", "conflicts"} THEN {} ELSE {r.answer})
      BY <1>3, <2>2, CallFacts
    <3>2. CASE r.answer \in {"hook error", "exception"}
      <4>1. flight' = r.answer /\ r.answer \in mishaps'
        BY <3>1, <3>2 DEF Errors
      <4> QED
        BY <3>2, <4>1 DEF Stands, Failed
    <3>3. CASE r.answer = "unknown backend"
      <4>1. verdict = "none" /\ ~world.changed /\ ~scope.known /\ ~r.changed
        BY <1>4, <3>1, <3>3 DEF Answered
      <4>2. flight' = "unknown backend" /\ mishaps' = {"unknown backend"} /\ ~world'.changed
        BY <1>5, <3>1, <3>3, <4>1 DEF Errors
      <4> QED
        BY <1>1, <1>6, <4>1, <4>2 DEF Stands, Wrongly
    <3>4. CASE r.answer = "invalid"
      <4>1. verdict = "none"
        BY <1>4, <3>1, <3>4
      <4>2. flight' = "none" /\ mishaps' = {"invalid"} /\ verdict' = "invalid"
        BY <1>5, <3>1, <3>4, <4>1 DEF Errors
      <4> QED
        BY <4>2 DEF Stands, Fine
    <3>5. CASE r.answer \in {"valid", "conflicts"}
      <4>1. flight' = "none" /\ mishaps' = mishaps /\ verdict' \in {verdict, r.answer}
        BY <3>1, <3>5 DEF Errors
      <4>2. verdict' = "invalid" <=> verdict = "invalid"
        BY <3>1, <3>5 DEF Errors
      <4> QED
        BY <1>5, <4>1, <4>2 DEF Stands, Fine
    <3>6. r.answer \in Answers
      BY <3>1 DEF Answered, AnyReply
    <3> QED
      BY <3>2, <3>3, <3>4, <3>5, <3>6 DEF Answers, Errors
  <2> QED
    BY <2>1, <2>2 DEF Work
<1>8. AtWork'
  BY <1>1, <1>3, <1>6, <1>7 DEF AtWork
<1> QED
  BY <1>1, <1>3, <1>6, <1>8 DEF ExitInv, AtShell, AtRender, ExitTellsTheTruth

LEMMA LeaveExit ==
  ASSUME ExitInv, Leave
  PROVE  ExitInv'
<1>1. /\ stage = "work" /\ given.command \in CommandTable /\ stage' = "render"
      /\ given' = given /\ world' = world /\ verdict' = verdict
  BY DEF ExitInv, Leave, Close, CloseRaises
<1>2. Stands(flight, mishaps, verdict, world.changed)
  BY <1>1 DEF ExitInv, AtWork
<1>3. CASE Close
  <2>1. flight' = flight /\ mishaps' = mishaps /\ host' = "closed"
    BY <1>3 DEF Close
  <2>2. Stands(flight, mishaps, verdict, world.changed)' /\ Accounted(host, mishaps)'
    BY <1>1, <1>2, <2>1 DEF Stands, Fine, Wrongly, Failed, Accounted
  <2> QED
    BY <1>1, <2>2 DEF ExitInv, AtShell, AtWork, AtRender, ExitTellsTheTruth
<1>4. CASE CloseRaises
  <2>1. flight' = "exception" /\ "close" \in mishaps'
    BY <1>4 DEF CloseRaises, Mishap
  <2>2. Stands(flight, mishaps, verdict, world.changed)' /\ Accounted(host, mishaps)'
    BY <2>1 DEF Stands, Failed, Accounted
  <2> QED
    BY <1>1, <2>2 DEF ExitInv, AtShell, AtWork, AtRender, ExitTellsTheTruth
<1> QED
  BY <1>3, <1>4 DEF Leave

LEMMA RenderExits ==
  ASSUME ExitInv, RenderError \/ RenderInvalid \/ PrintAnswer \/ PrintFails
  PROVE  ExitInv'
<1>1. /\ stage = "render" /\ given.command \in CommandTable
      /\ Stands(flight, mishaps, verdict, world.changed) /\ Accounted(host, mishaps)
  BY DEF ExitInv, AtRender, RenderError, RenderInvalid, PrintAnswer, PrintFails
<1>2. given' = given /\ world' = world /\ host' = host
  BY DEF RenderError, RenderInvalid, PrintAnswer, PrintFails, ClientStands
<1>3. CASE RenderError
  <2>1. flight # "none" /\ Exit(CodeOf(flight)) /\ mishaps' = mishaps
    BY <1>3 DEF RenderError
  <2>2. Accounted(host, mishaps)'
    BY <1>1, <1>2, <2>1 DEF Accounted
  <2>3. \/ CodeOf(flight) = 2 /\ Truth(2, mishaps') /\ ~world'.changed
        \/ CodeOf(flight) = 1 /\ Truth(1, mishaps')
    <3>1. CASE Wrongly(flight, mishaps, world.changed)
      BY <1>2, <2>1, <3>1 DEF Wrongly, CodeOf, Truth
    <3>2. CASE Failed(flight, mishaps)
      BY <2>1, <3>2 DEF Failed, CodeOf, Truth
    <3> QED
      BY <1>1, <2>1, <3>1, <3>2 DEF Stands, Fine
  <2> QED
    BY <1>1, <1>2, <2>1, <2>2, <2>3, Exits
<1>4. CASE RenderInvalid
  <2>1. Exit(1) /\ mishaps' = mishaps /\ mishaps = {"invalid"}
    BY <1>1, <1>4 DEF RenderInvalid, Stands, Fine, Wrongly, Failed
  <2>2. Truth(1, mishaps')
    BY <2>1 DEF Truth
  <2>3. Accounted(host, mishaps)'
    BY <1>1, <1>2, <2>1 DEF Accounted
  <2> QED
    BY <1>1, <1>2, <2>1, <2>2, <2>3, Exits
<1>5. CASE PrintAnswer
  <2>1. Exit(0) /\ mishaps' = mishaps /\ mishaps = {}
    BY <1>1, <1>5 DEF PrintAnswer, Stands, Fine, Wrongly, Failed
  <2>2. Truth(0, mishaps')
    BY <2>1 DEF Truth
  <2>3. Accounted(host, mishaps)'
    BY <1>1, <1>2, <2>1 DEF Accounted
  <2> QED
    BY <1>1, <1>2, <2>1, <2>2, <2>3, Exits
<1>6. CASE PrintFails
  <2>1. Exit(1) /\ mishaps' = mishaps \cup {"print"}
    BY <1>6 DEF PrintFails, Mishap
  <2>2. Truth(1, mishaps')
    BY <2>1 DEF Truth
  <2>3. Accounted(host, mishaps)'
    BY <1>1, <1>2, <2>1 DEF Accounted
  <2> QED
    BY <1>1, <1>2, <2>1, <2>2, <2>3, Exits
<1> QED
  BY <1>3, <1>4, <1>5, <1>6

LEMMA NextExit == ExitInv /\ [CliNext]_cliVars => ExitInv'
<1> SUFFICES ASSUME ExitInv, [CliNext]_cliVars PROVE ExitInv'
  OBVIOUS
<1>1. CASE Program /\ UNCHANGED <<script, code>>
  <2>1. stage = "program" /\ stage' = "program"
    BY <1>1 DEF Program
  <2> QED
    BY <2>1 DEF ExitInv, AtShell, AtWork, AtRender, ExitTellsTheTruth
<1>2. CASE UNCHANGED cliVars
  BY <1>2 DEF cliVars, clientVars, ExitInv, AtShell, AtWork, AtRender, Stands, Fine, Wrongly, Failed,
              Accounted, ExitTellsTheTruth
<1> QED
  BY <1>1, <1>2, ShellExits, EnterExit, EnterFailsExit, WorkExit, LeaveExit, RenderExits DEF CliNext

(* The exit code of a command says what came of it: 0 when nothing went      *)
(* wrong, 2 only for a wrong invocation that changed nothing, else 1; and     *)
(* the host is closed unless opening or closing it raised.                   *)
THEOREM ExitIsTrue == CliSpec => []ExitTellsTheTruth
<1>1. ExitInv => ExitTellsTheTruth
  BY DEF ExitInv
<1> QED
  BY <1>1, InitExit, NextExit, PTL DEF CliSpec

----------------------------------------------------------------------------
(* The books.  They balance whatever is called, since every reply's counters  *)
(* do (Accounts).                                                             *)
Books ==
  /\ events \in [started : Nat, finished : Nat, failed : Nat]
  /\ tally \in [Outcomes -> Nat]
  /\ broken \in [status : Nat, apply : Nat]
  /\ BooksBalance

LEMMA ObserveBooks ==
  ASSUME Books, NEW failed \in BOOLEAN, Observe(failed)
  PROVE  /\ events' \in [started : Nat, finished : Nat, failed : Nat]
         /\ events'.started = events'.finished + events'.failed
<1>1. /\ events \in [started : Nat, finished : Nat, failed : Nat]
      /\ events.started = events.finished + events.failed
  BY DEF Books, BooksBalance
<1>2. CASE "observability" \notin given.installed
  BY <1>1, <1>2 DEF Observe
<1>3. CASE "observability" \in given.installed /\ failed
  <2>1. events' = [started |-> events.started + 1, finished |-> events.finished,
                   failed |-> events.failed + 1]
    BY <1>3 DEF Observe
  <2> QED
    BY <1>1, <2>1
<1>4. CASE "observability" \in given.installed /\ ~failed
  <2>1. events' = [started |-> events.started + 1, finished |-> events.finished + 1,
                   failed |-> events.failed]
    BY <1>4 DEF Observe
  <2> QED
    BY <1>1, <2>1
<1> QED
  BY <1>2, <1>3, <1>4

LEMMA CallBooks ==
  ASSUME Books, NEW op \in Ops, Call(op)
  PROVE  Books'
<1>1. PICK r \in Replies(op) : Observe(r.answer \in Errors) /\ Count(r)
  BY DEF Call
<1>2. Accounts(r)
  BY RepliesAnswered DEF Answered
<1>3. /\ events' \in [started : Nat, finished : Nat, failed : Nat]
      /\ events'.started = events'.finished + events'.failed
  <2> DEFINE raised == r.answer \in Errors
  <2>1. Observe(raised) /\ raised \in BOOLEAN
    BY <1>1
  <2> HIDE DEF raised
  <2> QED
    BY <2>1, ObserveBooks
<1> DEFINE counting == "metrics" \in given.installed
           Bumped(c) == IF counting /\ c \in r.bumps THEN 1 ELSE 0
           Raised(began, ended) ==
             IF counting /\ r.answer \in Errors /\ began \in r.bumps /\ ended \cap r.bumps = {}
             THEN 1 ELSE 0
<1>4. /\ tally' = [c \in Outcomes |-> IF counting /\ c \in r.bumps THEN tally[c] + 1 ELSE tally[c]]
      /\ broken'.status = broken.status + Raised("status.calls", {"status.succeeded", "status.failed"})
      /\ broken'.apply = broken.apply + Raised("apply.calls", {"apply.succeeded", "apply.failed"})
      /\ broken' \in [status : Nat, apply : Nat]
  BY <1>1 DEF Count, Books
<1>5. \A c \in Outcomes : tally'[c] = tally[c] + Bumped(c)
  BY <1>4 DEF Books
<1>6. tally' \in [Outcomes -> Nat]
  BY <1>4 DEF Books
<1>7. /\ tally'["status.calls"] = tally["status.calls"] + Bumped("status.calls")
      /\ tally'["status.succeeded"] = tally["status.succeeded"] + Bumped("status.succeeded")
      /\ tally'["status.failed"] = tally["status.failed"] + Bumped("status.failed")
      /\ tally'["apply.calls"] = tally["apply.calls"] + Bumped("apply.calls")
      /\ tally'["apply.succeeded"] = tally["apply.succeeded"] + Bumped("apply.succeeded")
      /\ tally'["apply.failed"] = tally["apply.failed"] + Bumped("apply.failed")
  <2> HIDE DEF Bumped
  <2> QED
    BY <1>5 DEF Outcomes
<1>8. /\ Bumped("status.calls") = Bumped("status.succeeded") + Bumped("status.failed")
           + Raised("status.calls", {"status.succeeded", "status.failed"})
      /\ Bumped("apply.calls") = Bumped("apply.succeeded") + Bumped("apply.failed")
           + Raised("apply.calls", {"apply.succeeded", "apply.failed"})
      /\ Bumped("apply.succeeded") <= Bumped("status.succeeded")
      /\ Bumped("apply.calls") <= Bumped("status.calls")
  <2>1. ASSUME NEW began, NEW won, NEW lost, Outcome(r, began, won, lost)
        PROVE  Bumped(began) = Bumped(won) + Bumped(lost) + Raised(began, {won, lost})
    <3>1. {won, lost} \cap r.bumps = {} <=> won \notin r.bumps /\ lost \notin r.bumps
      OBVIOUS
    <3> QED
      BY <2>1, <3>1 DEF Outcome
  <2> QED
    BY <1>2, <2>1 DEF Accounts
<1>9. /\ \A c : Bumped(c) \in Nat
      /\ \A b, e : Raised(b, e) \in Nat
  OBVIOUS
<1>10. BooksBalance'
  <2> HIDE DEF Bumped, Raised
  <2>1. /\ \A c \in Outcomes : tally[c] \in Nat
        /\ broken.status \in Nat /\ broken.apply \in Nat
    BY DEF Books
  <2>2. /\ tally["status.calls"] \in Nat /\ tally["status.succeeded"] \in Nat
        /\ tally["status.failed"] \in Nat /\ tally["apply.calls"] \in Nat
        /\ tally["apply.succeeded"] \in Nat /\ tally["apply.failed"] \in Nat
    BY <2>1 DEF Outcomes
  <2>3. /\ tally'["status.calls"] = tally'["status.succeeded"] + tally'["status.failed"] + broken'.status
        /\ tally'["apply.calls"] = tally'["apply.succeeded"] + tally'["apply.failed"] + broken'.apply
    BY <1>4, <1>7, <1>8, <1>9, <2>1, <2>2 DEF Books, BooksBalance
  <2>4. /\ tally'["apply.succeeded"] <= tally'["status.succeeded"]
        /\ tally'["apply.calls"] <= tally'["status.calls"]
    BY <1>7, <1>8, <1>9, <2>2 DEF Books, BooksBalance
  <2> QED
    BY <1>3, <2>3, <2>4 DEF BooksBalance
<1> QED
  BY <1>3, <1>4, <1>6, <1>10 DEF Books

LEMMA InitBooks == CliInit => Books
<1> SUFFICES ASSUME CliInit PROVE Books
  OBVIOUS
<1>1. /\ events = [started |-> 0, finished |-> 0, failed |-> 0]
      /\ tally = [c \in Outcomes |-> 0]
      /\ broken = [status |-> 0, apply |-> 0]
  BY DEF CliInit, ClientInit
<1> QED
  BY <1>1 DEF Books, BooksBalance, Outcomes

LEMMA NextBooks == ExitInv /\ Books /\ [CliNext]_cliVars => Books'
<1> SUFFICES ASSUME ExitInv, Books, [CliNext]_cliVars PROVE Books'
  OBVIOUS
<1>1. ASSUME UNCHANGED <<events, tally, broken>> PROVE Books'
  BY <1>1 DEF Books, BooksBalance
<1>2. CASE AttachFails \/ UnknownCommand \/ WrongOutput \/ WrongArguments
           \/ RenderError \/ RenderInvalid \/ PrintAnswer \/ PrintFails
  BY <1>1, <1>2 DEF AttachFails, UnknownCommand, WrongOutput, WrongArguments, Misused,
                    RenderError, RenderInvalid, PrintAnswer, PrintFails, ClientStands
<1>3. CASE Enter \/ EnterFails \/ Leave
  BY <1>1, <1>3 DEF Enter, EnterFails, Leave, Open, HostRefuses, OpenRaises, Close, CloseRaises
<1>4. CASE Work
  <2>1. script \in Scripts
    BY <1>4, HookScript DEF ExitInv, AtWork, Work
  <2>2. Head(script) \in Ops
    BY <1>4, <2>1, ScriptFacts DEF Work
  <2>3. CASE Unserved(Head(script))
    BY <1>1, <2>3 DEF Unserved
  <2> QED
    BY <1>4, <2>2, <2>3, CallBooks DEF Work
<1>5. CASE Program
  <2>1. CASE HostRefuses \/ Open(TRUE, given.backend) \/ Open(FALSE, "known") \/ OpenRaises(TRUE)
             \/ Refused \/ Close \/ CloseRaises
    BY <1>1, <2>1 DEF HostRefuses, Open, OpenRaises, Refused, Close, CloseRaises
  <2>2. ASSUME NEW op \in Ops, Unserved(op) PROVE Books'
    BY <1>1, <2>2 DEF Unserved
  <2>3. ASSUME NEW op \in Ops, Call(op) PROVE Books'
    BY <2>3, CallBooks
  <2> QED
    BY <1>5, <2>1, <2>2, <2>3 DEF Program
<1>6. CASE UNCHANGED cliVars
  BY <1>1, <1>6 DEF cliVars, clientVars
<1> QED
  BY <1>2, <1>3, <1>4, <1>5, <1>6 DEF CliNext

(* Every call the SDK observes is recorded as finished or failed, every call  *)
(* it counts has one outcome unless it raised, and no deployment is counted   *)
(* as a success without a status that was: whatever is called, in any order.  *)
THEOREM BooksAreBalanced == CliSpec => []BooksBalance
<1>1. ExitInv /\ Books => BooksBalance
  BY DEF Books
<1>2. CliInit => ExitInv /\ Books
  BY InitExit, InitBooks
<1>3. ExitInv /\ Books /\ [CliNext]_cliVars => (ExitInv /\ Books)'
  BY NextExit, NextBooks
<1> QED
  BY <1>1, <1>2, <1>3, PTL DEF CliSpec

----------------------------------------------------------------------------
(* The scope.  An open client has the one it was opened with; a call takes    *)
(* the switch, the root and the logs' root from it and from nothing else.     *)
Scoped == client = "open" => \E s \in BOOLEAN : \E b : scope = Scope(s, b)

(* The root a call may write under. *)
RootOf(workspace, stated, configured) ==
  IF ~workspace THEN None ELSE IF stated # None THEN stated ELSE configured

(* What a client may touch, for a scope of its own. *)
LEMMA ScopeFacts ==
  ASSUME NEW s \in BOOLEAN, NEW b, scope = Scope(s, b)
  PROVE  LET configured == Compose(given.files, given.env)
             root == RootOf(scope.workspace, given.ask.root, configured.root)
         IN  /\ scope.workspace /\ Manages => given.ask.manage # FALSE /\ configured.manage
             /\ SchedulerRoot = root
             /\ given.ask.root = None \/ configured.root \in {None, given.ask.root} => LogsRoot = root
<1> DEFINE configured == Compose(given.files, given.env)
<1> HIDE DEF configured
<1>1. CASE s
  <2>1. /\ scope.workspace
        /\ scope.settings = configured
        /\ scope.options.root = Stated(given.ask.root, configured.root)
        /\ scope.options.manage = Stated(given.ask.manage, configured.manage)
    BY <1>1 DEF Scope, configured
  <2>2. Manages => given.ask.manage # FALSE /\ configured.manage
    BY <2>1, NoneAssumption DEF Manages, Stated
  <2>3. SchedulerRoot = RootOf(TRUE, given.ask.root, configured.root)
    BY <2>1 DEF SchedulerRoot, Stated, RootOf
  <2>4. \/ LogsRoot = RootOf(TRUE, given.ask.root, configured.root)
        \/ LogsRoot = configured.root /\ None \notin {given.ask.root, configured.root}
    BY <2>1 DEF LogsRoot, Stated, RootOf
  <2> QED
    BY <2>1, <2>2, <2>3, <2>4 DEF RootOf, configured
<1>2. CASE ~s
  <2>1. ~scope.workspace /\ scope.settings.root = None /\ scope.options.root = None
    BY <1>2 DEF Scope, Stated
  <2> QED
    BY <2>1 DEF SchedulerRoot, LogsRoot, Stated, RootOf
<1> QED
  BY <1>1, <1>2

(* What emptying the logs may empty. *)
LEMMA ClearedFacts ==
  ASSUME NEW answer, NEW cleared \in Cleared(answer), NEW e \in cleared
  PROVE  /\ e[1] = LogsRoot /\ e[2] \notin given.links
         /\ ~given.dry /\ given.filter \in {None, e[2]}
<1>1. ~given.dry /\ e \in {LogsRoot} \X Listed(given.filter)
  BY DEF Cleared
<1>2. e[1] = LogsRoot /\ e[2] \in Listed(given.filter)
  BY <1>1
<1> QED
  BY <1>1, <1>2 DEF Listed

(* The action of StaysWithinScope. *)
StepWithin ==
  LET configured == Compose(given.files, given.env)
      root == IF ~scope.workspace THEN None
              ELSE IF given.ask.root # None THEN given.ask.root ELSE configured.root
  IN  /\ world'.native /\ ~world.native /\ scope.workspace =>
           /\ given.ask.manage # FALSE
           /\ given.ask.manage = None => configured.manage
      /\ world'.roots # world.roots => world'.roots = world.roots \cup {root}
      /\ \A e \in world.logs \ world'.logs :
           /\ given.ask.root = None \/ configured.root \in {None, given.ask.root} => e[1] = root
           /\ e[2] \notin given.links
           /\ ~given.dry /\ given.filter \in {None, e[2]}
      /\ client = "closed" => UNCHANGED <<world, events, tally>>

LEMMA CallWithin ==
  ASSUME Scoped, NEW op, Call(op)
  PROVE  StepWithin
<1> DEFINE configured == Compose(given.files, given.env)
           root == RootOf(scope.workspace, given.ask.root, configured.root)
<1>1. client = "open"
  BY DEF Call
<1>2. PICK r \in Replies(op) :
        \E cleared \in (IF op = "clear logs" THEN Cleared(r.answer) ELSE {{}}) : Affect(op, r, cleared)
  BY DEF Call
<1>3. PICK cleared \in (IF op = "clear logs" THEN Cleared(r.answer) ELSE {{}}) : Affect(op, r, cleared)
  BY <1>2
<1>4. /\ scope.workspace /\ Manages => given.ask.manage # FALSE /\ configured.manage
      /\ SchedulerRoot = root
      /\ given.ask.root = None \/ configured.root \in {None, given.ask.root} => LogsRoot = root
  <2>1. PICK s \in BOOLEAN : \E b : scope = Scope(s, b)
    BY <1>1 DEF Scoped
  <2> QED
    BY <2>1, ScopeFacts
<1>5. /\ world'.native /\ ~world.native => Manages
      /\ world'.roots \in {world.roots, world.roots \cup {SchedulerRoot}}
      /\ world'.logs = world.logs \ cleared
  BY <1>3 DEF Affect
<1>6. ASSUME NEW e \in world.logs \ world'.logs
      PROVE  /\ e[1] = LogsRoot /\ e[2] \notin given.links
             /\ ~given.dry /\ given.filter \in {None, e[2]}
  <2>1. e \in cleared
    BY <1>5, <1>6
  <2>2. cleared \in Cleared(r.answer)
    BY <1>3, <2>1
  <2> QED
    BY <2>1, <2>2, ClearedFacts
<1> HIDE DEF configured
<1> QED
  BY <1>1, <1>4, <1>5, <1>6 DEF StepWithin, RootOf, configured

LEMMA InitScope == CliInit => Scoped
  BY DEF CliInit, ClientInit, Scoped

LEMMA OpenScope ==
  ASSUME NEW s \in BOOLEAN, NEW b, Open(s, b)
  PROVE  Scoped'
<1>1. scope' = Scope(s, b) /\ given' = given
  BY DEF Open
<1>2. Scope(s, b)' = Scope(s, b)
  BY <1>1 DEF Scope
<1> QED
  BY <1>1, <1>2 DEF Scoped

LEMMA KeepsScope ==
  ASSUME Scoped, UNCHANGED <<given, scope>>, client' \in {client, "closed"}
  PROVE  Scoped'
<1>1. \A s, b : Scope(s, b)' = Scope(s, b)
  BY DEF Scope
<1> QED
  BY <1>1 DEF Scoped

(* A step leaves the world alone, or is a call. *)
LEMMA StepFacts ==
  ASSUME ExitInv, CliNext
  PROVE  \/ UNCHANGED <<world, events, tally>>
            /\ (Scoped => Scoped')
         \/ \E op \in Ops : Call(op)
<1>1. CASE AttachFails \/ UnknownCommand \/ WrongOutput \/ WrongArguments
           \/ RenderError \/ RenderInvalid \/ PrintAnswer \/ PrintFails
  <2>1. UNCHANGED <<world, events, tally>> /\ UNCHANGED <<given, scope>> /\ client' = client
    BY <1>1 DEF AttachFails, UnknownCommand, WrongOutput, WrongArguments, Misused,
                RenderError, RenderInvalid, PrintAnswer, PrintFails, ClientStands
  <2> QED
    BY <2>1, KeepsScope
<1>2. CASE Enter
  <2>1. UNCHANGED <<world, events, tally>>
    BY <1>2 DEF Enter, Open
  <2>2. given.command.scoped \in BOOLEAN
    BY <1>2, CommandFacts DEF ExitInv, Enter, Ready, IsCommand
  <2> QED
    BY <1>2, <2>1, <2>2, OpenScope DEF Enter
<1>3. CASE EnterFails \/ Leave
  <2>1. UNCHANGED <<world, events, tally>> /\ UNCHANGED <<given, scope>> /\ client' \in {client, "closed"}
    BY <1>3 DEF EnterFails, Leave, HostRefuses, OpenRaises, Close, CloseRaises
  <2> QED
    BY <2>1, KeepsScope
<1>4. CASE Work
  <2>1. script \in Scripts
    BY <1>4, HookScript DEF ExitInv, AtWork, Work
  <2>2. Head(script) \in Ops
    BY <1>4, <2>1, ScriptFacts DEF Work
  <2>3. CASE Unserved(Head(script))
    BY <2>3, KeepsScope DEF Unserved
  <2> QED
    BY <1>4, <2>2, <2>3 DEF Work
<1>5. CASE Program
  <2>1. CASE HostRefuses \/ OpenRaises(TRUE) \/ Refused \/ Close \/ CloseRaises
    <3>1. UNCHANGED <<world, events, tally>> /\ UNCHANGED <<given, scope>> /\ client' \in {client, "closed"}
      BY <2>1 DEF HostRefuses, OpenRaises, Refused, Close, CloseRaises
    <3> QED
      BY <3>1, KeepsScope
  <2>2. CASE Open(TRUE, given.backend) \/ Open(FALSE, "known")
    <3>1. UNCHANGED <<world, events, tally>>
      BY <2>2 DEF Open
    <3> QED
      BY <2>2, <3>1, OpenScope
  <2>3. ASSUME NEW op \in Ops, Unserved(op)
        PROVE  UNCHANGED <<world, events, tally>> /\ (Scoped => Scoped')
    BY <2>3, KeepsScope DEF Unserved
  <2> QED
    BY <1>5, <2>1, <2>2, <2>3 DEF Program
<1> QED
  BY <1>1, <1>2, <1>3, <1>4, <1>5 DEF CliNext

LEMMA NextScope == ExitInv /\ Scoped /\ [CliNext]_cliVars => Scoped'
<1> SUFFICES ASSUME ExitInv, Scoped, [CliNext]_cliVars PROVE Scoped'
  OBVIOUS
<1>1. ASSUME NEW op \in Ops, Call(op) PROVE Scoped'
  BY <1>1, KeepsScope DEF Call
<1>2. CASE UNCHANGED cliVars
  BY <1>2, KeepsScope DEF cliVars, clientVars
<1> QED
  BY <1>1, <1>2, StepFacts

(* A scoped client changes the native scheduler only if its caller, or for    *)
(* want of a word of his the configuration, did not turn it off, writes under *)
(* the root that was stated, else configured, empties only the logs it lists  *)
(* there where the two do not disagree, and a closed client reaches nothing:  *)
(* every call, by any command or program, takes these from the scope its      *)
(* client was opened with, whatever the configuration's layers say.           *)
THEOREM WithinScope == CliSpec => StaysWithinScope
<1>1. ExitInv /\ Scoped /\ [CliNext]_cliVars => [StepWithin]_clientVars
  <2> SUFFICES ASSUME ExitInv, Scoped, CliNext PROVE StepWithin
    BY DEF cliVars
  <2>1. ASSUME UNCHANGED <<world, events, tally>> PROVE StepWithin
    BY <2>1 DEF StepWithin
  <2> QED
    BY <2>1, StepFacts, CallWithin
<1>2. CliInit => ExitInv /\ Scoped
  BY InitExit, InitScope
<1>3. ExitInv /\ Scoped /\ [CliNext]_cliVars => (ExitInv /\ Scoped)'
  BY NextExit, NextScope
<1> QED
  BY <1>1, <1>2, <1>3, PTL DEF CliSpec, StaysWithinScope, StepWithin
=============================================================================
