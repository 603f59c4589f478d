---------------------------- MODULE Accounts_proofs ----------------------------
(***************************************************************************)
(* Proofs about Accounts, for any number of requests and of tries, and any *)
(* bounds on codes, logins and failures.                                   *)
(*                                                                         *)
(*   TypeInv   the types, with those of the tasks: what a request in       *)
(*             progress knows, by its next step;                           *)
(*   SagaInv   who holds a login while registrations interleave, from      *)
(*             which RowHasLogin and NoHalfAccount follow;                 *)
(*   GuessInv  where the wrong tries of a live code are: counted, about to *)
(*             be, or lost, from which GuessesBounded follows.             *)
(***************************************************************************)
EXTENDS Accounts, FiniteSetTheorems, TLAPS

\* What a request can be about to do, when n codes were issued and l logins made.
Task(n, l) ==
    [step : {"idle", "create", "password"}]
        \cup [step : {"send", "store", "unsend", "consume"}, purpose : Purpose]
        \cup [step : {"verify"}, purpose : Purpose, code : Code]
        \cup [step : {"mail"}, purpose : Purpose, code : 1 .. n]
        \cup [step : {"wrong"}, purpose : Purpose, seen : Nat]
        \cup [step : {"setup", "row", "rollback"}, login : 1 .. l]
        \cup [step : {"keycloak", "status"}, status : {"ACTIVE", "DISABLED"}]

\* A record of codes, whatever code it holds.
CodeRecord == [code : Nat, attempts : Nat, waiting : BOOLEAN, expired : BOOLEAN]

\* The codes: a live one was issued, and only those were mailed.
CodesOK ==
    /\ record \in [Purpose -> CodeRecord]
    /\ \A p \in Purpose :
          /\ record[p].code <= issued
          /\ record[p].code = 0 => record[p] = NoRecord
    /\ issued \in Code
    /\ mailed \subseteq 1 .. issued
    /\ guesses \in [1 .. MaxCodes -> 0 .. MaxGuesses]

\* The account: login and row have ids of logins that were created.
AccountOK ==
    /\ logins \in 0 .. MaxLogins
    /\ login \in 0 .. logins /\ row \in 0 .. logins
    /\ enabled \in BOOLEAN
    /\ status \in {"ACTIVE", "DISABLED"}
    /\ unheard \in BOOLEAN

\* The types, with those of the tasks.
TypeInv ==
    /\ CodesOK
    /\ AccountOK
    /\ task \in [Client -> Task(issued, logins)]
    /\ faults \in 0 .. MaxFaults

\* What the assumption says of each constant.
LEMMA Bounds ==
    /\ MaxCodes \in Nat /\ MaxGuesses \in Nat /\ MaxLogins \in Nat /\ MaxFaults \in Nat
    /\ OtpMaxAttempts \in Nat /\ OtpMaxAttempts > 0
    /\ Purpose = {"REGISTRATION", "PASSWORD_RESET"} /\ IsFiniteSet(Client)
BY AccountsAssumption

USE Bounds

\* The fields of a task, by its step.
LEMMA TaskFields ==
    ASSUME NEW n \in Nat, NEW l \in Nat, NEW t \in Task(n, l)
    PROVE  /\ t.step \in Step
           /\ t.step \in {"send", "store", "mail", "unsend", "verify", "wrong", "consume"} => t.purpose \in Purpose
           /\ t.step = "verify" => t.code \in Code
           /\ t.step = "mail" => t.code \in 1 .. n
           /\ t.step = "wrong" => t.seen \in Nat
           /\ t.step \in {"setup", "row", "rollback"} => t.login \in 1 .. l
           /\ t.step \in {"keycloak", "status"} => t.status \in {"ACTIVE", "DISABLED"}
BY DEF Task, Step

\* The forms of the tasks that the operations go on with.
LEMMA TaskForms ==
    ASSUME NEW n \in Nat, NEW l \in Nat
    PROVE  /\ Idle \in Task(n, l)
           /\ [step |-> "create"] \in Task(n, l) /\ [step |-> "password"] \in Task(n, l)
           /\ \A p \in Purpose, step \in {"send", "store", "unsend", "consume"} :
                 [step |-> step, purpose |-> p] \in Task(n, l)
           /\ \A p \in Purpose, code \in Code : [step |-> "verify", purpose |-> p, code |-> code] \in Task(n, l)
           /\ \A p \in Purpose, code \in 1 .. n : [step |-> "mail", purpose |-> p, code |-> code] \in Task(n, l)
           /\ \A p \in Purpose, seen \in Nat : [step |-> "wrong", purpose |-> p, seen |-> seen] \in Task(n, l)
           /\ \A step \in {"setup", "row", "rollback"}, id \in 1 .. l : [step |-> step, login |-> id] \in Task(n, l)
           /\ \A step \in {"keycloak", "status"}, s \in {"ACTIVE", "DISABLED"} :
                 [step |-> step, status |-> s] \in Task(n, l)
BY DEF Task, Idle

\* A task that goes on with what it has.
LEMMA TaskMoves ==
    ASSUME NEW n \in Nat, NEW l \in Nat, NEW t \in Task(n, l)
    PROVE  /\ t.step = "send" => [t EXCEPT !.step = "store"] \in Task(n, l)
           /\ t.step = "setup" => [t EXCEPT !.step = "row"] \in Task(n, l)
           /\ t.step = "row" => [t EXCEPT !.step = "rollback"] \in Task(n, l)
           /\ t.step = "keycloak" => [t EXCEPT !.step = "status"] \in Task(n, l)
BY DEF Task

\* Tasks stay what they are when more is issued.
LEMMA TaskGrows ==
    ASSUME NEW n \in Nat, NEW l \in Nat, NEW m \in Nat, NEW k \in Nat, n <= m, l <= k
    PROVE  Task(n, l) \subseteq Task(m, k)
<1>1. 1 .. n \subseteq 1 .. m /\ 1 .. l \subseteq 1 .. k
  OBVIOUS
<1> QED
  BY <1>1 DEF Task

\* A step of one request.
LEMMA Goes ==
    ASSUME TypeInv, NEW c \in Client, NEW next, Go(c, next),
           issued' \in Nat, logins' \in Nat, issued' >= issued, logins' >= logins,
           next \in Task(issued', logins')
    PROVE  task' \in [Client -> Task(issued', logins')]
<1>1. issued \in Nat /\ logins \in Nat
  BY DEF TypeInv, CodesOK, AccountOK, Code
<1>2. Task(issued, logins) \subseteq Task(issued', logins')
  BY <1>1, TaskGrows
<1> QED
  BY <1>2 DEF TypeInv, Go

\* A step of one request that leaves the codes alone, or the account.
LEMMA Step_Types ==
    ASSUME TypeInv, NEW c \in Client, NEW next, Go(c, next),
           CodesOK', AccountOK', issued' >= issued, logins' >= logins,
           next \in Task(issued', logins'), faults' \in 0 .. MaxFaults
    PROVE  TypeInv'
<1>1. issued' \in Nat /\ logins' \in Nat
  BY DEF CodesOK, AccountOK, Code
<1> QED
  BY <1>1, Goes DEF TypeInv

\* The part of the state that a step leaves alone keeps its types.
LEMMA Same_Types ==
    ASSUME TypeInv
    PROVE  /\ issued \in Nat /\ logins \in Nat
           /\ UNCHANGED codeVars => CodesOK' /\ issued' = issued /\ issued' >= issued
           /\ UNCHANGED accountVars => AccountOK' /\ logins' = logins /\ logins' >= logins
           /\ UNCHANGED faults => faults' \in 0 .. MaxFaults
<1>1. issued \in Nat /\ logins \in Nat
  BY DEF TypeInv, CodesOK, AccountOK, Code
<1>2. UNCHANGED codeVars => CodesOK' /\ issued' = issued
  BY DEF TypeInv, CodesOK, codeVars
<1>3. UNCHANGED accountVars => AccountOK' /\ logins' = logins
  BY DEF TypeInv, AccountOK, accountVars
<1>4. UNCHANGED faults => faults' \in 0 .. MaxFaults
  BY DEF TypeInv
<1> QED
  BY <1>1, <1>2, <1>3, <1>4

\* A step that changes a task and nothing else.
LEMMA Goes_Types ==
    ASSUME TypeInv, NEW c \in Client, NEW next \in Task(issued, logins), Go(c, next),
           UNCHANGED <<codeVars, accountVars, faults>>
    PROVE  TypeInv'
BY Same_Types, Step_Types

\* The beginning of a request.
LEMMA Start_Types == ASSUME TypeInv, NEW c \in Client, Start(c) PROVE TypeInv'
<1>1. issued \in Nat /\ logins \in Nat
  BY Same_Types
<1>2. PICK next \in Task(issued, logins) : Go(c, next) /\ UNCHANGED <<codeVars, accountVars, faults>>
  <2>1. ASSUME NEW p \in Purpose, StartSend(c, p) 
        PROVE  \E next \in Task(issued, logins) : Go(c, next) /\ UNCHANGED <<codeVars, accountVars, faults>>
    BY <1>1, <2>1, TaskForms DEF StartSend
  <2>2. ASSUME NEW code \in Code, StartRegister(c, code) \/ StartReset(c, code)
        PROVE  \E next \in Task(issued, logins) : Go(c, next) /\ UNCHANGED <<codeVars, accountVars, faults>>
    BY <1>1, <2>2, TaskForms DEF StartRegister, StartReset
  <2>3. ASSUME NEW s \in {"ACTIVE", "DISABLED"}, StartStatus(c, s)
        PROVE  \E next \in Task(issued, logins) : Go(c, next) /\ UNCHANGED <<codeVars, accountVars, faults>>
    BY <1>1, <2>3, TaskForms DEF StartStatus
  <2> QED
    BY <2>1, <2>2, <2>3 DEF Start
<1> QED
  BY <1>2, Goes_Types

\* What a request begins with.
LEMMA Start_Goes ==
    ASSUME NEW c \in Client, Start(c)
    PROVE  \E next : Go(c, next) /\ next.step \in {"send", "verify", "keycloak"}
<1>1. ASSUME NEW p \in Purpose, StartSend(c, p)
      PROVE  \E next : Go(c, next) /\ next.step \in {"send", "verify", "keycloak"}
  <2> DEFINE next == [step |-> "send", purpose |-> p]
  <2>1. Go(c, next) /\ next.step = "send"
    BY <1>1 DEF StartSend
  <2> QED
    BY <2>1
<1>2. ASSUME NEW code \in Code, StartRegister(c, code)
      PROVE  \E next : Go(c, next) /\ next.step \in {"send", "verify", "keycloak"}
  <2> DEFINE next == [step |-> "verify", purpose |-> "REGISTRATION", code |-> code]
  <2>1. Go(c, next) /\ next.step = "verify"
    BY <1>2 DEF StartRegister
  <2> QED
    BY <2>1
<1>3. ASSUME NEW code \in Code, StartReset(c, code)
      PROVE  \E next : Go(c, next) /\ next.step \in {"send", "verify", "keycloak"}
  <2> DEFINE next == [step |-> "verify", purpose |-> "PASSWORD_RESET", code |-> code]
  <2>1. Go(c, next) /\ next.step = "verify"
    BY <1>3 DEF StartReset
  <2> QED
    BY <2>1
<1>4. ASSUME NEW s \in {"ACTIVE", "DISABLED"}, StartStatus(c, s)
      PROVE  \E next : Go(c, next) /\ next.step \in {"send", "verify", "keycloak"}
  <2> DEFINE next == [step |-> "keycloak", status |-> s]
  <2>1. Go(c, next) /\ next.step = "keycloak"
    BY <1>4 DEF StartStatus
  <2> QED
    BY <2>1
<1> QED
  BY <1>1, <1>2, <1>3, <1>4 DEF Start

\* Steps of a request that only move it on.
LEMMA Moves_Types ==
    ASSUME TypeInv, NEW c \in Client, CheckTimer(c) \/ MailFails(c) \/ SetUp(c) \/ SetUpFails(c) \/ SetPassword(c)
    PROVE  TypeInv'
<1> DEFINE t == task[c]
<1>1. issued \in Nat /\ logins \in Nat /\ t \in Task(issued, logins)
  BY Same_Types DEF TypeInv
<1>2. \E next \in Task(issued, logins) : Go(c, next)
  <2>1. CASE CheckTimer(c)
    BY <1>1, <2>1, TaskFields, TaskForms, TaskMoves DEF CheckTimer
  <2>2. CASE MailFails(c)
    BY <1>1, <2>2, TaskFields, TaskForms DEF MailFails
  <2>3. CASE SetUp(c)
    BY <1>1, <2>3, TaskFields, TaskForms, TaskMoves DEF SetUp
  <2>4. CASE SetUpFails(c)
    BY <1>1, <2>4, TaskFields, TaskForms DEF SetUpFails
  <2>5. CASE SetPassword(c)
    BY <1>1, <2>5, TaskForms DEF SetPassword
  <2> QED
    BY <2>1, <2>2, <2>3, <2>4, <2>5
<1>3. UNCHANGED <<codeVars, accountVars, faults>>
  BY DEF CheckTimer, MailFails, SetUp, SetUpFails, SetPassword
<1> QED
  BY <1>2, <1>3, Goes_Types

\* Steps of a request that write a code.
LEMMA Codes_Types ==
    ASSUME TypeInv, NEW c \in Client,
           StoreCode(c) \/ MailCode(c) \/ DropCode(c) \/ Verify(c, Verified(c)) \/ CountTry(c) \/ Consume(c)
    PROVE  TypeInv'
<1> DEFINE t == task[c]
           p == t.purpose
<1>0. /\ issued \in Nat /\ logins \in Nat /\ t \in Task(issued, logins) /\ CodesOK
      /\ logins' = logins /\ AccountOK' /\ faults' \in 0 .. MaxFaults /\ logins' >= logins
  <2>1. UNCHANGED accountVars /\ UNCHANGED faults
    BY DEF StoreCode, MailCode, DropCode, Verify, CountTry, Consume
  <2> QED
    BY <2>1, Same_Types DEF TypeInv
<1>1. p \in Purpose
  BY <1>0, TaskFields DEF StoreCode, MailCode, DropCode, Verify, CountTry, Consume, TypeInv
<1>2. CASE StoreCode(c)
  <2> DEFINE r == [code |-> issued + 1, attempts |-> 0, waiting |-> TRUE, expired |-> FALSE]
             next == [step |-> "mail", purpose |-> p, code |-> issued + 1]
  <2>1. issued' = issued + 1 /\ issued < MaxCodes /\ record' = [record EXCEPT ![p] = r]
        /\ mailed' = mailed /\ guesses' = guesses /\ Go(c, next)
    BY <1>2 DEF StoreCode
  <2>2. r \in CodeRecord /\ r.code = issued + 1
    BY <1>0 DEF CodeRecord
  <2> HIDE DEF r
  <2>3. issued' \in Code /\ issued' \in Nat /\ 1 .. issued \subseteq 1 .. issued'
    BY <1>0, <2>1 DEF Code
  <2>4. CodesOK'
    BY <1>0, <1>1, <2>1, <2>2, <2>3 DEF CodesOK, CodeRecord
  <2>5. next \in Task(issued', logins')
    BY <1>0, <1>1, <2>1, <2>3, TaskForms
  <2> QED
    BY <1>0, <2>1, <2>3, <2>4, <2>5, Step_Types
<1>3. CASE MailCode(c)
  <2>1. t.code \in 1 .. issued
    BY <1>0, <1>3, TaskFields DEF MailCode
  <2>2. mailed' = mailed \cup {t.code} /\ UNCHANGED <<record, issued, guesses>> /\ Go(c, Idle)
    BY <1>3 DEF MailCode, Finish
  <2>3. mailed' \subseteq 1 .. issued
    BY <1>0, <2>1, <2>2 DEF CodesOK
  <2>4. CodesOK' /\ issued' = issued /\ issued' >= issued
    BY <1>0, <2>2, <2>3 DEF CodesOK
  <2> QED
    BY <1>0, <2>2, <2>4, TaskForms, Step_Types
<1>4. CASE DropCode(c) \/ Consume(c)
  <2>1. record' = [record EXCEPT ![p] = NoRecord] /\ UNCHANGED <<issued, mailed, guesses>> /\ Go(c, Idle)
    BY <1>4 DEF DropCode, Consume, Finish
  <2>2. NoRecord \in CodeRecord /\ NoRecord.code = 0
    BY DEF NoRecord, CodeRecord
  <2>3. CodesOK' /\ issued' >= issued
    BY <1>0, <1>1, <2>1, <2>2 DEF CodesOK
  <2> QED
    BY <1>0, <2>1, <2>3, TaskForms, Step_Types
<1>5. CASE Verify(c, Verified(c))
  <2>1. UNCHANGED <<record, issued, mailed>> /\ record[p] \in CodeRecord
    BY <1>0, <1>1, <1>5 DEF Verify, CodesOK
  <2>2. guesses' \in [1 .. MaxCodes -> 0 .. MaxGuesses]
    <3>1. CASE guesses' = guesses
      BY <1>0, <3>1 DEF CodesOK
    <3>2. CASE guesses' # guesses
      <4>1. record[p].code # 0 /\ guesses[record[p].code] < MaxGuesses
            /\ guesses' = [guesses EXCEPT ![record[p].code] = @ + 1]
        BY <1>5, <3>2 DEF Verify, Live
      <4>2. record[p].code \in 1 .. MaxCodes
        BY <1>0, <1>1, <2>1, <4>1 DEF CodesOK, CodeRecord, Code
      <4>3. guesses \in [1 .. MaxCodes -> 0 .. MaxGuesses]
        BY <1>0 DEF CodesOK
      <4>4. guesses[record[p].code] + 1 \in 0 .. MaxGuesses
        BY <4>1, <4>2, <4>3
      <4> QED
        BY <4>1, <4>2, <4>3, <4>4
    <3> QED
      BY <3>1, <3>2
  <2>3. CodesOK' /\ issued' = issued /\ issued' >= issued
    BY <1>0, <2>1, <2>2 DEF CodesOK
  <2>4. \E next \in Task(issued, logins) : Go(c, next)
    <3>1. record[p].attempts \in Nat
      BY <2>1 DEF CodeRecord
    <3>2. Verified(c) \in Task(issued, logins)
      BY <1>0, TaskForms DEF Verified
    <3> QED
      BY <1>0, <1>1, <1>5, <3>1, <3>2, TaskForms DEF Verify, Finish
  <2> QED
    BY <1>0, <2>3, <2>4, Step_Types
<1>6. CASE CountTry(c)
  <2>1. record[p] \in CodeRecord
    BY <1>0, <1>1 DEF CodesOK
  <2> DEFINE r == [record[p] EXCEPT !.attempts = @ + 1]
  <2>2. r \in CodeRecord /\ r.code = record[p].code
    BY <2>1 DEF CodeRecord
  <2>3. /\ record' = record \/ (record[p].code # 0 /\ record' = [record EXCEPT ![p] = r])
        /\ UNCHANGED <<issued, mailed, guesses>> /\ Go(c, Idle)
    BY <1>0, <1>1, <1>6 DEF CountTry, Finish, CodesOK
  <2> HIDE DEF r
  <2>4. CodesOK' /\ issued' >= issued
    BY <1>0, <1>1, <2>2, <2>3 DEF CodesOK
  <2> QED
    BY <1>0, <2>3, <2>4, TaskForms, Step_Types
<1> QED
  BY <1>2, <1>3, <1>4, <1>5, <1>6

\* Steps of a request that write the account.
LEMMA Account_Types ==
    ASSUME TypeInv, NEW c \in Client,
           \/ CreateLogin(c) \/ CreateRow(c) \/ CommitLost(c) \/ DeleteLogin(c)
           \/ SwitchLogin(c) \/ SwitchStatus(c)
    PROVE  TypeInv'
<1> DEFINE t == task[c]
<1>0. /\ issued \in Nat /\ logins \in Nat /\ t \in Task(issued, logins) /\ AccountOK
      /\ issued' = issued /\ CodesOK' /\ issued' >= issued /\ faults' \in 0 .. MaxFaults
  <2>1. UNCHANGED codeVars
    BY DEF CreateLogin, CreateRow, CommitLost, DeleteLogin, SwitchLogin, SwitchStatus
  <2>2. faults' \in 0 .. MaxFaults
    BY DEF CreateLogin, CreateRow, CommitLost, DeleteLogin, SwitchLogin, SwitchStatus, TypeInv
  <2> QED
    BY <2>1, <2>2, Same_Types DEF TypeInv
<1>1. CASE CreateLogin(c)
  <2>1. CASE login # 0
    <3>1. Go(c, Idle) /\ UNCHANGED accountVars
      BY <1>1, <2>1 DEF CreateLogin, Finish, accountVars
    <3> QED
      BY <1>0, <3>1, Same_Types, TaskForms, Step_Types
  <2>2. CASE login = 0
    <3> DEFINE next == [step |-> "setup", login |-> logins + 1]
    <3>1. /\ logins < MaxLogins /\ logins' = logins + 1 /\ login' = logins + 1 /\ enabled' = TRUE
          /\ UNCHANGED <<row, status, unheard>> /\ Go(c, next)
      BY <1>1, <2>2 DEF CreateLogin
    <3>2. AccountOK' /\ logins' >= logins /\ logins' \in Nat
      BY <1>0, <3>1 DEF AccountOK
    <3>3. next \in Task(issued', logins')
      BY <1>0, <3>1, <3>2, TaskForms
    <3> QED
      BY <1>0, <3>1, <3>2, <3>3, Step_Types
  <2> QED
    BY <2>1, <2>2
<1>2. CASE CreateRow(c)
  <2>1. t.login \in 1 .. logins
    BY <1>0, <1>2, TaskFields DEF CreateRow
  <2>2. AccountOK' /\ logins' = logins /\ logins' >= logins
    BY <1>0, <1>2, <2>1 DEF AccountOK, CreateRow
  <2>3. \E next \in Task(issued, logins) : Go(c, next)
    BY <1>0, <1>2, <2>1, TaskForms, TaskMoves DEF CreateRow
  <2> QED
    BY <1>0, <2>2, <2>3, Step_Types
<1>3. CASE DeleteLogin(c)
  <2>1. logins' = logins /\ UNCHANGED <<row, status, unheard>> /\ Go(c, Idle)
    BY <1>3 DEF DeleteLogin, Finish
  <2>2. (login' = 0 /\ enabled' = FALSE) \/ UNCHANGED <<login, enabled>>
    BY <1>3 DEF DeleteLogin
  <2>3. login' \in 0 .. logins
    BY <1>0, <2>2 DEF AccountOK
  <2>4. enabled' \in BOOLEAN
    BY <1>0, <2>2 DEF AccountOK
  <2>5. AccountOK' /\ logins' >= logins
    BY <1>0, <2>1, <2>3, <2>4 DEF AccountOK
  <2> QED
    BY <1>0, <2>1, <2>5, TaskForms, Step_Types
<1>4. CASE SwitchLogin(c)
  <2>1. enabled' \in BOOLEAN
    BY <1>0, <1>4, Zenon DEF AccountOK, SwitchLogin
  <2>2. AccountOK' /\ logins' = logins /\ logins' >= logins
    BY <1>0, <1>4, <2>1 DEF AccountOK, SwitchLogin
  <2>3. \E next \in Task(issued, logins) : Go(c, next)
    BY <1>0, <1>4, TaskForms, TaskMoves DEF SwitchLogin, Finish
  <2> QED
    BY <1>0, <2>2, <2>3, Step_Types
<1>5. CASE SwitchStatus(c)
  <2>1. t.status \in {"ACTIVE", "DISABLED"}
    BY <1>0, <1>5, TaskFields DEF SwitchStatus
  <2>2. AccountOK' /\ logins' = logins /\ logins' >= logins /\ Go(c, Idle)
    BY <1>0, <1>5, <2>1 DEF AccountOK, SwitchStatus, Finish
  <2> QED
    BY <1>0, <2>2, TaskForms, Step_Types
<1>6. CASE CommitLost(c)
  <2> DEFINE next == [step |-> "rollback", login |-> t.login]
  <2>1. t.login \in 1 .. logins
    BY <1>0, <1>6, TaskFields DEF CommitLost
  <2>2. /\ row' = t.login /\ unheard' = TRUE /\ UNCHANGED <<login, enabled, logins, status>>
        /\ Go(c, next)
    BY <1>6 DEF CommitLost
  <2>3. unheard' \in BOOLEAN
    BY <2>2, Zenon
  <2>4. AccountOK' /\ logins' >= logins
    BY <1>0, <2>1, <2>2, <2>3 DEF AccountOK
  <2>5. next \in Task(issued', logins')
    BY <1>0, <2>1, <2>2, TaskForms
  <2> QED
    BY <1>0, <2>2, <2>4, <2>5, Step_Types
<1> QED
  BY <1>1, <1>2, <1>3, <1>4, <1>5, <1>6

\* The failure of a request.
LEMMA Fails_Types == ASSUME TypeInv, NEW c \in Client, Fails(c) PROVE TypeInv'
<1>1. Go(c, Idle) /\ UNCHANGED codeVars /\ UNCHANGED accountVars
  BY DEF Fails, Finish
<1>2. faults' \in 0 .. MaxFaults
  BY DEF Fails, TypeInv
<1> QED
  BY <1>1, <1>2, Same_Types, TaskForms, Step_Types

\* The end of a resend timer, or of the life of a code.
LEMMA Time_Types == ASSUME TypeInv, NEW p \in Purpose, TimerEnds(p) \/ CodeExpires(p) PROVE TypeInv'
<1>0. CodesOK /\ record[p] \in CodeRecord
  BY DEF TypeInv, CodesOK
<1> DEFINE first == [record[p] EXCEPT !.waiting = FALSE]
           second == [record[p] EXCEPT !.expired = TRUE, !.waiting = FALSE]
<1>1. /\ first \in CodeRecord /\ second \in CodeRecord
      /\ first.code = record[p].code /\ second.code = record[p].code
  BY <1>0 DEF CodeRecord
<1>2. /\ record' = [record EXCEPT ![p] = first] \/ record' = [record EXCEPT ![p] = second]
      /\ UNCHANGED <<issued, mailed, guesses, accountVars, task, faults>>
  BY <1>0 DEF TimerEnds, CodeExpires, CodesOK
<1>4. record[p].code # 0
  BY <1>0 DEF TimerEnds, CodeExpires, CodesOK, NoRecord
<1> HIDE DEF first, second
<1>3. CodesOK'
  BY <1>0, <1>1, <1>2, <1>4 DEF CodesOK
<1> QED
  BY <1>2, <1>3 DEF TypeInv, AccountOK, accountVars

\* Every step keeps the types.
LEMMA Next_Types == ASSUME TypeInv, [Next]_vars PROVE TypeInv'
<1>1. CASE UNCHANGED vars
  BY <1>1 DEF vars, TypeInv, CodesOK, AccountOK
<1>2. CASE Next
  BY <1>2, Start_Types, Moves_Types, Codes_Types, Account_Types, Fails_Types, Time_Types DEF Next, Handle
<1> QED
  BY <1>1, <1>2

\* The initial state has them.
LEMMA Init_Types == ASSUME Init PROVE TypeInv
<1>1. CodesOK
  BY DEF Init, CodesOK, NoRecord, CodeRecord, Code
<1>2. AccountOK
  <2>1. login = 0 /\ enabled = FALSE /\ logins = 0 /\ row = 0 /\ status = "ACTIVE"
    BY DEF Init
  <2>2. 0 \in 0 .. MaxLogins /\ 0 \in 0 .. 0
    OBVIOUS
  <2>3. enabled \in BOOLEAN /\ unheard \in BOOLEAN
    BY Zenon DEF Init
  <2> QED
    BY <2>1, <2>2, <2>3 DEF AccountOK
<1>3. task \in [Client -> Task(issued, logins)]
  BY TaskForms DEF Init
<1> QED
  BY <1>1, <1>2, <1>3 DEF Init, TypeInv

\* So they hold throughout.
LEMMA Spec_TypeInv == Spec => []TypeInv
BY Init_Types, Next_Types, PTL DEF Spec

\* Types; a live code is one that was issued, a login one that was created.
THEOREM Spec_TypeOK == Spec => []TypeOK
<1>1. TypeInv => TypeOK
  <2> SUFFICES ASSUME TypeInv PROVE TypeOK
    OBVIOUS
  <2>1. issued \in Nat /\ logins \in Nat
    BY Same_Types
  <2>2. \A c \in Client : task[c].step \in Step
    BY <2>1, TaskFields DEF TypeInv
  <2>3. \A p \in Purpose :
           record[p] \in [code : 0 .. issued, attempts : Nat, waiting : BOOLEAN, expired : BOOLEAN]
    BY <2>1 DEF TypeInv, CodesOK, CodeRecord
  <2> QED
    BY <2>2, <2>3 DEF TypeInv, CodesOK, AccountOK, TypeOK
<1> QED
  BY <1>1, Spec_TypeInv, PTL
-----------------------------------------------------------------------------
(***************************************************************************)
(* Registration.                                                           *)
(***************************************************************************)
\* A registration that has a login of its own, to finish or to take back.
Holding == {"setup", "row", "rollback"}
Holds(c) == task[c].step \in Holding

\* RowHasLogin while nobody missed the answer of a commit.
LoginOfRow == row # 0 => login = row

\* A registration that goes on has the login Keycloak has, and there is no row
\* meanwhile; one that goes back does not have the row's login.  No two have the
\* same.  A login without a row is some registration's, as long as nothing broke.
SagaInv ==
    /\ LoginOfRow
    /\ \A c \in Client : task[c].step \in {"setup", "row"} => login = task[c].login /\ row = 0
    /\ \A c \in Client : task[c].step = "rollback" => row # task[c].login
    /\ \A b, c \in Client : Holds(b) /\ Holds(c) /\ task[b].login = task[c].login => b = c
    /\ faults = 0 /\ login # 0 => row = login \/ \E c \in Client : Holds(c) /\ task[c].login = login

\* What a step of request c makes of its task, and leaves of the others.
LEMMA GoesTo ==
    ASSUME TypeInv, NEW c \in Client, NEW next, Go(c, next)
    PROVE  task'[c] = next /\ \A b \in Client : b # c => task'[b] = task[b]
BY DEF TypeInv, Go

\* A step of a request that does not register.
LEMMA Aside_Saga ==
    ASSUME TypeInv, SagaInv, NEW c \in Client, ~Holds(c), NEW next, Go(c, next), next.step \notin Holding,
           login' = login, row' = row, faults' = faults
    PROVE  SagaInv'
<1>1. task'[c] = next /\ \A b \in Client : b # c => task'[b] = task[b]
  BY GoesTo
<1>2. \A b \in Client : Holds(b)' <=> Holds(b)
  BY <1>1 DEF Holds
<1>3. \A b \in Client : Holds(b) => task'[b] = task[b]
  BY <1>1
<1> QED
  BY <1>1, <1>2, <1>3 DEF SagaInv, LoginOfRow, Holds, Holding

\* Which requests those are.
LEMMA Aside ==
    ASSUME TypeInv, NEW c \in Client,
           \/ Start(c) \/ CheckTimer(c) \/ StoreCode(c) \/ MailCode(c) \/ MailFails(c) \/ DropCode(c)
           \/ Verify(c, Verified(c)) \/ CountTry(c) \/ Consume(c)
           \/ SetPassword(c) \/ SwitchLogin(c) \/ SwitchStatus(c)
    PROVE  /\ ~Holds(c) /\ login' = login /\ row' = row /\ faults' = faults
           /\ \E next : Go(c, next) /\ next.step \notin Holding
<1>0. Idle.step = "idle" /\ (task[c] = Idle => task[c].step = "idle")
  BY DEF Idle
<1>1. CASE Start(c)
  <2>1. task[c] = Idle /\ login' = login /\ row' = row /\ faults' = faults
    BY <1>1 DEF Start, StartSend, StartRegister, StartReset, StartStatus, accountVars
  <2>2. \E next : Go(c, next) /\ next.step \in {"send", "verify", "keycloak"}
    BY <1>1, Start_Goes
  <2> QED
    BY <1>0, <2>1, <2>2 DEF Holds, Holding
<1>2. CASE StoreCode(c) \/ MailCode(c) \/ MailFails(c) \/ DropCode(c) \/ CountTry(c) \/ Consume(c)
           \/ SwitchStatus(c) \/ SetPassword(c)
  BY <1>0, <1>2 DEF StoreCode, MailCode, MailFails, DropCode, CountTry, Consume, SwitchStatus, SetPassword,
     Finish, Holds, Holding, accountVars
<1>3. CASE Verify(c, Verified(c))
  BY <1>0, <1>3 DEF Verify, Verified, Finish, Holds, Holding, accountVars
<1>4. CASE CheckTimer(c) \/ SwitchLogin(c)
  <2>1. issued \in Nat /\ logins \in Nat /\ task[c] \in Task(issued, logins)
    BY Same_Types DEF TypeInv
  <2>2. [task[c] EXCEPT !.step = "store"].step = "store" /\ [task[c] EXCEPT !.step = "status"].step = "status"
    BY <2>1 DEF Task
  <2> QED
    BY <1>0, <1>4, <2>2 DEF CheckTimer, SwitchLogin, Finish, Holds, Holding, accountVars
<1> QED
  BY <1>1, <1>2, <1>3, <1>4

\* Steps of a registration with a login of its own.
LEMMA Holding_Saga ==
    ASSUME TypeInv, SagaInv, NEW c \in Client,
           CreateLogin(c) \/ SetUp(c) \/ CreateRow(c) \/ SetUpFails(c) \/ DeleteLogin(c)
    PROVE  SagaInv'
<1> DEFINE t == task[c]
<1>0. /\ issued \in Nat /\ logins \in Nat /\ t \in Task(issued, logins)
      /\ login \in 0 .. logins /\ row \in 0 .. logins
      /\ \A b \in Client : Holds(b) => task[b].login \in 1 .. logins
      /\ Idle.step = "idle"
  <2>1. issued \in Nat /\ logins \in Nat
    BY Same_Types
  <2>2. \A b \in Client : Holds(b) => task[b].login \in 1 .. logins
    BY <2>1, TaskFields DEF Holds, Holding, TypeInv
  <2> QED
    BY <2>1, <2>2 DEF TypeInv, AccountOK, Idle
<1>1. CASE CreateLogin(c)
  <2>1. CASE login # 0
    <3>1. Go(c, Idle) /\ login' = login /\ row' = row /\ faults' = faults /\ ~Holds(c)
      BY <1>1, <2>1 DEF CreateLogin, Finish, Holds, Holding
    <3> QED
      BY <1>0, <3>1, Aside_Saga DEF Holding
  <2>2. CASE login = 0
    <3> DEFINE next == [step |-> "setup", login |-> logins + 1]
    <3>1. /\ login' = logins + 1 /\ row' = row /\ faults' = faults /\ Go(c, next) /\ t.step = "create"
      BY <1>1, <2>2 DEF CreateLogin
    <3>2. task'[c] = next /\ \A b \in Client : b # c => task'[b] = task[b]
      BY <3>1, GoesTo
    <3>3. row = 0 /\ \A b \in Client : task[b].step \notin {"setup", "row"}
      <4>1. row = 0
        BY <2>2 DEF SagaInv, LoginOfRow
      <4>2. ASSUME NEW b \in Client, task[b].step \in {"setup", "row"} PROVE FALSE
        BY <1>0, <2>2, <4>2 DEF SagaInv, Holds, Holding
      <4> QED
        BY <4>1, <4>2
    <3>4. next.step = "setup" /\ next.login = logins + 1
      OBVIOUS
    <3> HIDE DEF next
    <3>5. LoginOfRow' /\ \A b \in Client : task'[b].step \in {"setup", "row"} => login' = task'[b].login /\ row' = 0
      BY <3>1, <3>2, <3>3, <3>4 DEF LoginOfRow
    <3>6. \A b \in Client : task'[b].step = "rollback" => row' # task'[b].login
      BY <3>1, <3>2, <3>4 DEF SagaInv
    <3>7. \A a, b \in Client : Holds(a)' /\ Holds(b)' /\ task'[a].login = task'[b].login => a = b
      <4>1. ASSUME NEW b \in Client, b # c, Holds(b)' PROVE task'[b].login # logins + 1 /\ Holds(b)
        BY <1>0, <3>2, <4>1 DEF Holds
      <4> QED
        BY <3>2, <3>4, <4>1 DEF SagaInv
    <3>8. Holds(c)' /\ task'[c].login = login'
      BY <3>1, <3>2, <3>4 DEF Holds, Holding
    <3> QED
      BY <3>5, <3>6, <3>7, <3>8 DEF SagaInv
  <2> QED
    BY <2>1, <2>2
<1>2. CASE SetUp(c) \/ SetUpFails(c)
  <2>1. PICK next : Go(c, next) /\ next.step \in {"row", "rollback"} /\ next.login = t.login
                    /\ (next.step = "row" => t.step = "setup")
    <3>1. CASE SetUp(c)
      <4>1. Go(c, [t EXCEPT !.step = "row"]) /\ t.step = "setup"
        BY <3>1 DEF SetUp
      <4>2. [t EXCEPT !.step = "row"].step = "row" /\ [t EXCEPT !.step = "row"].login = t.login
        BY <1>0, <4>1 DEF Task
      <4> QED
        BY <4>1, <4>2
    <3>2. CASE SetUpFails(c)
      BY <3>2 DEF SetUpFails
    <3> QED
      BY <1>2, <3>1, <3>2
  <2>2. login' = login /\ row' = row /\ faults' = faults /\ t.step \in {"setup", "row"}
    BY <1>2 DEF SetUp, SetUpFails, accountVars
  <2>3. task'[c] = next /\ \A b \in Client : b # c => task'[b] = task[b]
    BY <2>1, GoesTo
  <2>4. Holds(c) /\ \A b \in Client : (Holds(b)' <=> Holds(b)) /\ task'[b].login = task[b].login
    BY <2>1, <2>2, <2>3 DEF Holds, Holding
  <2>5. login = t.login /\ row = 0 /\ row # t.login
    BY <1>0, <2>2, <2>4 DEF SagaInv
  <2>6. LoginOfRow' /\ \A b \in Client : task'[b].step \in {"setup", "row"} => login' = task'[b].login /\ row' = 0
    BY <2>1, <2>2, <2>3, <2>5 DEF SagaInv, LoginOfRow
  <2>7. \A b \in Client : task'[b].step = "rollback" => row' # task'[b].login
    BY <2>1, <2>2, <2>3, <2>5 DEF SagaInv
  <2>8. \A a, b \in Client : Holds(a)' /\ Holds(b)' /\ task'[a].login = task'[b].login => a = b
    BY <2>4 DEF SagaInv
  <2>9. faults' = 0 /\ login' # 0 => row' = login' \/ \E b \in Client : Holds(b)' /\ task'[b].login = login'
    BY <2>2, <2>4 DEF SagaInv
  <2> QED
    BY <2>6, <2>7, <2>8, <2>9 DEF SagaInv
<1>3. CASE CreateRow(c)
  <2>1. t.step = "row" /\ login = t.login /\ row = 0 /\ Holds(c)
    BY <1>3 DEF CreateRow, SagaInv, Holds, Holding
  <2> DEFINE next == [step |-> "consume", purpose |-> "REGISTRATION"]
  <2>2. row' = t.login /\ login' = login /\ faults' = faults /\ Go(c, next)
    BY <1>3, <2>1 DEF CreateRow
  <2>3. task'[c] = next /\ \A b \in Client : b # c => task'[b] = task[b]
    BY <2>2, GoesTo
  <2>4. next.step = "consume"
    OBVIOUS
  <2> HIDE DEF next
  <2>5. \A b \in Client : Holds(b)' => Holds(b) /\ b # c /\ task'[b] = task[b] /\ task[b].login # t.login
    BY <2>1, <2>3, <2>4 DEF Holds, Holding, SagaInv
  <2>6. \A b \in Client : b # c => task[b].step \notin {"setup", "row"}
    BY <2>1 DEF SagaInv, Holds, Holding
  <2> QED
    BY <2>1, <2>2, <2>3, <2>4, <2>5, <2>6 DEF SagaInv, LoginOfRow, Holds, Holding
<1>4. CASE DeleteLogin(c)
  <2>1. t.step = "rollback" /\ Holds(c) /\ row # t.login /\ Go(c, Idle) /\ row' = row /\ faults' = faults
    BY <1>4 DEF DeleteLogin, SagaInv, Holds, Holding, Finish
  <2>2. login' = IF login = t.login THEN 0 ELSE login
    BY <1>4 DEF DeleteLogin
  <2>3. task'[c] = Idle /\ \A b \in Client : b # c => task'[b] = task[b]
    BY <2>1, GoesTo
  <2>4. \A b \in Client : Holds(b)' => Holds(b) /\ b # c /\ task'[b] = task[b] /\ task[b].login # t.login
    BY <1>0, <2>1, <2>3 DEF Holds, Holding, SagaInv
  <2>5. LoginOfRow'
    BY <2>1, <2>2 DEF SagaInv, LoginOfRow
  <2>6. \A b \in Client : task'[b].step \in {"setup", "row"} => login' = task'[b].login /\ row' = 0
    BY <2>1, <2>2, <2>4 DEF SagaInv, Holds, Holding
  <2>7. \A b \in Client : task'[b].step = "rollback" => row' # task'[b].login
    BY <2>1, <2>4 DEF SagaInv, Holds, Holding
  <2>8. \A a, b \in Client : Holds(a)' /\ Holds(b)' /\ task'[a].login = task'[b].login => a = b
    BY <2>4 DEF SagaInv
  <2>9. faults' = 0 /\ login' # 0 => row' = login' \/ \E b \in Client : Holds(b)' /\ task'[b].login = login'
    <3> SUFFICES ASSUME faults' = 0, login' # 0, row' # login'
                 PROVE  \E b \in Client : Holds(b)' /\ task'[b].login = login'
      OBVIOUS
    <3>1. login' = login /\ login # t.login
      BY <2>2
    <3>2. PICK b \in Client : Holds(b) /\ task[b].login = login
      BY <2>1, <3>1 DEF SagaInv
    <3>3. b # c
      BY <3>1, <3>2
    <3>4. Holds(b)' /\ task'[b].login = login'
      BY <2>3, <3>1, <3>2, <3>3 DEF Holds
    <3> QED
      BY <3>4
  <2> QED
    BY <2>5, <2>6, <2>7, <2>8, <2>9 DEF SagaInv
<1> QED
  BY <1>1, <1>2, <1>3, <1>4

\* A request that fails leaves its login to nobody, and that is a fault.
LEMMA Fails_Saga == ASSUME TypeInv, SagaInv, NEW c \in Client, Fails(c) PROVE SagaInv'
<1>1. Go(c, Idle) /\ faults' = faults + 1 /\ login' = login /\ row' = row /\ faults \in Nat
  BY DEF Fails, Finish, accountVars, TypeInv
<1>2. task'[c] = Idle /\ \A b \in Client : b # c => task'[b] = task[b]
  BY <1>1, GoesTo
<1>3. \A b \in Client : Holds(b)' => Holds(b) /\ task'[b] = task[b]
  BY <1>2 DEF Holds, Holding, Idle
<1>4. \A b \in Client : task'[b].step \in {"setup", "row", "rollback"} => task'[b] = task[b]
  BY <1>3 DEF Holds, Holding
<1>5. faults' # 0
  BY <1>1
<1> QED
  BY <1>1, <1>3, <1>4, <1>5 DEF SagaInv, LoginOfRow

\* The answer of a commit was missed in this step or before.
LEMMA Unheard ==
    ASSUME [Next]_vars
    PROVE  /\ unheard => unheard'
           /\ ~unheard /\ unheard' => \E c \in Client : CommitLost(c)
<1>1. ASSUME NEW c \in Client, Start(c) \/ Handle(c) \/ Fails(c), ~CommitLost(c) PROVE unheard' = unheard
  <2>1. CASE Start(c) \/ Fails(c)
    BY <2>1 DEF Start, StartSend, StartRegister, StartReset, StartStatus, Fails, accountVars
  <2>2. CASE Handle(c)
    BY <1>1, <2>2 DEF Handle, CheckTimer, StoreCode, MailCode, MailFails, DropCode, Verify, CountTry, Consume,
       CreateLogin, SetUp, CreateRow, SetUpFails, DeleteLogin, SetPassword, SwitchLogin, SwitchStatus, accountVars
  <2> QED
    BY <1>1, <2>1, <2>2
<1>2. ASSUME NEW p \in Purpose, TimerEnds(p) \/ CodeExpires(p) PROVE unheard' = unheard
  BY <1>2 DEF TimerEnds, CodeExpires, accountVars
<1>3. \A c \in Client : CommitLost(c) => unheard'
  BY DEF CommitLost
<1> QED
  BY <1>1, <1>2, <1>3 DEF Next, vars

\* Every step keeps the registrations in order.
LEMMA Next_Saga == ASSUME TypeInv, SagaInv, [Next]_vars, ~unheard' PROVE SagaInv'
<1>1. CASE (\E p \in Purpose : TimerEnds(p) \/ CodeExpires(p)) \/ UNCHANGED vars
  <2>1. UNCHANGED <<accountVars, task, faults>>
    BY <1>1 DEF TimerEnds, CodeExpires, vars, accountVars
  <2> QED
    BY <2>1 DEF SagaInv, LoginOfRow, Holds, accountVars
<1>2. ASSUME NEW c \in Client, Start(c) \/ Handle(c) PROVE SagaInv'
  <2>1. CASE CreateLogin(c) \/ SetUp(c) \/ CreateRow(c) \/ SetUpFails(c) \/ DeleteLogin(c)
    BY <2>1, Holding_Saga
  <2>2. CASE ~(CreateLogin(c) \/ SetUp(c) \/ CreateRow(c) \/ SetUpFails(c) \/ DeleteLogin(c))
    <3>1. ~CommitLost(c)
      BY DEF CommitLost
    <3> QED
      BY <1>2, <2>2, <3>1, Aside, Aside_Saga DEF Handle
  <2> QED
    BY <2>1, <2>2
<1> QED
  BY <1>1, <1>2, Fails_Saga DEF Next

\* They are in order until the answer of a commit is missed, which is a fault.
HeardInv == (unheard => faults # 0) /\ (~unheard => SagaInv)

\* Every step keeps that.
LEMMA Next_Heard == ASSUME TypeInv, TypeInv', HeardInv, [Next]_vars PROVE HeardInv'
<1>1. faults \in Nat /\ faults' \in Nat /\ faults' >= faults
  <2>1. faults' = faults \/ faults' = faults + 1
    <3>1. ASSUME NEW c \in Client, Start(c) \/ Handle(c) \/ Fails(c) PROVE faults' = faults \/ faults' = faults + 1
      <4>1. CASE Start(c) \/ Fails(c)
        BY <4>1 DEF Start, StartSend, StartRegister, StartReset, StartStatus, Fails
      <4>2. CASE Handle(c)
        BY <4>2 DEF Handle, CheckTimer, StoreCode, MailCode, MailFails, DropCode, Verify, CountTry, Consume,
           CreateLogin, SetUp, CreateRow, SetUpFails, CommitLost, DeleteLogin, SetPassword, SwitchLogin, SwitchStatus
      <4> QED
        BY <3>1, <4>1, <4>2
    <3>2. ASSUME NEW p \in Purpose, TimerEnds(p) \/ CodeExpires(p) PROVE faults' = faults
      BY <3>2 DEF TimerEnds, CodeExpires
    <3> QED
      BY <3>1, <3>2 DEF Next, vars
  <2> QED
    BY <2>1 DEF TypeInv
<1>2. CASE ~unheard /\ unheard'
  <2>1. faults' = faults + 1
    BY <1>2, Unheard DEF CommitLost
  <2> QED
    BY <1>1, <1>2, <2>1 DEF HeardInv
<1>3. CASE unheard
  BY <1>1, <1>3, Unheard DEF HeardInv
<1>4. CASE ~unheard'
  BY <1>4, Unheard, Next_Saga DEF HeardInv
<1> QED
  BY <1>2, <1>3, <1>4

\* So it holds throughout.
LEMMA Spec_HeardInv == Spec => [](TypeInv /\ HeardInv)
<1>1. Init => HeardInv
  BY DEF Init, HeardInv, SagaInv, LoginOfRow, Holds, Holding, Idle
<1> QED
  BY <1>1, Init_Types, Next_Types, Next_Heard, PTL DEF Spec

\* The row of an account names a login that exists, for any number of
\* registrations, rollbacks and failures at the same time, unless the answer of
\* its commit was lost.
THEOREM Spec_RowHasLogin == Spec => []RowHasLogin
<1>1. HeardInv => RowHasLogin
  BY DEF HeardInv, SagaInv, LoginOfRow, RowHasLogin
<1> QED
  BY <1>1, Spec_HeardInv, PTL

\* A registration that fails leaves nothing behind unless something broke.
THEOREM Spec_NoHalfAccount == Spec => []NoHalfAccount
<1>1. HeardInv => NoHalfAccount
  BY DEF HeardInv, SagaInv, LoginOfRow, NoHalfAccount, Holds, Holding, Idle
<1> QED
  BY <1>1, Spec_HeardInv, PTL
-----------------------------------------------------------------------------
(***************************************************************************)
(* Wrong tries.                                                            *)
(***************************************************************************)
\* Requests whose wrong try is not counted yet.
Wrong(p) == {c \in Client : task[c].step = "wrong" /\ task[c].purpose = p}

\* Tries the record of a purpose has counted or will count, or lost.
Tries(p) == record[p].attempts + Cardinality(Wrong(p)) + faults

\* The live code was compared with as many wrong tries as its record has counted,
\* as there are requests about to count one, or as were lost.  A code is of one
\* purpose, and is compared with nothing before it is issued.
GuessInv ==
    /\ \A code \in 1 .. MaxCodes : code > issued => guesses[code] = 0
    /\ \A p, q \in Purpose : p # q /\ record[p].code # 0 => record[p].code # record[q].code
    /\ \A p \in Purpose : record[p].code # 0 => guesses[record[p].code] <= Tries(p)
    /\ GuessesBounded

\* The sets of those requests, and their sizes, are finite.
LEMMA Wrong_Finite ==
    ASSUME NEW p
    PROVE  /\ IsFiniteSet(Wrong(p)) /\ IsFiniteSet(Wrong(p)')
           /\ Cardinality(Wrong(p)) \in Nat /\ Cardinality(Wrong(p)') \in Nat
           /\ Cardinality(Wrong(p)) <= Cardinality(Client) /\ Cardinality(Wrong(p)') <= Cardinality(Client)
           /\ Cardinality(Client) \in Nat
<1>1. Wrong(p) \subseteq Client /\ Wrong(p)' \subseteq Client
  BY DEF Wrong
<1> QED
  BY <1>1, FS_Subset, FS_CardinalityType

\* A step of a request that neither began nor ends with a wrong try.
LEMMA Wrong_Same ==
    ASSUME TypeInv, NEW c \in Client, NEW next, Go(c, next), task[c].step # "wrong", next.step # "wrong", NEW p
    PROVE  Wrong(p)' = Wrong(p)
BY GoesTo DEF Wrong

\* A request that tried a wrong code.
LEMMA Wrong_Added ==
    ASSUME TypeInv, NEW c \in Client, NEW next, Go(c, next), task[c].step # "wrong", next.step = "wrong", NEW p
    PROVE  /\ next.purpose = p => Cardinality(Wrong(p)') = Cardinality(Wrong(p)) + 1
           /\ next.purpose # p => Wrong(p)' = Wrong(p)
<1>1. task'[c] = next /\ \A b \in Client : b # c => task'[b] = task[b]
  BY GoesTo
<1>2. next.purpose = p => Wrong(p)' = Wrong(p) \cup {c} /\ c \notin Wrong(p)
  BY <1>1 DEF Wrong
<1>3. next.purpose # p => Wrong(p)' = Wrong(p)
  BY <1>1 DEF Wrong
<1> QED
  BY <1>2, <1>3, Wrong_Finite, FS_AddElement

\* One whose wrong try was counted, or lost.
LEMMA Wrong_Left ==
    ASSUME TypeInv, NEW c \in Client, NEW next, Go(c, next), task[c].step = "wrong", next.step # "wrong", NEW p
    PROVE  /\ task[c].purpose = p => Cardinality(Wrong(p)') = Cardinality(Wrong(p)) - 1
           /\ task[c].purpose # p => Wrong(p)' = Wrong(p)
<1>1. task'[c] = next /\ \A b \in Client : b # c => task'[b] = task[b]
  BY GoesTo
<1>2. task[c].purpose = p => Wrong(p)' = Wrong(p) \ {c} /\ c \in Wrong(p)
  BY <1>1 DEF Wrong
<1>3. task[c].purpose # p => Wrong(p)' = Wrong(p)
  BY <1>1 DEF Wrong
<1> QED
  BY <1>2, <1>3, Wrong_Finite, FS_RemoveElement

\* The numbers in play.
LEMMA Tries_Type ==
    ASSUME TypeInv
    PROVE  /\ faults \in Nat /\ issued \in Nat /\ issued <= MaxCodes
           /\ \A p \in Purpose : /\ record[p].code \in 0 .. issued /\ record[p].attempts \in Nat
                                 /\ Tries(p) \in Nat
           /\ \A code \in 1 .. MaxCodes : guesses[code] \in Nat
           /\ Cardinality(Client) \in Nat
<1>1. faults \in Nat /\ issued \in Nat /\ issued <= MaxCodes
  BY DEF TypeInv, CodesOK, Code
<1>2. \A p \in Purpose : record[p].code \in 0 .. issued /\ record[p].attempts \in Nat
  BY <1>1 DEF TypeInv, CodesOK, CodeRecord
<1>3. \A p \in Purpose : Tries(p) \in Nat
  BY <1>1, <1>2, Wrong_Finite DEF Tries
<1>4. \A code \in 1 .. MaxCodes : guesses[code] \in Nat
  BY DEF TypeInv, CodesOK
<1> QED
  BY <1>1, <1>2, <1>3, <1>4, FS_CardinalityType

\* A step that compares nothing, issues nothing and forgets no try of a live code.
LEMMA Quiet_Guess ==
    ASSUME TypeInv, TypeInv', GuessInv, UNCHANGED <<issued, guesses>>, faults' >= faults,
           \A p \in Purpose : record'[p].code # 0 => record'[p].code = record[p].code /\ Tries(p)' >= Tries(p)
    PROVE  GuessInv'
<1>1. /\ faults \in Nat /\ faults' \in Nat /\ issued \in Nat /\ Cardinality(Client) \in Nat
      /\ \A p \in Purpose : record[p].code \in 0 .. issued /\ Tries(p) \in Nat /\ Tries(p)' \in Nat
      /\ \A p \in Purpose : record'[p].code \in Nat
      /\ \A code \in 1 .. MaxCodes : guesses[code] \in Nat
  <2>1. /\ faults' \in Nat
        /\ \A p \in Purpose : Tries(p)' \in Nat /\ record'[p].code \in 0 .. issued'
    <3>1. faults' \in Nat
      BY DEF TypeInv
    <3>2. \A p \in Purpose : record'[p].code \in 0 .. issued' /\ record'[p].attempts \in Nat
      BY DEF TypeInv, CodesOK, CodeRecord, Code
    <3>3. \A p \in Purpose : Tries(p)' \in Nat
      BY <3>1, <3>2, Wrong_Finite DEF Tries
    <3> QED
      BY <3>1, <3>2, <3>3
  <2> QED
    BY <2>1, Tries_Type
<1>2. \A code \in 1 .. MaxCodes : code > issued' => guesses'[code] = 0
  BY DEF GuessInv
<1>3. \A p, q \in Purpose : p # q /\ record'[p].code # 0 => record'[p].code # record'[q].code
  BY DEF GuessInv
<1>4. \A p \in Purpose : record'[p].code # 0 => guesses'[record'[p].code] <= Tries(p)'
  <2> SUFFICES ASSUME NEW p \in Purpose, record'[p].code # 0 PROVE guesses[record[p].code] <= Tries(p)'
    OBVIOUS
  <2>1. record[p].code # 0 /\ record[p].code \in 1 .. MaxCodes /\ Tries(p)' >= Tries(p)
    BY <1>1, Tries_Type
  <2>2. guesses[record[p].code] \in Nat /\ guesses[record[p].code] <= Tries(p)
    BY <1>1, <2>1 DEF GuessInv
  <2> QED
    BY <1>1, <2>1, <2>2
<1>5. GuessesBounded'
  BY <1>1 DEF GuessInv, GuessesBounded
<1> QED
  BY <1>2, <1>3, <1>4, <1>5 DEF GuessInv

\* A step that writes no code and no wrong try: the rest of the account's.
LEMMA Aside_Guess ==
    ASSUME TypeInv, TypeInv', GuessInv, NEW c \in Client, NEW next, Go(c, next),
           task[c].step # "wrong", next.step # "wrong", UNCHANGED <<issued, guesses, faults>>,
           \A p \in Purpose : record'[p].code # 0 => record'[p] = record[p]
    PROVE  GuessInv'
<1>1. \A p \in Purpose : Wrong(p)' = Wrong(p)
  BY Wrong_Same
<1>2. \A p \in Purpose : record'[p].code # 0 => Tries(p)' = Tries(p)
  BY <1>1 DEF Tries
<1> QED
  BY <1>2, Tries_Type, Quiet_Guess

\* What such steps are.
LEMMA Go_Aside ==
    ASSUME TypeInv, NEW c \in Client,
           \/ Start(c) \/ CheckTimer(c) \/ MailCode(c) \/ MailFails(c) \/ DropCode(c) \/ Consume(c)
           \/ CreateLogin(c) \/ SetUp(c) \/ CreateRow(c) \/ SetUpFails(c) \/ DeleteLogin(c)
           \/ SetPassword(c) \/ SwitchLogin(c) \/ SwitchStatus(c)
    PROVE  /\ task[c].step # "wrong" /\ UNCHANGED <<issued, guesses, faults>>
           /\ \E next : Go(c, next) /\ next.step # "wrong"
           /\ \A p \in Purpose : record'[p].code # 0 => record'[p] = record[p]
<1>0. /\ issued \in Nat /\ logins \in Nat /\ task[c] \in Task(issued, logins) /\ Idle.step = "idle"
      /\ (task[c] = Idle => task[c].step = "idle")
  BY Same_Types DEF TypeInv, Idle
<1>1. CASE Start(c)
  <2>1. task[c] = Idle /\ UNCHANGED <<codeVars, faults>>
    BY <1>1 DEF Start, StartSend, StartRegister, StartReset, StartStatus
  <2> QED
    BY <1>0, <1>1, <2>1, Start_Goes DEF codeVars
<1>2. CASE MailCode(c) \/ MailFails(c) \/ CreateLogin(c) \/ SetUpFails(c) \/ DeleteLogin(c)
           \/ SetPassword(c) \/ SwitchStatus(c)
  <2>1. task[c].step # "wrong" /\ UNCHANGED <<record, issued, guesses, faults>>
    BY <1>2 DEF MailCode, MailFails, CreateLogin, SetUpFails, DeleteLogin, SetPassword, SwitchStatus, codeVars
  <2>2. \E next : Go(c, next) /\ next.step # "wrong"
    BY <1>0, <1>2 DEF MailCode, MailFails, CreateLogin, SetUpFails, DeleteLogin, SetPassword, SwitchStatus, Finish
  <2> QED
    BY <2>1, <2>2
<1>3. CASE CheckTimer(c) \/ SetUp(c) \/ CreateRow(c) \/ SwitchLogin(c)
  <2>1. task[c].step # "wrong" /\ UNCHANGED <<record, issued, guesses, faults>>
    BY <1>3 DEF CheckTimer, SetUp, CreateRow, SwitchLogin, codeVars
  <2>2. /\ [task[c] EXCEPT !.step = "store"].step = "store" /\ [task[c] EXCEPT !.step = "row"].step = "row"
        /\ [task[c] EXCEPT !.step = "rollback"].step = "rollback"
        /\ [task[c] EXCEPT !.step = "status"].step = "status"
    BY <1>0 DEF Task
  <2>3. \E next : Go(c, next) /\ next.step # "wrong"
    <3>1. CASE CheckTimer(c)
      BY <1>0, <2>2, <3>1 DEF CheckTimer
    <3>2. CASE SetUp(c)
      BY <2>2, <3>2 DEF SetUp
    <3>3. CASE CreateRow(c)
      <4>1. Go(c, [task[c] EXCEPT !.step = "rollback"]) \/ Go(c, [step |-> "consume", purpose |-> "REGISTRATION"])
        BY <3>3 DEF CreateRow
      <4> QED
        BY <2>2, <4>1
    <3>4. CASE SwitchLogin(c)
      BY <1>0, <2>2, <3>4 DEF SwitchLogin, Finish
    <3> QED
      BY <1>3, <3>1, <3>2, <3>3, <3>4
  <2> QED
    BY <2>1, <2>3
<1>4. CASE DropCode(c) \/ Consume(c)
  <2>1. /\ task[c].step # "wrong" /\ UNCHANGED <<issued, guesses, faults>> /\ Go(c, Idle)
        /\ record' = [record EXCEPT ![task[c].purpose] = NoRecord] /\ NoRecord.code = 0
    BY <1>4 DEF DropCode, Consume, Finish, NoRecord
  <2>2. record \in [Purpose -> CodeRecord]
    BY DEF TypeInv, CodesOK
  <2> QED
    BY <1>0, <2>1, <2>2
<1> QED
  BY <1>1, <1>2, <1>3, <1>4

\* A new code has been compared with nothing.
LEMMA StoreCode_Guess ==
    ASSUME TypeInv, TypeInv', GuessInv, NEW c \in Client, StoreCode(c)
    PROVE  GuessInv'
<1>0. PICK p \in Purpose : p = task[c].purpose
  BY Same_Types, TaskFields DEF StoreCode, TypeInv
<1> DEFINE r == [code |-> issued + 1, attempts |-> 0, waiting |-> TRUE, expired |-> FALSE]
           next == [step |-> "mail", purpose |-> p, code |-> issued + 1]
<1>1. /\ issued' = issued + 1 /\ issued < MaxCodes /\ record' = [record EXCEPT ![p] = r]
      /\ UNCHANGED <<guesses, faults>> /\ Go(c, next) /\ task[c].step = "store"
  BY <1>0 DEF StoreCode
<1>2. next.step = "mail" /\ r.code = issued + 1 /\ r.attempts = 0
  OBVIOUS
<1>3. p \in Purpose /\ record \in [Purpose -> CodeRecord]
  BY DEF TypeInv, CodesOK
<1> HIDE DEF next, r
<1>4. \A q : Wrong(q)' = Wrong(q)
  BY <1>1, <1>2, Wrong_Same
<1>5. record'[p] = r /\ \A q \in Purpose : q # p => record'[q] = record[q]
  BY <1>1, <1>3
<1>6. \A code \in 1 .. MaxCodes : code > issued' => guesses'[code] = 0
  BY <1>1, Tries_Type DEF GuessInv
<1>7. \A q, s \in Purpose : q # s /\ record'[q].code # 0 => record'[q].code # record'[s].code
  BY <1>2, <1>5, Tries_Type DEF GuessInv
<1>8. \A q \in Purpose : record'[q].code # 0 => guesses'[record'[q].code] <= Tries(q)'
  <2>1. guesses'[record'[p].code] <= Tries(p)'
    <3>1. issued + 1 \in 1 .. MaxCodes /\ issued + 1 > issued
      BY <1>1, Tries_Type
    <3>2. guesses[issued + 1] = 0
      BY <3>1 DEF GuessInv
    <3>3. Tries(p)' = Cardinality(Wrong(p)) + faults
      BY <1>1, <1>2, <1>4, <1>5, Wrong_Finite, Tries_Type DEF Tries
    <3> QED
      BY <1>1, <1>2, <1>5, <3>2, <3>3, Wrong_Finite, Tries_Type
  <2>2. ASSUME NEW q \in Purpose, q # p, record[q].code # 0 PROVE guesses[record[q].code] <= Tries(q)'
    BY <1>1, <1>4, <1>5, <2>2 DEF GuessInv, Tries
  <2> QED
    BY <1>1, <1>5, <2>1, <2>2
<1>9. GuessesBounded'
  BY <1>1 DEF GuessInv, GuessesBounded
<1> QED
  BY <1>6, <1>7, <1>8, <1>9 DEF GuessInv

\* A wrong try is of a record with tries left, and is still to be counted.
LEMMA Verify_Guess ==
    ASSUME TypeInv, TypeInv', GuessInv, NEW c \in Client, Verify(c, Verified(c))
    PROVE  GuessInv'
<1>01. PICK p \in Purpose : p = task[c].purpose
  BY Same_Types, TaskFields DEF Verify, TypeInv
<1>02. PICK k : k = record[p].code
  OBVIOUS
<1> DEFINE next == [step |-> "wrong", purpose |-> p, seen |-> record[p].attempts]
<1>0. /\ p \in Purpose /\ record \in [Purpose -> CodeRecord] /\ task[c].step = "verify"
      /\ UNCHANGED <<record, issued, faults>>
  BY DEF Verify, TypeInv, CodesOK
<1>1. CASE guesses' = guesses /\ (Go(c, Idle) \/ Go(c, Verified(c)))
  <2>1. PICK to : Go(c, to) /\ to.step # "wrong"
    BY <1>1 DEF Idle, Verified
  <2> QED
    BY <1>0, <1>1, <2>1, Aside_Guess
<1>2. CASE /\ Live(record[p]) /\ guesses[k] < MaxGuesses
           /\ guesses' = [guesses EXCEPT ![k] = @ + 1] /\ Go(c, next)
  <2>0. next.step = "wrong" /\ next.purpose = p
    OBVIOUS
  <2>1. k = record[p].code /\ k \in 1 .. issued /\ record[p].attempts < OtpMaxAttempts /\ issued <= MaxCodes /\ k # 0
    BY <1>02, <1>2, Tries_Type DEF Live
  <2>2. guesses'[k] = guesses[k] + 1 /\ \A j \in 1 .. MaxCodes : j # k => guesses'[j] = guesses[j]
    BY <1>2, <2>1, Tries_Type DEF TypeInv, CodesOK
  <2> HIDE DEF next
  <2>3. /\ Cardinality(Wrong(p)') = Cardinality(Wrong(p)) + 1
        /\ \A q \in Purpose : q # p => Wrong(q)' = Wrong(q)
    BY <1>0, <1>2, <2>0, Wrong_Added
  <2>4. Tries(p)' = Tries(p) + 1 /\ \A q \in Purpose : q # p => Tries(q)' = Tries(q)
    BY <1>0, <2>3, Wrong_Finite, Tries_Type DEF Tries
  <2>5. guesses[k] <= Tries(p) /\ guesses[k] \in Nat
    BY <2>1, Tries_Type DEF GuessInv
  <2>6. \A j \in 1 .. MaxCodes : j > issued' => guesses'[j] = 0
    BY <1>0, <2>1, <2>2, Tries_Type DEF GuessInv
  <2>7. \A q \in Purpose : record'[q].code # 0 => guesses'[record'[q].code] <= Tries(q)'
    <3>1. guesses'[record'[p].code] <= Tries(p)'
      BY <1>0, <2>1, <2>2, <2>4, <2>5, Tries_Type
    <3>2. ASSUME NEW q \in Purpose, q # p, record[q].code # 0 PROVE guesses'[record'[q].code] <= Tries(q)'
      <4>1. record[q].code # k
        BY <2>1, <3>2 DEF GuessInv
      <4>2. record[q].code \in 1 .. MaxCodes
        BY <3>2, Tries_Type
      <4> QED
        BY <1>0, <2>2, <2>4, <3>2, <4>1, <4>2 DEF GuessInv
    <3> QED
      BY <1>0, <3>1, <3>2
  <2>8. GuessesBounded'
    <3>1. guesses'[k] < OtpMaxAttempts + Cardinality(Client) + faults'
      <4>1. Tries(p)' < OtpMaxAttempts + Cardinality(Client) + faults'
        BY <1>0, <2>1, Wrong_Finite, Tries_Type DEF Tries
      <4> QED
        BY <1>0, <2>2, <2>4, <2>5, <4>1, Wrong_Finite, Tries_Type
    <3> QED
      BY <1>0, <2>2, <3>1 DEF GuessInv, GuessesBounded
  <2> QED
    BY <1>0, <2>6, <2>7, <2>8 DEF GuessInv
<1> QED
  BY <1>01, <1>02, <1>1, <1>2 DEF Verify, Finish

\* A wrong try counted is a try, of this record or of a newer one.
LEMMA CountTry_Guess ==
    ASSUME TypeInv, TypeInv', GuessInv, NEW c \in Client, CountTry(c)
    PROVE  GuessInv'
<1>0. PICK p \in Purpose : p = task[c].purpose
  BY Same_Types, TaskFields DEF CountTry, TypeInv
<1>1. /\ task[c].step = "wrong" /\ Go(c, Idle) /\ Idle.step # "wrong" /\ UNCHANGED <<issued, guesses, faults>>
      /\ record' = IF record[p].code = 0 THEN record ELSE [record EXCEPT ![p].attempts = @ + 1]
  BY <1>0 DEF CountTry, Finish, Idle
<1>2. p \in Purpose /\ record \in [Purpose -> CodeRecord] /\ record[p] \in CodeRecord
  BY DEF TypeInv, CodesOK
<1>3. Cardinality(Wrong(p)') = Cardinality(Wrong(p)) - 1 /\ \A q : q # p => Wrong(q)' = Wrong(q)
  BY <1>0, <1>1, Wrong_Left
<1>4. record[p].code # 0 => record'[p].attempts = record[p].attempts + 1 /\ record'[p].code = record[p].code
  BY <1>1, <1>2 DEF CodeRecord
<1>5. \A q \in Purpose : q # p => record'[q] = record[q]
  BY <1>1, <1>2
<1>6. record'[p].code # 0 => record[p].code # 0
  BY <1>1
<1>7. \A q \in Purpose : q # p => Tries(q)' = Tries(q)
  BY <1>1, <1>3, <1>5 DEF Tries
<1>8. record[p].code # 0 => Tries(p)' = Tries(p)
  BY <1>1, <1>2, <1>3, <1>4, Wrong_Finite, Tries_Type DEF Tries
<1> QED
  BY <1>1, <1>2, <1>4, <1>5, <1>6, <1>7, <1>8, Tries_Type, Quiet_Guess

\* A request that stops before it counts its wrong try is one more failure.
LEMMA Fails_Guess ==
    ASSUME TypeInv, TypeInv', GuessInv, NEW c \in Client, Fails(c)
    PROVE  GuessInv'
<1>1. Go(c, Idle) /\ Idle.step # "wrong" /\ faults' = faults + 1 /\ UNCHANGED <<record, issued, guesses>>
  BY DEF Fails, Finish, Idle, codeVars
<1>2. \A p \in Purpose : Cardinality(Wrong(p)') >= Cardinality(Wrong(p)) - 1
  BY <1>1, Wrong_Same, Wrong_Left, Wrong_Finite
<1>3. \A p \in Purpose : Tries(p)' >= Tries(p)
  BY <1>1, <1>2, Wrong_Finite, Tries_Type DEF Tries
<1> QED
  BY <1>1, <1>3, Tries_Type, Quiet_Guess

\* A commit whose answer is lost is one more failure, and has nothing to do with codes.
LEMMA CommitLost_Guess ==
    ASSUME TypeInv, TypeInv', GuessInv, NEW c \in Client, CommitLost(c)
    PROVE  GuessInv'
<1> DEFINE next == [step |-> "rollback", login |-> task[c].login]
<1>1. /\ Go(c, next) /\ next.step # "wrong" /\ task[c].step # "wrong" /\ faults' = faults + 1
      /\ UNCHANGED <<record, issued, guesses>>
  BY DEF CommitLost, codeVars
<1> HIDE DEF next
<1>2. \A p \in Purpose : Wrong(p)' = Wrong(p)
  BY <1>1, Wrong_Same
<1>3. \A p \in Purpose : Tries(p)' >= Tries(p)
  BY <1>1, <1>2, Wrong_Finite, Tries_Type DEF Tries
<1> QED
  BY <1>1, <1>3, Tries_Type, Quiet_Guess

\* Time passes over the codes, not over their tries.
LEMMA Time_Guess ==
    ASSUME TypeInv, TypeInv', GuessInv, NEW p \in Purpose, TimerEnds(p) \/ CodeExpires(p)
    PROVE  GuessInv'
<1>1. UNCHANGED <<issued, guesses, task, faults>> /\ record \in [Purpose -> CodeRecord]
  BY DEF TimerEnds, CodeExpires, TypeInv, CodesOK
<1>2. \A q \in Purpose : record'[q].code = record[q].code /\ record'[q].attempts = record[q].attempts
  BY <1>1 DEF TimerEnds, CodeExpires, CodeRecord
<1>3. \A q \in Purpose : Tries(q)' = Tries(q)
  BY <1>1, <1>2 DEF Tries, Wrong
<1> QED
  BY <1>1, <1>2, <1>3, Tries_Type, Quiet_Guess

\* Every step accounts for the wrong tries.
LEMMA Next_Guess == ASSUME TypeInv, TypeInv', GuessInv, [Next]_vars PROVE GuessInv'
<1>1. CASE UNCHANGED vars
  BY <1>1 DEF vars, GuessInv, GuessesBounded, Tries, Wrong
<1>2. ASSUME NEW c \in Client, Start(c) \/ Handle(c) PROVE GuessInv'
  <2>1. CASE StoreCode(c) \/ Verify(c, Verified(c)) \/ CountTry(c) \/ CommitLost(c)
    BY <2>1, StoreCode_Guess, Verify_Guess, CountTry_Guess, CommitLost_Guess
  <2>2. CASE ~(StoreCode(c) \/ Verify(c, Verified(c)) \/ CountTry(c) \/ CommitLost(c))
    BY <1>2, <2>2, Go_Aside, Aside_Guess DEF Handle
  <2> QED
    BY <2>1, <2>2
<1> QED
  BY <1>1, <1>2, Fails_Guess, Time_Guess DEF Next

\* After OTP_MAX_ATTEMPTS wrong tries a code stops working, but for the tries of
\* requests that run at the same time and those a failure did not count.
THEOREM Spec_GuessesBounded == Spec => []GuessesBounded
<1>1. Init => GuessInv
  <2> SUFFICES ASSUME Init PROVE GuessInv
    OBVIOUS
  <2>1. \A code \in 1 .. MaxCodes : guesses[code] = 0
    BY DEF Init
  <2>2. \A p \in Purpose : record[p].code = 0
    BY DEF Init, NoRecord
  <2>3. faults = 0 /\ Cardinality(Client) \in Nat
    BY FS_CardinalityType DEF Init
  <2> QED
    BY <2>1, <2>2, <2>3 DEF GuessInv, GuessesBounded
<1>2. GuessInv => GuessesBounded
  BY DEF GuessInv
<1> QED
  BY <1>1, <1>2, Init_Types, Next_Types, Next_Guess, PTL DEF Spec
=============================================================================
