------------------------------- MODULE Accounts -------------------------------
(***************************************************************************)
(* The account of one e-mail address: the codes mailed to it, registration *)
(* as a saga over Keycloak (the login) and the database (the user's row),  *)
(* a new password by code, and the administrator who disables the account. *)
(*                                                                         *)
(* Keycloak is a store of its own: a call may fail, and then nothing tells *)
(* the backend what is left.  It keeps one login per address and gives     *)
(* each a new id.  Codes are numbered: a request gives the number of the   *)
(* code its user types, and any other number is a wrong guess.  There is a *)
(* record of codes for each purpose, and they do not meet: requests        *)
(* register while there is no row, and reset the password once there is.   *)
(***************************************************************************)
EXTENDS Integers, FiniteSets

CONSTANTS
    Client,         \* requests in progress at the same time
    Purpose,        \* what a code proves
    OtpMaxAttempts, \* wrong tries until a code stops working
    MaxCodes,       \* bound: codes issued
    MaxGuesses,     \* bound: wrong tries of one code
    MaxLogins,      \* bound: logins created
    MaxFaults       \* bound: calls that fail and requests that stop

ASSUME AccountsAssumption ==
    /\ IsFiniteSet(Client)
    /\ Purpose = {"REGISTRATION", "PASSWORD_RESET"}
    /\ OtpMaxAttempts \in Nat \ {0}
    /\ {MaxCodes, MaxGuesses, MaxLogins, MaxFaults} \subseteq Nat

VARIABLES
    record,     \* record[p]: the row of EmailVerification, or NoRecord
    issued,     \* codes issued so far: the numbers 1 .. issued
    mailed,     \* codes that were mailed
    guesses,    \* guesses[c]: wrong tries compared with code c
    login,      \* Keycloak: id of the address's login, 0 if there is none
    enabled,    \* Keycloak: whether it may log in
    logins,     \* logins created so far
    row,        \* the user's row: id of its login, 0 if there is no row
    status,     \* User.status
    unheard,    \* history: whether the row was committed and nobody heard of it
    task,       \* task[c]: what request c does next
    faults      \* failures so far

vars == <<record, issued, mailed, guesses, login, enabled, logins, row, status, unheard, task, faults>>
codeVars == <<record, issued, mailed, guesses>>
accountVars == <<login, enabled, logins, row, status, unheard>>

Idle == [step |-> "idle"]
Code == 0 .. MaxCodes           \* 0 is no code that was issued
NoRecord == [code |-> 0, attempts |-> 0, waiting |-> FALSE, expired |-> FALSE]

Go(c, next) == task' = [task EXCEPT ![c] = next]
Finish(c) == Go(c, Idle)

Init ==
    /\ record = [p \in Purpose |-> NoRecord]
    /\ issued = 0
    /\ mailed = {}
    /\ guesses = [c \in 1 .. MaxCodes |-> 0]
    /\ login = 0 /\ enabled = FALSE /\ logins = 0
    /\ row = 0 /\ status = "ACTIVE" /\ unheard = FALSE
    /\ task = [c \in Client |-> Idle]
    /\ faults = 0
-----------------------------------------------------------------------------
(***************************************************************************)
(* Codes.                                                                  *)
(***************************************************************************)
\* A code to register with is for an address without a row, one to reset the
\* password is for an active account with a login.
MayAsk(p) == IF p = "REGISTRATION" THEN row = 0 ELSE row # 0 /\ status = "ACTIVE"

StartSend(c, p) ==
    /\ task[c] = Idle
    /\ MayAsk(p)
    /\ Go(c, [step |-> "send", purpose |-> p])
    /\ UNCHANGED <<codeVars, accountVars, faults>>

\* EmailOtpService.send: the resend timer of the record there is.
CheckTimer(c) ==
    /\ task[c].step = "send"
    /\ Go(c, IF record[task[c].purpose].waiting THEN Idle ELSE [task[c] EXCEPT !.step = "store"])
    /\ UNCHANGED <<codeVars, accountVars, faults>>

StoreCode(c) ==
    /\ task[c].step = "store"
    /\ issued < MaxCodes
    /\ issued' = issued + 1
    /\ record' = [record EXCEPT ![task[c].purpose] =
                     [code |-> issued + 1, attempts |-> 0, waiting |-> TRUE, expired |-> FALSE]]
    /\ Go(c, [step |-> "mail", purpose |-> task[c].purpose, code |-> issued + 1])
    /\ UNCHANGED <<mailed, guesses, accountVars, faults>>

MailCode(c) ==
    /\ task[c].step = "mail"
    /\ mailed' = mailed \cup {task[c].code}
    /\ Finish(c)
    /\ UNCHANGED <<record, issued, guesses, accountVars, faults>>

MailFails(c) ==
    /\ task[c].step = "mail"
    /\ Go(c, [step |-> "unsend", purpose |-> task[c].purpose])
    /\ UNCHANGED <<codeVars, accountVars, faults>>

\* The record is deleted by its key, whatever code it holds by now.
DropCode(c) ==
    /\ task[c].step = "unsend"
    /\ record' = [record EXCEPT ![task[c].purpose] = NoRecord]
    /\ Finish(c)
    /\ UNCHANGED <<issued, mailed, guesses, accountVars, faults>>

\* verify: a record there is, not expired, and not tried too often.
Live(r) == r.code # 0 /\ ~r.expired /\ r.attempts < OtpMaxAttempts

\* verify reads the record and compares the code in memory.
Verify(c, next) ==
    /\ task[c].step = "verify"
    /\ LET p == task[c].purpose IN
       IF ~Live(record[p])
       THEN Finish(c) /\ UNCHANGED guesses
       ELSE IF task[c].code = record[p].code
            THEN Go(c, next) /\ UNCHANGED guesses
            ELSE /\ guesses[record[p].code] < MaxGuesses
                 /\ guesses' = [guesses EXCEPT ![record[p].code] = @ + 1]
                 /\ Go(c, [step |-> "wrong", purpose |-> p, seen |-> record[p].attempts])
    /\ UNCHANGED <<record, issued, mailed, accountVars, faults>>

\* Mutant of CountTry: the number read before is written back, plus one.
CountTryRead(c) ==
    /\ task[c].step = "wrong"
    /\ LET p == task[c].purpose IN
       record' = IF record[p].code = 0 THEN record
                 ELSE [record EXCEPT ![p].attempts = task[c].seen + 1]
    /\ Finish(c)
    /\ UNCHANGED <<issued, mailed, guesses, accountVars, faults>>

\* Mutant of CountTry: a record that is gone is made again.
CountTryUpsert(c) ==
    /\ task[c].step = "wrong"
    /\ record' = [record EXCEPT ![task[c].purpose].attempts = @ + 1]
    /\ Finish(c)
    /\ UNCHANGED <<issued, mailed, guesses, accountVars, faults>>

\* The database adds one to the record of the address, a newer one included.
CountTry(c) ==
    /\ task[c].step = "wrong"
    /\ LET p == task[c].purpose IN
       record' = IF record[p].code = 0 THEN record
                 ELSE [record EXCEPT ![p].attempts = @ + 1]
    /\ Finish(c)
    /\ UNCHANGED <<issued, mailed, guesses, accountVars, faults>>

Consume(c) ==
    /\ task[c].step = "consume"
    /\ record' = [record EXCEPT ![task[c].purpose] = NoRecord]
    /\ Finish(c)
    /\ UNCHANGED <<issued, mailed, guesses, accountVars, faults>>

\* A minute passes, or ten.
TimerEnds(p) ==
    /\ record[p].waiting
    /\ record' = [record EXCEPT ![p].waiting = FALSE]
    /\ UNCHANGED <<issued, mailed, guesses, accountVars, task, faults>>

CodeExpires(p) ==
    /\ record[p].code # 0 /\ ~record[p].expired
    /\ record' = [record EXCEPT ![p].expired = TRUE, ![p].waiting = FALSE]
    /\ UNCHANGED <<issued, mailed, guesses, accountVars, task, faults>>
-----------------------------------------------------------------------------
(***************************************************************************)
(* Registration.                                                           *)
(***************************************************************************)
StartRegister(c, code) ==
    /\ task[c] = Idle
    /\ row = 0
    /\ Go(c, [step |-> "verify", purpose |-> "REGISTRATION", code |-> code])
    /\ UNCHANGED <<codeVars, accountVars, faults>>

\* Mutant of CreateLogin: a login Keycloak already knows is taken over.
CreateLoginAnyway(c) ==
    /\ task[c].step = "create"
    /\ IF login # 0
       THEN Go(c, [step |-> "row", login |-> login]) /\ UNCHANGED <<login, enabled, logins>>
       ELSE /\ logins < MaxLogins
            /\ logins' = logins + 1 /\ login' = logins + 1 /\ enabled' = TRUE
            /\ Go(c, [step |-> "setup", login |-> logins + 1])
    /\ UNCHANGED <<codeVars, row, status, unheard, faults>>

\* createUser: "Refuses an email Keycloak already knows".
CreateLogin(c) ==
    /\ task[c].step = "create"
    /\ IF login # 0
       THEN Finish(c) /\ UNCHANGED <<login, enabled, logins>>
       ELSE /\ logins < MaxLogins
            /\ logins' = logins + 1 /\ login' = logins + 1 /\ enabled' = TRUE
            /\ Go(c, [step |-> "setup", login |-> logins + 1])
    /\ UNCHANGED <<codeVars, row, status, unheard, faults>>

\* The password and the role of the new login.
SetUp(c) ==
    /\ task[c].step = "setup"
    /\ Go(c, [task[c] EXCEPT !.step = "row"])
    /\ UNCHANGED <<codeVars, accountVars, faults>>

\* The transaction of shop and user; address and login are unique there.
CreateRow(c) ==
    /\ task[c].step = "row"
    /\ IF row # 0
       THEN Go(c, [task[c] EXCEPT !.step = "rollback"]) /\ UNCHANGED row
       ELSE row' = task[c].login /\ Go(c, [step |-> "consume", purpose |-> "REGISTRATION"])
    /\ UNCHANGED <<codeVars, login, enabled, logins, status, unheard, faults>>

\* Mutant of SetUpFails: the new login is left behind.
SetUpFailsOnly(c) ==
    /\ task[c].step \in {"setup", "row"}
    /\ Finish(c)
    /\ UNCHANGED <<codeVars, accountVars, faults>>

\* A call fails, or the transaction does and nothing is committed; the new login
\* is removed then.
SetUpFails(c) ==
    /\ task[c].step \in {"setup", "row"}
    /\ Go(c, [step |-> "rollback", login |-> task[c].login])
    /\ UNCHANGED <<codeVars, accountVars, faults>>

\* The transaction is committed and its answer is lost: the row is there, and
\* register removes the login all the same.
CommitLost(c) ==
    /\ task[c].step = "row"
    /\ row = 0
    /\ faults < MaxFaults
    /\ faults' = faults + 1
    /\ row' = task[c].login
    /\ unheard' = TRUE
    /\ Go(c, [step |-> "rollback", login |-> task[c].login])
    /\ UNCHANGED <<codeVars, login, enabled, logins, status>>

\* deleteUser.
DeleteLogin(c) ==
    /\ task[c].step = "rollback"
    /\ IF login = task[c].login THEN login' = 0 /\ enabled' = FALSE ELSE UNCHANGED <<login, enabled>>
    /\ Finish(c)
    /\ UNCHANGED <<codeVars, logins, row, status, unheard, faults>>
-----------------------------------------------------------------------------
(***************************************************************************)
(* A new password, and the administrator.                                  *)
(***************************************************************************)
StartReset(c, code) ==
    /\ task[c] = Idle
    /\ row # 0 /\ status = "ACTIVE"
    /\ Go(c, [step |-> "verify", purpose |-> "PASSWORD_RESET", code |-> code])
    /\ UNCHANGED <<codeVars, accountVars, faults>>

\* setPassword on the login of the row; it fails if there is none.
SetPassword(c) ==
    /\ task[c].step = "password"
    /\ Go(c, IF login = row THEN [step |-> "consume", purpose |-> "PASSWORD_RESET"] ELSE Idle)
    /\ UNCHANGED <<codeVars, accountVars, faults>>

\* AdminUsersService.setStatus: Keycloak first, then the row; Keycloak refuses
\* the id of a login that is gone.
StartStatus(c, s) ==
    /\ task[c] = Idle
    /\ row # 0
    /\ Go(c, [step |-> "keycloak", status |-> s])
    /\ UNCHANGED <<codeVars, accountVars, faults>>

SwitchLogin(c) ==
    /\ task[c].step = "keycloak"
    /\ IF login = row
       THEN enabled' = (task[c].status = "ACTIVE") /\ Go(c, [task[c] EXCEPT !.step = "status"])
       ELSE Finish(c) /\ UNCHANGED enabled
    /\ UNCHANGED <<codeVars, login, logins, row, status, unheard, faults>>

SwitchStatus(c) ==
    /\ task[c].step = "status"
    /\ status' = task[c].status
    /\ Finish(c)
    /\ UNCHANGED <<codeVars, login, enabled, logins, row, unheard, faults>>

\* A call to Keycloak or the database fails or the process stops: the request
\* ends where it is.  That deleteUser fails is only logged.
Fails(c) ==
    /\ task[c] # Idle
    /\ faults < MaxFaults
    /\ faults' = faults + 1
    /\ Finish(c)
    /\ UNCHANGED <<codeVars, accountVars>>
-----------------------------------------------------------------------------
Start(c) ==
    \/ \E p \in Purpose : StartSend(c, p)
    \/ \E code \in Code : StartRegister(c, code) \/ StartReset(c, code)
    \/ \E s \in {"ACTIVE", "DISABLED"} : StartStatus(c, s)

Verified(c) ==
    IF task[c].purpose = "REGISTRATION" THEN [step |-> "create"] ELSE [step |-> "password"]

Handle(c) ==
    \/ CheckTimer(c) \/ StoreCode(c) \/ MailCode(c) \/ MailFails(c) \/ DropCode(c)
    \/ Verify(c, Verified(c)) \/ CountTry(c) \/ Consume(c)
    \/ CreateLogin(c) \/ SetUp(c) \/ CreateRow(c) \/ SetUpFails(c) \/ CommitLost(c) \/ DeleteLogin(c)
    \/ SetPassword(c) \/ SwitchLogin(c) \/ SwitchStatus(c)

Next ==
    \/ \E c \in Client : Start(c) \/ Handle(c) \/ Fails(c)
    \/ \E p \in Purpose : TimerEnds(p) \/ CodeExpires(p)

Spec == Init /\ [][Next]_vars
-----------------------------------------------------------------------------
(***************************************************************************)
(* Properties.                                                             *)
(***************************************************************************)
Step == {"idle", "send", "store", "mail", "unsend", "verify", "wrong", "consume", "create",
         "setup", "row", "rollback", "password", "keycloak", "status"}

\* Types; a live code is one that was issued, a login one that was created.
TypeOK ==
    /\ \A p \in Purpose :
          /\ record[p] \in [code : 0 .. issued, attempts : Nat, waiting : BOOLEAN, expired : BOOLEAN]
          /\ record[p].code = 0 => record[p] = NoRecord
    /\ issued \in Code
    /\ mailed \subseteq 1 .. issued
    /\ guesses \in [1 .. MaxCodes -> 0 .. MaxGuesses]
    /\ logins \in 0 .. MaxLogins
    /\ {login, row} \subseteq 0 .. logins
    /\ enabled \in BOOLEAN
    /\ status \in {"ACTIVE", "DISABLED"}
    /\ unheard \in BOOLEAN
    /\ \A c \in Client : task[c].step \in Step
    /\ faults \in 0 .. MaxFaults

\* "after OTP_MAX_ATTEMPTS wrong tries a code stops working": requests that try
\* at the same time can only add one try each to that, a failure one that is not
\* counted.
GuessesBounded ==
    \A c \in 1 .. MaxCodes : guesses[c] < OtpMaxAttempts + Cardinality(Client) + faults

\* The row of an account names a login that exists, however registrations of
\* the same address, their rollbacks and failures interleave.  There is one case
\* the code does not tell from a failed transaction, and rolls back: a commit
\* whose answer is lost.
RowHasLogin == row # 0 /\ ~unheard => login = row

\* A registration that fails leaves nothing behind: when all is quiet and
\* nothing broke, there is a login exactly if there is a row.
NoHalfAccount ==
    faults = 0 /\ (\A c \in Client : task[c] = Idle) => (login # 0 <=> row # 0)
=============================================================================
