---------------------------- MODULE Authentication ----------------------------
(***************************************************************************)
(* How the process authenticates with Govee and stays authenticated.  Every*)
(* connect() of the application becomes an AuthenticateCommand, whose      *)
(* handler (a job here) runs through up to three requests and a file write:*)
(*   GoveeAccountService.authenticate  log in, fetch the IoT certificate,  *)
(*                                     log in to the community             *)
(*   PersistResult                     write the account to a file         *)
(*   AuthenticateCommandHandler        pass the account on to AuthService  *)
(*                                     and to the channels                 *)
(* All jobs work on one persistedAccount, which a restart loads from the   *)
(* file.  AuthService arms a timer for the token it was given last; when   *)
(* the timer fires, the token is exchanged for a new one.                  *)
(***************************************************************************)
EXTENDS Integers

CONSTANTS
  Users,        \* who connect() may be called for
  Jobs,         \* AuthenticateCommands that can be in progress at a time
  None,         \* stands for undefined
  MaxTokens,    \* bound: OAuth tokens the servers issue
  MaxRefreshes  \* bound: requests in progress that refresh one token

Tokens == 1 .. MaxTokens

ASSUME AuthenticationAssumption ==
  /\ MaxTokens \in Nat \ {0} /\ MaxRefreshes \in Nat \ {0}
  /\ None \notin Users /\ None \notin Tokens

VARIABLES
  issued,       \* number of tokens issued so far; tokens are their numbers
  owner,        \* the user a token was issued to
  age,          \* where a token is in its life
  account,      \* GoveeAccountService.persistedAccount
  file,         \* govee.accountClient.json, None when missing or no JSON
  job,          \* the AuthenticateCommands
  authState,    \* AuthService.authState: the tokens of account and community
  timer,        \* the token whose timer switchMap keeps
  refreshing,   \* refresh requests in progress, by token
  iotConfig,    \* account of the last IoTChannelConfigReceivedEvent
  asked         \* history: tokens an AuthExpiringEvent was published for

serverVars == <<issued, owner, age>>
serviceVars == <<authState, timer, refreshing, iotConfig, asked>>
vars == <<serverVars, account, file, job, serviceVars>>

(* "ending": within refreshMargin of its expiry; "over": expired for less  *)
(* than a day; "dead": longer than that.                                   *)
Ages == {"fresh", "ending", "over", "dead"}
Later == [fresh |-> "ending", ending |-> "over", over |-> "dead"]

(* The fields of the account: its token, the user of the community token,  *)
(* and the user the IoT data (topic, account id) belong to.                *)
Accounts == [oauth : Tokens \cup {None}, bff : Users \cup {None}, iot : Users \cup {None}]
NoAccount == [oauth |-> None, bff |-> None, iot |-> None]

Places == {"idle", "login", "certificate", "community", "saving"}
JobRecords == [at : Places, user : Users \cup {None},
               content : Accounts, overlapped : BOOLEAN]
Idle == [at |-> "idle", user |-> None, content |-> NoAccount, overlapped |-> FALSE]

(* Type invariant: what is persisted is an account or nothing, the state   *)
(* and the timer hold tokens that exist, a job is at one of its awaits.    *)
TypeOK ==
  /\ issued \in 0 .. MaxTokens
  /\ owner \in [Tokens -> Users \cup {None}]
  /\ age \in [Tokens -> Ages]
  /\ account \in Accounts
  /\ file \in Accounts \cup {None}
  /\ job \in [Jobs -> JobRecords]
  /\ authState \in [oauth : Tokens \cup {None}, bff : Users \cup {None}]
  /\ timer \in Tokens \cup {None}
  /\ refreshing \in [Tokens -> 0 .. MaxRefreshes]
  /\ iotConfig \in Users \cup {None}
  /\ asked \subseteq Tokens

Init ==
  /\ issued = 0
  /\ owner = [t \in Tokens |-> None]
  /\ age = [t \in Tokens |-> "fresh"]
  /\ account = NoAccount
  /\ file = None
  /\ job = [j \in Jobs |-> Idle]
  /\ authState = [oauth |-> None, bff |-> None]
  /\ timer = None
  /\ refreshing = [t \in Tokens |-> 0]
  /\ iotConfig = None
  /\ asked = {}

-----------------------------------------------------------------------------
(* authenticate(): the part of it that runs without waiting.               *)

(* The server issues a token to u.                                         *)
Issue(u) ==
  /\ issued < MaxTokens
  /\ issued' = issued + 1
  /\ owner' = [owner EXCEPT ![issued + 1] = u]
  /\ UNCHANGED age

(* A token of the account is used as it is until it has expired for a day; *)
(* whose it is is not looked at.                                           *)
Accepted(t) == t # None /\ age[t] # "dead"

(* PersistResult: the account is serialised and the write begins.  Writes  *)
(* in progress at the same time get in each other's way.                   *)
StartSave(j, u, a) ==
  LET others == {k \in Jobs \ {j} : job[k].at = "saving"} IN
  job' = [k \in Jobs |->
            IF k = j THEN [at |-> "saving", user |-> u, content |-> a,
                           overlapped |-> others # {}]
            ELSE [job[k] EXCEPT !.overlapped = job[k].overlapped \/ k \in others]]

MoveTo(j, place, u) == job' = [job EXCEPT ![j] = [Idle EXCEPT !.at = place, !.user = u]]
End(j) == job' = [job EXCEPT ![j] = Idle]

(* authenticateWithCommunity: a community token is kept while it is        *)
(* accepted, which the passing of time may end at any moment.              *)
ToCommunity(j, u) ==
  \/ account.bff # None /\ StartSave(j, u, account)
  \/ MoveTo(j, "community", u)

(* connect(): AuthService.setCredentials and the saga lead to a new job,   *)
(* which runs up to its first request.                                     *)
Connect(j, u) ==
  /\ job[j].at = "idle"
  /\ IF Accepted(account.oauth) THEN ToCommunity(j, u) ELSE MoveTo(j, "login", u)
  /\ UNCHANGED <<serverVars, account, file, serviceVars>>

-----------------------------------------------------------------------------
(* The answers to the requests of a job.  A refused or timed out request   *)
(* throws: the job ends, and what it stored in the account stays.          *)

LoggedIn(j) ==
  /\ job[j].at = "login"
  /\ Issue(job[j].user)
  /\ account' = [account EXCEPT !.oauth = issued']
  /\ MoveTo(j, "certificate", job[j].user)
  /\ UNCHANGED <<file, serviceVars>>

(* The IoT data takes topic and account id from the account of the moment. *)
CertificateArrives(j) ==
  /\ job[j].at = "certificate"
  /\ account' = [account EXCEPT !.iot = owner[account.oauth]]
  /\ \/ account.bff # None /\ StartSave(j, job[j].user, account')
     \/ MoveTo(j, "community", job[j].user)
  /\ UNCHANGED <<serverVars, file, serviceVars>>

CommunityEntered(j) ==
  /\ job[j].at = "community"
  /\ account' = [account EXCEPT !.bff = job[j].user]
  /\ StartSave(j, job[j].user, account')
  /\ UNCHANGED <<serverVars, file, serviceVars>>

(* Mutant of RequestFails: the account is written whatever happens.         *)
RequestFailsSaved(j) ==
  /\ job[j].at \in {"login", "certificate", "community"}
  /\ file' = account
  /\ End(j)
  /\ UNCHANGED <<serverVars, account, serviceVars>>

RequestFails(j) ==
  /\ job[j].at \in {"login", "certificate", "community"}
  /\ End(j)
  /\ UNCHANGED <<serverVars, account, file, serviceVars>>

-----------------------------------------------------------------------------
(* AuthService and the end of a job.                                       *)

(* Mutant of Authenticated: the state is replaced by the account's data.    *)
AuthenticatedAlone(t, c) ==
  /\ authState' = [oauth |-> t]
  /\ timer' = t

(* Mutant of Authenticated: exhaustMap, a running timer is kept.            *)
AuthenticatedOnce(t, c) ==
  /\ authState' = [oauth |-> t, bff |-> c]
  /\ timer' = IF timer # None THEN timer ELSE t

(* combineLatest([authData, communityData]): the state is stored, and      *)
(* switchMap drops the timer of the token before and arms one for t.       *)
Authenticated(t, c) ==
  /\ authState' = [oauth |-> t, bff |-> c]
  /\ timer' = t

(* The write is done.  The handler does not pass on what was written but   *)
(* the account as it is by now.                                            *)
Finish(j) ==
  /\ job[j].at = "saving"
  /\ file' \in IF job[j].overlapped THEN {job[j].content, file, None} ELSE {job[j].content}
  /\ Authenticated(account.oauth, account.bff)
  /\ iotConfig' = IF account.iot # None THEN account.iot ELSE iotConfig
  /\ End(j)
  /\ UNCHANGED <<serverVars, account, refreshing, asked>>

SaveFails(j) ==
  /\ job[j].at = "saving"
  /\ file' \in {file, None}
  /\ End(j)
  /\ UNCHANGED <<serverVars, account, serviceVars>>

(* Mutant of TimerFires: no Math.max(0, ...), so none fires late.           *)
TimerFiresOnTime(t) ==
  /\ timer = t /\ t # None
  /\ age[t] = "ending"
  /\ refreshing[t] < MaxRefreshes
  /\ refreshing' = [refreshing EXCEPT ![t] = @ + 1]
  /\ asked' = asked \cup {t}
  /\ timer' = None
  /\ UNCHANGED <<serverVars, account, file, job, authState, iotConfig>>

(* The timer fires refreshMargin before the token expires, or at once when *)
(* that has passed; the saga sends a RefreshAuthenticationCommand.         *)
TimerFires(t) ==
  /\ timer = t /\ t # None
  /\ age[t] # "fresh"
  /\ refreshing[t] < MaxRefreshes
  /\ refreshing' = [refreshing EXCEPT ![t] = @ + 1]
  /\ asked' = asked \cup {t}
  /\ timer' = None
  /\ UNCHANGED <<serverVars, account, file, job, authState, iotConfig>>

(* The new token goes to AuthService only; account and file keep the old.  *)
Refreshed(t) ==
  /\ refreshing[t] > 0
  /\ Issue(owner[t])
  /\ refreshing' = [refreshing EXCEPT ![t] = @ - 1]
  /\ Authenticated(issued', authState.bff)
  /\ UNCHANGED <<account, file, job, iotConfig, asked>>

RefreshFails(t) ==
  /\ refreshing[t] > 0
  /\ refreshing' = [refreshing EXCEPT ![t] = @ - 1]
  /\ UNCHANGED <<serverVars, account, file, job, authState, timer, iotConfig, asked>>

-----------------------------------------------------------------------------
(* The environment.                                                        *)

TimePasses(t) ==
  /\ t <= issued /\ age[t] # "dead"
  /\ age' = [age EXCEPT ![t] = Later[@]]
  /\ UNCHANGED <<issued, owner, account, file, job, serviceVars>>

(* The process dies and starts again.  A write in progress may be done,    *)
(* not begun, or have left a file that is no JSON, which loads as no       *)
(* account at all.                                                         *)
Restart ==
  /\ \/ file' = file
     \/ \E j \in Jobs : job[j].at = "saving" /\ file' \in {job[j].content, None}
  /\ account' = IF file' = None THEN NoAccount ELSE file'
  /\ job' = [j \in Jobs |-> Idle]
  /\ authState' = [oauth |-> None, bff |-> None]
  /\ timer' = None
  /\ refreshing' = [t \in Tokens |-> 0]
  /\ iotConfig' = None
  /\ asked' = {}
  /\ UNCHANGED serverVars

Job(j) ==
  \/ \E u \in Users : Connect(j, u)
  \/ LoggedIn(j) \/ CertificateArrives(j) \/ CommunityEntered(j) \/ RequestFails(j)
  \/ Finish(j) \/ SaveFails(j)

Renewal(t) == TimerFires(t) \/ Refreshed(t) \/ RefreshFails(t)

Next ==
  \/ \E j \in Jobs : Job(j)
  \/ \E t \in Tokens : Renewal(t) \/ TimePasses(t)
  \/ Restart

Spec == Init /\ [][Next]_vars

(* The timers of the process fire, and every request is answered, refused  *)
(* or given up after its timeout of 10 s (request.util.ts).                *)
Fairness ==
  \A t \in Tokens : WF_vars(TimerFires(t)) /\ WF_vars(Refreshed(t) \/ RefreshFails(t))

FairSpec == Spec /\ Fairness

-----------------------------------------------------------------------------
(* Properties.                                                             *)

(* A token in use is never left without its renewal: its timer is armed,   *)
(* or it has fired (AuthService, however connects and refreshes overlap).  *)
RenewalWatched ==
  authState.oauth # None => timer = authState.oauth \/ authState.oauth \in asked

(* Whatever failed or overlapped, the account on disk is one a restart can *)
(* continue with: PersistResult writes none that lacks one of its tokens.  *)
FileResumes == file # None => file.oauth # None /\ file.bff # None

(* A token that comes within refreshMargin of its expiry is eventually     *)
(* asked to be refreshed, unless another token has taken its place.        *)
RenewalAsked ==
  \A t \in Tokens :
    (authState.oauth = t /\ age[t] # "fresh") ~> (t \in asked \/ authState.oauth # t)

(* What the README says of connect(username, password): it connects using  *)
(* the user's credentials, so the token in use afterwards is that user's.  *)
ConnectsAsUser ==
  [][\A j \in Jobs : Finish(j) => owner[authState'.oauth] = job[j].user]_vars
=============================================================================
