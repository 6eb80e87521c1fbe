-------------------------- MODULE AuthenticationProofs --------------------------
(***************************************************************************)
(* Proofs about Authentication for any number of users, jobs, tokens and   *)
(* refreshes.  RenewalWatched is inductive beside the type invariant.      *)
(* FileResumes is not: it needs to know what a job at each of its places   *)
(* has already put into the account (Progress below).                      *)
(***************************************************************************)
EXTENDS Authentication, TLAPS

(* What the requests behind a job have left in the account, and that what  *)
(* is being written has both tokens.                                       *)
Progress ==
  \A j \in Jobs :
    /\ job[j].at # "idle" => job[j].user \in Users
    /\ job[j].at \in {"certificate", "community", "saving"} => account.oauth # None
    /\ job[j].at = "saving" =>
         account.bff # None /\ job[j].content.oauth # None /\ job[j].content.bff # None

SaveInv == FileResumes /\ Progress

(***************************************************************************)
(* Type correctness.                                                       *)
(***************************************************************************)

LEMMA InitTyped == Init => TypeOK
  BY AuthenticationAssumption, SMT
     DEF Init, TypeOK, Accounts, NoAccount, JobRecords, Idle, Places, Ages, Tokens

(* What the parts of authenticate() write is of the right type.            *)
LEMMA IssueTyped ==
  ASSUME NEW u \in Users \cup {None}, TypeOK, Issue(u)
  PROVE  /\ issued' \in 0 .. MaxTokens /\ issued' \in Tokens
         /\ owner' \in [Tokens -> Users \cup {None}]
         /\ age' \in [Tokens -> Ages]
  BY AuthenticationAssumption DEF Issue, TypeOK, Tokens

LEMMA StartSaveTyped ==
  ASSUME NEW j \in Jobs, NEW u \in Users \cup {None}, NEW a \in Accounts, TypeOK, StartSave(j, u, a)
  PROVE  job' \in [Jobs -> JobRecords]
<1> DEFINE others == {k \in Jobs \ {j} : job[k].at = "saving"}
<1>1. [at |-> "saving", user |-> u, content |-> a, overlapped |-> others # {}] \in JobRecords
  BY DEF JobRecords, Places
<1>2. ASSUME NEW k \in Jobs
      PROVE  [job[k] EXCEPT !.overlapped = job[k].overlapped \/ k \in others] \in JobRecords
  BY DEF TypeOK, JobRecords
<1> QED BY <1>1, <1>2 DEF StartSave

LEMMA MoveTyped ==
  ASSUME NEW j \in Jobs, NEW place \in Places, NEW u \in Users \cup {None}, TypeOK, MoveTo(j, place, u)
  PROVE  job' \in [Jobs -> JobRecords]
<1>1. [Idle EXCEPT !.at = place, !.user = u] \in JobRecords
  BY DEF Idle, JobRecords, NoAccount, Accounts, Places
<1> QED BY <1>1 DEF MoveTo, TypeOK

LEMMA EndTyped ==
  ASSUME NEW j \in Jobs, TypeOK, End(j)
  PROVE  job' \in [Jobs -> JobRecords]
<1>1. Idle \in JobRecords
  BY DEF Idle, JobRecords, NoAccount, Accounts, Places
<1> QED BY <1>1 DEF End, TypeOK

(* Where a job goes after the certificate: to the file or to the community.*)
LEMMA CommunityTyped ==
  ASSUME NEW j \in Jobs, NEW u \in Users \cup {None}, TypeOK, ToCommunity(j, u)
  PROVE  job' \in [Jobs -> JobRecords]
<1>1. account \in Accounts
  BY DEF TypeOK
<1>2. CASE StartSave(j, u, account)
  BY <1>1, <1>2, StartSaveTyped
<1>3. CASE MoveTo(j, "community", u)
  BY <1>3, MoveTyped DEF Places
<1> QED BY <1>2, <1>3 DEF ToCommunity

LEMMA StepTyped == TypeOK /\ Progress /\ FileResumes /\ [Next]_vars => TypeOK'
<1> SUFFICES ASSUME TypeOK, Progress, FileResumes, [Next]_vars
             PROVE  TypeOK'
  OBVIOUS
<1> USE AuthenticationAssumption
<1>1. ASSUME NEW j \in Jobs, NEW u \in Users, Connect(j, u)
      PROVE  TypeOK'
  <2>1. job' \in [Jobs -> JobRecords]
    BY <1>1, CommunityTyped, MoveTyped DEF Connect, Places
  <2> QED BY <1>1, <2>1 DEF Connect, TypeOK, serverVars, serviceVars
<1>2. ASSUME NEW j \in Jobs, LoggedIn(j)
      PROVE  TypeOK'
  <2>1. job[j].user \in Users \cup {None}
    BY DEF TypeOK, JobRecords
  <2>2. /\ issued' \in 0 .. MaxTokens /\ issued' \in Tokens
        /\ owner' \in [Tokens -> Users \cup {None}]
        /\ age' \in [Tokens -> Ages]
    BY <1>2, <2>1, IssueTyped DEF LoggedIn
  <2>3. account' \in Accounts
    BY <1>2, <2>2 DEF LoggedIn, TypeOK, Accounts
  <2>4. job' \in [Jobs -> JobRecords]
    BY <1>2, <2>1, MoveTyped DEF LoggedIn, Places
  <2> QED BY <1>2, <2>2, <2>3, <2>4 DEF LoggedIn, TypeOK, serviceVars
<1>3. ASSUME NEW j \in Jobs, CertificateArrives(j)
      PROVE  TypeOK'
  <2>1. account.oauth \in Tokens /\ job[j].user \in Users \cup {None}
    BY <1>3 DEF CertificateArrives, Progress, TypeOK, Accounts, JobRecords
  <2>2. account' \in Accounts
    BY <1>3, <2>1 DEF CertificateArrives, TypeOK, Accounts
  <2>3. job' \in [Jobs -> JobRecords]
    BY <1>3, <2>1, <2>2, StartSaveTyped, MoveTyped DEF CertificateArrives, Places
  <2> QED BY <1>3, <2>2, <2>3 DEF CertificateArrives, TypeOK, serverVars, serviceVars
<1>4. ASSUME NEW j \in Jobs, CommunityEntered(j)
      PROVE  TypeOK'
  <2>1. job[j].user \in Users \cup {None}
    BY DEF TypeOK, JobRecords
  <2>2. account' \in Accounts
    BY <1>4, <2>1 DEF CommunityEntered, TypeOK, Accounts
  <2>3. job' \in [Jobs -> JobRecords]
    BY <1>4, <2>1, <2>2, StartSaveTyped DEF CommunityEntered
  <2> QED BY <1>4, <2>2, <2>3 DEF CommunityEntered, TypeOK, serverVars, serviceVars
<1>5. ASSUME NEW j \in Jobs, RequestFails(j)
      PROVE  TypeOK'
  BY <1>5, EndTyped DEF RequestFails, TypeOK, serverVars, serviceVars
<1>6. ASSUME NEW j \in Jobs, Finish(j)
      PROVE  TypeOK'
  <2>1. job' \in [Jobs -> JobRecords]
    BY <1>6, EndTyped DEF Finish
  <2>2. file' \in Accounts \cup {None}
    BY <1>6 DEF Finish, TypeOK, JobRecords
  <2>3. /\ authState' \in [oauth : Tokens \cup {None}, bff : Users \cup {None}]
        /\ timer' \in Tokens \cup {None}
        /\ iotConfig' \in Users \cup {None}
    BY <1>6 DEF Finish, Authenticated, TypeOK, Accounts
  <2> QED BY <1>6, <2>1, <2>2, <2>3 DEF Finish, TypeOK, serverVars
<1>7. ASSUME NEW j \in Jobs, SaveFails(j)
      PROVE  TypeOK'
  BY <1>7, EndTyped DEF SaveFails, TypeOK, serverVars, serviceVars
<1>8. ASSUME NEW t \in Tokens, TimerFires(t)
      PROVE  TypeOK'
  <2>1. refreshing' \in [Tokens -> 0 .. MaxRefreshes]
    BY <1>8 DEF TimerFires, TypeOK
  <2> QED BY <1>8, <2>1 DEF TimerFires, TypeOK, serverVars
<1>9. ASSUME NEW t \in Tokens, Refreshed(t)
      PROVE  TypeOK'
  <2>1. owner[t] \in Users \cup {None}
    BY DEF TypeOK
  <2>2. /\ issued' \in 0 .. MaxTokens /\ issued' \in Tokens
        /\ owner' \in [Tokens -> Users \cup {None}]
        /\ age' \in [Tokens -> Ages]
    BY <1>9, <2>1, IssueTyped DEF Refreshed
  <2>3. refreshing' \in [Tokens -> 0 .. MaxRefreshes]
    BY <1>9 DEF Refreshed, TypeOK
  <2>4. /\ authState' \in [oauth : Tokens \cup {None}, bff : Users \cup {None}]
        /\ timer' \in Tokens \cup {None}
    BY <1>9, <2>2 DEF Refreshed, Authenticated, TypeOK
  <2> QED BY <1>9, <2>2, <2>3, <2>4 DEF Refreshed, TypeOK
<1>10. ASSUME NEW t \in Tokens, RefreshFails(t)
       PROVE  TypeOK'
  <2>1. refreshing' \in [Tokens -> 0 .. MaxRefreshes]
    BY <1>10 DEF RefreshFails, TypeOK
  <2> QED BY <1>10, <2>1 DEF RefreshFails, TypeOK, serverVars
<1>11. ASSUME NEW t \in Tokens, TimePasses(t)
       PROVE  TypeOK'
  <2>1. Later[age[t]] \in Ages
    BY <1>11 DEF TimePasses, TypeOK, Ages, Later
  <2> QED BY <1>11, <2>1 DEF TimePasses, TypeOK, serviceVars
<1>12. ASSUME Restart
       PROVE  TypeOK'
  <2>1. file' \in Accounts \cup {None}
    BY <1>12 DEF Restart, TypeOK, JobRecords
  <2>2. account' \in Accounts
    BY <1>12, <2>1 DEF Restart, NoAccount, Accounts
  <2>3. job' \in [Jobs -> JobRecords]
    BY <1>12 DEF Restart, Idle, NoAccount, Accounts, JobRecords, Places
  <2> QED BY <1>12, <2>1, <2>2, <2>3 DEF Restart, TypeOK, serverVars
<1>13. CASE UNCHANGED vars
  BY <1>13 DEF vars, serverVars, serviceVars, TypeOK
<1> QED
  BY <1>1, <1>2, <1>3, <1>4, <1>5, <1>6, <1>7, <1>8, <1>9, <1>10, <1>11, <1>12, <1>13
     DEF Next, Job, Renewal

(***************************************************************************)
(* The account on disk.                                                    *)
(***************************************************************************)

(* Starting a write of an account with both tokens, while the account in   *)
(* memory stays or becomes that one, keeps every job's progress.           *)
LEMMA StartSaveProgress ==
  ASSUME NEW j \in Jobs, NEW u \in Users, TypeOK, Progress,
         account'.oauth # None, account'.bff # None,
         StartSave(j, u, account')
  PROVE  Progress'
<1>1. /\ job'[j].at = "saving" /\ job'[j].content = account' /\ job'[j].user = u
      /\ \A k \in Jobs \ {j} : /\ job'[k].at = job[k].at /\ job'[k].user = job[k].user
                              /\ job'[k].content = job[k].content
  BY DEF StartSave, TypeOK, JobRecords
<1> QED BY <1>1 DEF Progress

(* A job that moves elsewhere keeps the progress of the others, when the   *)
(* account loses nothing.                                                  *)
LEMMA MoveProgress ==
  ASSUME NEW j \in Jobs, NEW place \in Places, NEW u \in Users, TypeOK, Progress,
         MoveTo(j, place, u),
         place # "saving",
         place \in {"certificate", "community"} => account'.oauth # None,
         account.oauth # None => account'.oauth # None,
         account.bff # None => account'.bff # None
  PROVE  Progress'
<1>1. /\ job'[j].at = place /\ job'[j].user = u
      /\ \A k \in Jobs \ {j} : job'[k] = job[k]
  BY DEF MoveTo, TypeOK, Idle
<1> QED BY <1>1 DEF Progress

LEMMA EndProgress ==
  ASSUME NEW j \in Jobs, TypeOK, Progress, End(j), account' = account
  PROVE  Progress'
<1>1. /\ job'[j].at = "idle"
      /\ \A k \in Jobs \ {j} : job'[k] = job[k]
  BY DEF End, TypeOK, Idle
<1> QED BY <1>1 DEF Progress

LEMMA SaveStep == TypeOK /\ SaveInv /\ [Next]_vars => SaveInv'
<1> SUFFICES ASSUME TypeOK, Progress, FileResumes, [Next]_vars
             PROVE  Progress' /\ FileResumes'
  BY DEF SaveInv
<1>1. ASSUME NEW j \in Jobs, NEW u \in Users, Connect(j, u)
      PROVE  Progress' /\ FileResumes'
  <2>1. account' = account /\ file' = file
    BY <1>1 DEF Connect
  <2>2. CASE MoveTo(j, "login", u)
    BY <2>1, <2>2, MoveProgress DEF Places, FileResumes
  <2>3. CASE Accepted(account.oauth) /\ MoveTo(j, "community", u)
    BY <2>1, <2>3, MoveProgress DEF Places, FileResumes, Accepted
  <2>4. CASE Accepted(account.oauth) /\ account.bff # None /\ StartSave(j, u, account)
    BY <2>1, <2>4, StartSaveProgress DEF Accepted, FileResumes
  <2> QED BY <1>1, <2>2, <2>3, <2>4 DEF Connect, ToCommunity
<1>2. ASSUME NEW j \in Jobs, LoggedIn(j)
      PROVE  Progress' /\ FileResumes'
  <2>1. issued' \in Tokens /\ job[j].user \in Users
    BY <1>2, AuthenticationAssumption DEF LoggedIn, Issue, TypeOK, Tokens, Progress
  <2>2. account'.oauth # None /\ account'.bff = account.bff /\ file' = file
    BY <1>2, <2>1, AuthenticationAssumption DEF LoggedIn, TypeOK, Accounts
  <2> QED BY <1>2, <2>1, <2>2, MoveProgress DEF LoggedIn, Places, FileResumes
<1>3. ASSUME NEW j \in Jobs, CertificateArrives(j)
      PROVE  Progress' /\ FileResumes'
  <2>1. /\ account'.oauth = account.oauth /\ account'.bff = account.bff
        /\ account.oauth # None /\ file' = file /\ job[j].user \in Users
    BY <1>3 DEF CertificateArrives, Progress, TypeOK, Accounts
  <2>2. CASE account.bff # None /\ StartSave(j, job[j].user, account')
    BY <2>1, <2>2, StartSaveProgress DEF FileResumes
  <2>3. CASE MoveTo(j, "community", job[j].user)
    BY <2>1, <2>3, MoveProgress DEF Places, FileResumes
  <2> QED BY <1>3, <2>2, <2>3 DEF CertificateArrives
<1>4. ASSUME NEW j \in Jobs, CommunityEntered(j)
      PROVE  Progress' /\ FileResumes'
  <2>1. /\ account'.oauth = account.oauth /\ account'.bff = job[j].user
        /\ account.oauth # None /\ file' = file /\ job[j].user \in Users
    BY <1>4 DEF CommunityEntered, Progress, TypeOK, Accounts
  <2> QED BY <1>4, <2>1, StartSaveProgress, AuthenticationAssumption
          DEF CommunityEntered, FileResumes
<1>5. ASSUME NEW j \in Jobs, RequestFails(j)
      PROVE  Progress' /\ FileResumes'
  BY <1>5, EndProgress DEF RequestFails, FileResumes
<1>6. ASSUME NEW j \in Jobs, Finish(j)
      PROVE  Progress' /\ FileResumes'
  <2>1. FileResumes'
    BY <1>6 DEF Finish, Progress, FileResumes
  <2> QED BY <1>6, <2>1, EndProgress DEF Finish
<1>7. ASSUME NEW j \in Jobs, SaveFails(j)
      PROVE  Progress' /\ FileResumes'
  BY <1>7, EndProgress DEF SaveFails, FileResumes
<1>8. ASSUME Restart
      PROVE  Progress' /\ FileResumes'
  <2>1. FileResumes'
    BY <1>8 DEF Restart, Progress, FileResumes
  <2>2. \A j \in Jobs : job'[j].at = "idle"
    BY <1>8 DEF Restart, Idle
  <2> QED BY <2>1, <2>2 DEF Progress
<1>9. CASE /\ UNCHANGED <<account, file, job>>
  BY <1>9 DEF Progress, FileResumes
<1> QED
  BY <1>1, <1>2, <1>3, <1>4, <1>5, <1>6, <1>7, <1>8, <1>9
     DEF Next, Job, Renewal, TimerFires, Refreshed, RefreshFails, TimePasses, vars

LEMMA InitSaved == Init => SaveInv
  BY DEF Init, SaveInv, FileResumes, Progress, Idle

(* THEOREM: the variables of Authentication keep their types, however      *)
(* connects, refreshes and restarts overlap.                               *)
THEOREM AuthenticationTyped == Spec => []TypeOK
<1>1. Init => TypeOK /\ SaveInv
  BY InitTyped, InitSaved
<1>2. TypeOK /\ SaveInv /\ [Next]_vars => (TypeOK /\ SaveInv)'
  BY StepTyped, SaveStep DEF SaveInv
<1> QED BY <1>1, <1>2, PTL DEF Spec

(* THEOREM: an account on disk always has the token of the account and the *)
(* token of the community, so a restart can continue with it.              *)
THEOREM AccountOnDisk == Spec => []FileResumes
<1>1. Init => TypeOK /\ SaveInv
  BY InitTyped, InitSaved
<1>2. TypeOK /\ SaveInv /\ [Next]_vars => (TypeOK /\ SaveInv)'
  BY StepTyped, SaveStep DEF SaveInv
<1>3. SaveInv => FileResumes
  BY DEF SaveInv
<1> QED BY <1>1, <1>2, <1>3, PTL DEF Spec

(***************************************************************************)
(* The renewal of the token in use.                                        *)
(***************************************************************************)

(* Only an emission of combineLatest, the timer itself and a restart touch *)
(* what RenewalWatched is about.                                           *)
LEMMA RenewalStep == TypeOK /\ RenewalWatched /\ [Next]_vars => RenewalWatched'
<1> SUFFICES ASSUME TypeOK, RenewalWatched, [Next]_vars
             PROVE  RenewalWatched'
  OBVIOUS
<1>1. ASSUME NEW t, NEW c, Authenticated(t, c)
      PROVE  RenewalWatched'
  BY <1>1 DEF Authenticated, RenewalWatched
<1>2. ASSUME NEW t \in Tokens, TimerFires(t)
      PROVE  RenewalWatched'
  BY <1>2 DEF TimerFires, RenewalWatched
<1>3. CASE Restart
  BY <1>3 DEF Restart, RenewalWatched
<1>4. CASE UNCHANGED <<authState, timer, asked>>
  BY <1>4 DEF RenewalWatched
<1> QED
  BY <1>1, <1>2, <1>3, <1>4
     DEF Next, Job, Renewal, Connect, LoggedIn, CertificateArrives, CommunityEntered, RequestFails,
         Finish, SaveFails, Refreshed, RefreshFails, TimePasses, serviceVars, vars

(* THEOREM: however connects and refreshes overlap or fail, the token in   *)
(* use has its timer armed or was already asked to be refreshed.           *)
THEOREM RenewalIsWatched == Spec => []RenewalWatched
<1>1. Init => RenewalWatched
  BY DEF Init, RenewalWatched
<1> QED BY <1>1, RenewalStep, AuthenticationTyped, PTL DEF Spec
===============================================================================
