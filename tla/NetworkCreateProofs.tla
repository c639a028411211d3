------------------------- MODULE NetworkCreateProofs -------------------------
(***************************************************************************)
(* Proofs about NetworkCreate, for every content of the socket path at the *)
(* start. One inductive invariant, IInv, carries the safety properties, the *)
(* action property and the steps of the refinement of LaunchContract.      *)
(***************************************************************************)
EXTENDS NetworkCreate, Naturals, TLAPS

(* Type correctness: no step leaves the sets the variables are declared in. *)
LEMMA TypeInit == Init => TypeOK
  BY SocketAtStartAssumption DEF Init, TypeOK, Pending, Result, MailState,
     Message, Alive, NoMessage

LEMMA TypeStep == TypeOK /\ [Next]_vars => TypeOK'
<1> SUFFICES ASSUME TypeOK, [Next]_vars PROVE TypeOK'
  OBVIOUS
<1> USE DEF TypeOK, Pending, Result, MailState, Message, Alive, NoMessage,
           provider, notifySocket, runnerVars
<1>1. CASE StartListener
  <2>1. listening' \in BOOLEAN /\ notifyFile' \in BOOLEAN
    BY <1>1 DEF StartListener
  <2> QED
    BY <1>1, <2>1 DEF StartListener
<1>2. CASE ListenFails
  BY <1>2 DEF ListenFails, Return
<1>3. CASE OpenLog
  BY <1>3 DEF OpenLog
<1>4. CASE OpenLogFails
  BY <1>4 DEF OpenLogFails, Return
<1>5. CASE StartRunner
  BY <1>5 DEF StartRunner
<1>6. CASE StartFails
  <2>1. listening' \in BOOLEAN /\ notifyFile' \in BOOLEAN
    BY <1>6 DEF StartFails, CloseNotification
  <2> QED
    BY <1>6, <2>1 DEF StartFails, Return
<1>7. CASE AwaitResult
  BY <1>7 DEF AwaitResult
<1>8. CASE AwaitTimeout
  BY <1>8 DEF AwaitTimeout
<1>9. CASE CloseListener
  <2>1. listening' \in BOOLEAN /\ notifyFile' \in BOOLEAN
    BY <1>9 DEF CloseListener, CloseNotification
  <2> QED
    BY <1>9, <2>1 DEF CloseListener
<1>10. CASE AbortRunner
  BY <1>10 DEF AbortRunner, KillAndWait, RunnerGone
<1>11. CASE Commit
  BY <1>11 DEF Commit
<1>12. CASE AcceptFails
  BY <1>12 DEF AcceptFails, Finish, DoneHasRoom
<1>13. CASE ReadConfig
  BY <1>13 DEF ReadConfig
<1>14. CASE BuildNetwork
  BY <1>14 DEF BuildNetwork
<1>15. CASE BuildNetworkFails
  BY <1>15 DEF BuildNetworkFails, Send
<1>16. CASE BindSocket
  BY <1>16 DEF BindSocket
<1>17. CASE BindFails
  BY <1>17 DEF BindFails, Send
<1>18. CASE SendReady
  BY <1>18 DEF SendReady, Send
<1>19. CASE ServingCancelled
  BY <1>19 DEF ServingCancelled
<1>20. CASE ServingFails
  BY <1>20 DEF ServingFails, Send
<1>21. CASE RemoveSocket
  BY <1>21 DEF RemoveSocket
<1>22. CASE RunnerDies
  BY <1>22 DEF RunnerDies, RunnerGone
<1>23. CASE Interrupt
  <2>1. ctxDone' \in BOOLEAN
    BY <1>23 DEF Interrupt
  <2> QED
    BY <1>23, <2>1 DEF Interrupt
<1>24. CASE \E m \in Message : Accept(m)
  BY <1>24 DEF Accept
<1>25. CASE \E m \in Message : Decode(m)
  BY <1>25 DEF Decode, Finish, DoneHasRoom
<1>26. CASE \E m \in Message : DecodeFails(m)
  BY <1>26 DEF DecodeFails
<1>27. CASE \E m \in Message : SenderDials(m)
  BY <1>27 DEF SenderDials
<1>28. CASE \E m \in Message : SenderDialFails(m) \/ SenderWrites(m)
  BY <1>28 DEF SenderDialFails, SenderWrites
<1>29. CASE ProviderCrash
  <2>1. listening' \in BOOLEAN /\ notifyFile' \in BOOLEAN
    BY <1>29 DEF ProviderCrash
  <2>2. mail' \in [Message -> MailState]
    BY <1>29 DEF ProviderCrash
  <2> QED
    BY <1>29, <2>1, <2>2 DEF ProviderCrash
<1>30. CASE UNCHANGED vars
  BY <1>30 DEF vars
<1> QED
  BY <1>1, <1>2, <1>3, <1>4, <1>5, <1>6, <1>7, <1>8, <1>9, <1>10, <1>11,
     <1>12, <1>13, <1>14, <1>15, <1>16, <1>17, <1>18, <1>19, <1>20, <1>21,
     <1>22, <1>23, <1>24, <1>25, <1>26, <1>27, <1>28, <1>29, <1>30 DEF Next,
     CreateSteps, WaiterSteps, RunnerSteps

THEOREM TypeCorrect == Spec => []TypeOK
  BY TypeInit, TypeStep, PTL DEF Spec

-----------------------------------------------------------------------------
(***************************************************************************)
(* The inductive invariant. The properties speak of a Create that returned; *)
(* the invariant says, for every point of Create and of the runner, what    *)
(* has already happened: whether a runner was started, whether the listener *)
(* is closed, who owns the socket, and what a "ready" stands for.           *)
(***************************************************************************)
Stopping == ctxDone \/ mail["hypervisor_error"] # "unsent"

\* Create and the runner it starts.
LaunchInv ==
    /\ create \in {"listen", "log", "start"} => runner = "none"
    /\ create \in {"await", "close", "settle", "committed"} => runner # "none"
    /\ NoRunnerLeftBehind

\* Create and its listener.
ListenerInv ==
    /\ create \in {"settle", "committed"} => ~listening /\ ~notifyFile
    /\ NotifySocketCleaned

\* The runner, its socket and its messages.
RunnerInv ==
    /\ runner \in {"none", "boot", "setup", "bind"}
          => sock \in {"absent", "foreign"}
    /\ runner \in {"announce", "serving", "unlink"} => sock = "bound"
    /\ runner \in {"none", "boot", "setup", "bind", "announce"}
          => mail["ready"] = "unsent"
    /\ runner \in {"serving", "unlink"} => mail["ready"] # "unsent"
    /\ runner = "unlink" => Stopping
    /\ runner = "exiting" => Stopping \/ mail["ready"] = "unsent"

\* A message that the provider holds, or is reading, was sent.
ReadyInv ==
    /\ \A m \in Message : conn = m => mail[m] # "unsent"
    /\ "ready" \in {done, result} => mail["ready"] # "unsent"
    /\ create = "committed" => result = "ready"

IInv == LaunchInv /\ ListenerInv /\ RunnerInv /\ ReadyInv

LEMMA InvInit == Init => IInv
  BY SocketAtStartAssumption DEF Init, IInv, LaunchInv, ListenerInv, RunnerInv,
     ReadyInv, NoRunnerLeftBehind, NotifySocketCleaned, Returned, Message,
     NoMessage

\* Only Create starts or reaps the runner; the runner itself never becomes
\* "none", nor comes back to life.
LEMMA LaunchStep == TypeOK /\ IInv /\ [Next]_vars => LaunchInv'
<1> SUFFICES ASSUME TypeOK, LaunchInv, [Next]_vars PROVE LaunchInv'
  BY DEF IInv
<1> USE DEF LaunchInv, NoRunnerLeftBehind, provider, runnerVars
<1>1. CASE CreateSteps
  BY <1>1 DEF CreateSteps, StartListener, ListenFails, OpenLog, OpenLogFails,
     StartRunner, StartFails, AwaitResult, AwaitTimeout, CloseListener,
     AbortRunner, Commit, Return, KillAndWait, RunnerGone
<1>2. CASE WaiterSteps
  BY <1>2 DEF WaiterSteps, AcceptFails, Accept, Decode, DecodeFails
<1>3. CASE RunnerSteps
  <2>1. /\ create' = create
        /\ runner \notin Alive => runner' = runner
        /\ runner' = "none" => runner = "none"
    BY <1>3 DEF RunnerSteps, ReadConfig, BuildNetwork, BuildNetworkFails,
       BindSocket, BindFails, SendReady, ServingCancelled, ServingFails,
       RemoveSocket, RunnerDies, Interrupt, SenderDials, SenderDialFails,
       SenderWrites, RunnerGone, Alive
  <2> QED
    BY <2>1 DEF Alive
<1>4. CASE ProviderCrash
  BY <1>4 DEF ProviderCrash
<1>5. CASE UNCHANGED vars
  BY <1>5 DEF vars
<1> QED
  BY <1>1, <1>2, <1>3, <1>4, <1>5 DEF Next

\* The listener is touched by Create alone. "settle" is entered only by
\* closing it, and a Create that fails earlier has not started a runner.
LEMMA ListenerStep == TypeOK /\ IInv /\ [Next]_vars => ListenerInv'
<1> SUFFICES ASSUME TypeOK, LaunchInv, ListenerInv, [Next]_vars
             PROVE  ListenerInv'
  BY DEF IInv
<1> USE DEF LaunchInv, ListenerInv, NotifySocketCleaned, Returned,
            notifySocket, provider, runnerVars
<1>1. CASE CreateSteps
  BY <1>1 DEF CreateSteps, StartListener, ListenFails, OpenLog, OpenLogFails,
     StartRunner, StartFails, AwaitResult, AwaitTimeout, CloseListener,
     AbortRunner, Commit, Return, CloseNotification, KillAndWait, RunnerGone
<1>2. CASE WaiterSteps
  BY <1>2 DEF WaiterSteps, AcceptFails, Accept, Decode, DecodeFails
<1>3. CASE RunnerSteps
  <2>1. create' = create /\ notifySocket' = notifySocket
    BY <1>3 DEF RunnerSteps, ReadConfig, BuildNetwork, BuildNetworkFails,
       BindSocket, BindFails, SendReady, ServingCancelled, ServingFails,
       RemoveSocket, RunnerDies, Interrupt, SenderDials, SenderDialFails,
       SenderWrites
  <2>2. runner = "none" => runner' = "none"
    BY <1>3 DEF RunnerSteps, ReadConfig, BuildNetwork, BuildNetworkFails,
       BindSocket, BindFails, SendReady, ServingCancelled, ServingFails,
       RemoveSocket, RunnerDies, Interrupt, SenderDials, SenderDialFails,
       SenderWrites, RunnerGone, Alive
  <2> QED
    BY <2>1, <2>2
<1>4. CASE ProviderCrash
  BY <1>4 DEF ProviderCrash, Pending
<1>5. CASE UNCHANGED vars
  BY <1>5 DEF vars
<1> QED
  BY <1>1, <1>2, <1>3, <1>4, <1>5 DEF Next

\* A message that was sent stays sent: of all the steps only Send moves it
\* from "unsent", and no step moves it back.
LEMMA SentStays ==
    ASSUME TypeOK, [Next]_vars, NEW m \in Message, mail[m] # "unsent"
    PROVE  mail'[m] # "unsent"
<1> USE DEF TypeOK, provider, runnerVars
<1>1. CASE CreateSteps
  BY <1>1 DEF CreateSteps, StartListener, ListenFails, OpenLog, OpenLogFails,
     StartRunner, StartFails, AwaitResult, AwaitTimeout, CloseListener,
     AbortRunner, Commit, KillAndWait, RunnerGone
<1>2. CASE WaiterSteps
  BY <1>2 DEF WaiterSteps, AcceptFails, Accept, Decode, DecodeFails
<1>3. CASE RunnerSteps
  BY <1>3 DEF RunnerSteps, ReadConfig, BuildNetwork, BuildNetworkFails,
     BindSocket, BindFails, SendReady, ServingCancelled, ServingFails,
     RemoveSocket, RunnerDies, Interrupt, SenderDials, SenderDialFails,
     SenderWrites, Send, RunnerGone
<1>4. CASE ProviderCrash
  BY <1>4 DEF ProviderCrash
<1>5. CASE UNCHANGED vars
  BY <1>5 DEF vars
<1> QED
  BY <1>1, <1>2, <1>3, <1>4, <1>5 DEF Next

\* Other processes' steps neither send a first message nor move the runner.
LEMMA RunnerStep == TypeOK /\ IInv /\ [Next]_vars => RunnerInv'
<1> SUFFICES ASSUME TypeOK, LaunchInv, RunnerInv, ReadyInv,
                    [Next]_vars
             PROVE  RunnerInv'
  BY DEF IInv
<1>0. /\ mail["hypervisor_error"] # "unsent"
            => mail'["hypervisor_error"] # "unsent"
      /\ mail["ready"] # "unsent" => mail'["ready"] # "unsent"
      /\ "ready" \in Message /\ "hypervisor_error" \in Message
  BY SentStays DEF Message
<1> USE DEF TypeOK, LaunchInv, RunnerInv, Stopping, provider, runnerVars
<1>1. CASE CreateSteps
  <2>1. CASE StartRunner
    BY <2>1 DEF StartRunner
  <2>2. CASE AbortRunner
    BY <2>2, <1>0 DEF AbortRunner, KillAndWait, RunnerGone
  <2>3. CASE UNCHANGED <<mail, runnerVars>>
    BY <2>3
  <2> QED
    BY <1>1, <2>1, <2>2, <2>3 DEF CreateSteps, StartListener, ListenFails,
       OpenLog, OpenLogFails, StartFails, AwaitResult, AwaitTimeout,
       CloseListener, Commit
<1>2. CASE WaiterSteps
  <2>1. UNCHANGED runnerVars
    BY <1>2 DEF WaiterSteps, AcceptFails, Accept, Decode, DecodeFails
  <2>2. mail["ready"] = "unsent" <=> mail'["ready"] = "unsent"
    BY <1>2, <1>0 DEF WaiterSteps, AcceptFails, Accept, Decode, DecodeFails
  <2> QED
    BY <2>1, <2>2, <1>0
<1>3. CASE RunnerSteps
  <2>1. CASE ReadConfig
    BY <2>1 DEF ReadConfig
  <2>2. CASE BuildNetwork
    BY <2>2 DEF BuildNetwork
  <2>3. CASE BuildNetworkFails
    BY <2>3, <1>0 DEF BuildNetworkFails, Send
  <2>4. CASE BindSocket
    BY <2>4 DEF BindSocket
  <2>5. CASE BindFails
    BY <2>5, <1>0 DEF BindFails, Send
  <2>6. CASE SendReady
    BY <2>6, <1>0 DEF SendReady, Send
  <2>7. CASE ServingCancelled
    BY <2>7 DEF ServingCancelled
  <2>8. CASE ServingFails
    BY <2>8, <1>0 DEF ServingFails, Send
  <2>9. CASE RemoveSocket
    BY <2>9 DEF RemoveSocket
  <2>10. CASE RunnerDies
    BY <2>10 DEF RunnerDies, RunnerGone
  <2>11. CASE Interrupt
    BY <2>11 DEF Interrupt
  <2>12. ASSUME NEW m \in Message,
                SenderDials(m) \/ SenderDialFails(m) \/ SenderWrites(m)
         PROVE  RunnerInv'
    <3>1. UNCHANGED <<runner, ctxDone, sock>> /\ mail[m] # "unsent"
      BY <2>12 DEF SenderDials, SenderDialFails, SenderWrites, NextToSend
    <3>2. mail["ready"] = "unsent" => mail'["ready"] = "unsent"
      BY <2>12, <3>1, <1>0 DEF SenderDials, SenderDialFails, SenderWrites
    <3> QED
      BY <3>1, <3>2, <1>0
  <2> QED
    BY <1>3, <2>1, <2>2, <2>3, <2>4, <2>5, <2>6, <2>7, <2>8, <2>9, <2>10,
       <2>11, <2>12 DEF RunnerSteps
<1>4. CASE ProviderCrash
  <2>1. mail["ready"] = "unsent" => mail'["ready"] = "unsent"
    BY <1>4, <1>0 DEF ProviderCrash, ReadyInv
  <2> QED
    BY <1>4, <1>0, <2>1 DEF ProviderCrash
<1>5. CASE UNCHANGED vars
  BY <1>5 DEF vars
<1> QED
  BY <1>1, <1>2, <1>3, <1>4, <1>5 DEF Next

LEMMA ReadyStep == TypeOK /\ IInv /\ [Next]_vars => ReadyInv'
<1> SUFFICES ASSUME TypeOK, RunnerInv, ReadyInv, [Next]_vars
             PROVE  ReadyInv'
  BY DEF IInv
<1>0. /\ \A m \in Message : mail[m] # "unsent" => mail'[m] # "unsent"
      /\ "ready" \in Message
  BY SentStays DEF Message
<1> USE DEF TypeOK, ReadyInv, provider, runnerVars
<1>1. CASE CreateSteps
  <2>1. conn' = conn
    BY <1>1 DEF CreateSteps, StartListener, ListenFails, OpenLog, OpenLogFails,
       StartRunner, StartFails, AwaitResult, AwaitTimeout, CloseListener,
       AbortRunner, Commit
  <2>2. "ready" \in {done', result'} => "ready" \in {done, result}
    BY <1>1 DEF CreateSteps, StartListener, ListenFails, OpenLog, OpenLogFails,
       StartRunner, StartFails, AwaitResult, AwaitTimeout, CloseListener,
       AbortRunner, Commit, Return
  <2>3. create' = "committed" => result' = "ready"
    BY <1>1 DEF CreateSteps, StartListener, ListenFails, OpenLog, OpenLogFails,
       StartRunner, StartFails, AwaitResult, AwaitTimeout, CloseListener,
       AbortRunner, Commit, Return
  <2> QED
    BY <2>1, <2>2, <2>3, <1>0
<1>2. CASE WaiterSteps
  <2>1. CASE AcceptFails
    BY <2>1, <1>0 DEF AcceptFails, Finish
  <2>2. ASSUME NEW m \in Message, Accept(m) PROVE ReadyInv'
    BY <2>2, <1>0 DEF Accept
  <2>3. ASSUME NEW m \in Message, Decode(m) PROVE ReadyInv'
    BY <2>3, <1>0 DEF Decode, Finish, NoMessage, Message
  <2>4. ASSUME NEW m \in Message, DecodeFails(m) PROVE ReadyInv'
    BY <2>4, <1>0 DEF DecodeFails, NoMessage, Message
  <2> QED
    BY <1>2, <2>1, <2>2, <2>3, <2>4 DEF WaiterSteps
<1>3. CASE RunnerSteps
  <2>1. UNCHANGED <<provider, conn>>
    BY <1>3 DEF RunnerSteps, ReadConfig, BuildNetwork, BuildNetworkFails,
       BindSocket, BindFails, SendReady, ServingCancelled, ServingFails,
       RemoveSocket, RunnerDies, Interrupt, SenderDials, SenderDialFails,
       SenderWrites
  <2> QED
    BY <2>1, <1>0
<1>4. CASE ProviderCrash
  BY <1>4, <1>0 DEF ProviderCrash, NoMessage, Message
<1>5. CASE UNCHANGED vars
  BY <1>5 DEF vars
<1> QED
  BY <1>1, <1>2, <1>3, <1>4, <1>5 DEF Next

\* What every reachable state satisfies.
LEMMA Invariance == Spec => [](TypeOK /\ IInv)
<1>1. Init => TypeOK /\ IInv
  BY TypeInit, InvInit
<1>2. TypeOK /\ IInv /\ [Next]_vars => TypeOK' /\ IInv'
  BY TypeStep, LaunchStep, ListenerStep, RunnerStep, ReadyStep DEF IInv
<1> QED
  BY <1>1, <1>2, PTL DEF Spec

-----------------------------------------------------------------------------
(* A committed record never names a runner that has yet to bind its socket: *)
(* "ready" is sent after the bind, and only "ready" commits.                *)
THEOREM CommittedNetworkIsReachable == Spec => []ReadyMeansReachable
<1>1. TypeOK /\ IInv => ReadyMeansReachable
  BY DEF TypeOK, IInv, LaunchInv, RunnerInv, ReadyInv, ReadyMeansReachable,
     Stopping, Alive
<1> QED
  BY <1>1, Invariance, PTL

(* No Create that returns an error leaves a runner that no record names.   *)
THEOREM FailedCreateStopsRunner == Spec => []NoRunnerLeftBehind
<1>1. IInv => NoRunnerLeftBehind
  BY DEF IInv, LaunchInv
<1> QED
  BY <1>1, Invariance, PTL

(* Once a runner was started, Create returns only with the notification    *)
(* listener closed and its file removed.                                   *)
THEOREM NotificationSocketRemoved == Spec => []NotifySocketCleaned
<1>1. IInv => NotifySocketCleaned
  BY DEF IInv, ListenerInv
<1> QED
  BY <1>1, Invariance, PTL

(* The listener and its file are left behind in one place only, the return *)
(* for a log file that cannot be opened: after every other return, whether *)
(* or not a runner was started, both are gone.                             *)
OnlyLogErrorLeaks ==
    Returned /\ result # "log_error" => ~listening /\ ~notifyFile

LeakInv ==
    /\ create = "listen" => ~listening /\ ~notifyFile
    /\ OnlyLogErrorLeaks

THEOREM OnlyLogErrorLeaksNotification == Spec => []OnlyLogErrorLeaks
<1>1. Init => LeakInv
  BY DEF Init, LeakInv, OnlyLogErrorLeaks, Returned
<1>2. IInv /\ LeakInv /\ [Next]_vars => LeakInv'
  <2> SUFFICES ASSUME ListenerInv, LeakInv, [Next]_vars PROVE LeakInv'
    BY DEF IInv
  <2> USE DEF LeakInv, OnlyLogErrorLeaks, Returned, notifySocket, provider
  <2>1. CASE CreateSteps
    BY <2>1 DEF CreateSteps, StartListener, ListenFails, OpenLog,
       OpenLogFails, StartRunner, StartFails, AwaitResult, AwaitTimeout,
       CloseListener, CloseNotification, AbortRunner, Commit, Return,
       ListenerInv
  <2>2. CASE WaiterSteps
    BY <2>2 DEF WaiterSteps, AcceptFails, Accept, Decode, DecodeFails
  <2>3. CASE RunnerSteps
    BY <2>3 DEF RunnerSteps, ReadConfig, BuildNetwork, BuildNetworkFails,
       BindSocket, BindFails, SendReady, ServingCancelled, ServingFails,
       RemoveSocket, RunnerDies, Interrupt, SenderDials, SenderDialFails,
       SenderWrites
  <2>4. CASE ProviderCrash
    BY <2>4 DEF ProviderCrash
  <2>5. CASE UNCHANGED vars
    BY <2>5 DEF vars
  <2> QED
    BY <2>1, <2>2, <2>3, <2>4, <2>5 DEF Next
<1>3. LeakInv => OnlyLogErrorLeaks
  BY DEF LeakInv
<1> QED
  BY <1>1, <1>2, <1>3, Invariance, PTL DEF Spec

(* No step removes or replaces a file that was at the runner's path before. *)
THEOREM ForeignSocketKept == Spec => ForeignSocketUntouched
<1>1. TypeOK /\ IInv /\ [Next]_vars
        => [sock = "foreign" => sock' = "foreign"]_vars
  <2> SUFFICES ASSUME TypeOK, RunnerInv, Next, sock = "foreign"
               PROVE  sock' = "foreign"
    BY DEF IInv
  <2> USE DEF runnerVars
  <2>1. CASE CreateSteps
    BY <2>1 DEF CreateSteps, StartListener, ListenFails, OpenLog, OpenLogFails,
       StartRunner, StartFails, AwaitResult, AwaitTimeout, CloseListener,
       AbortRunner, Commit, KillAndWait, RunnerGone
  <2>2. CASE WaiterSteps
    BY <2>2 DEF WaiterSteps, AcceptFails, Accept, Decode, DecodeFails
  <2>3. CASE RunnerSteps
    BY <2>3 DEF RunnerSteps, ReadConfig, BuildNetwork, BuildNetworkFails,
       BindSocket, BindFails, SendReady, ServingCancelled, ServingFails,
       RemoveSocket, RunnerDies, Interrupt, SenderDials, SenderDialFails,
       SenderWrites, RunnerGone, RunnerInv
  <2>4. CASE ProviderCrash
    BY <2>4 DEF ProviderCrash
  <2> QED
    BY <2>1, <2>2, <2>3, <2>4 DEF Next
<1> QED
  BY <1>1, Invariance, PTL DEF Spec, ForeignSocketUntouched

-----------------------------------------------------------------------------
(***************************************************************************)
(* Why the waiter ends. That it does, once it is scheduled, is a liveness   *)
(* property; what is proved here is all that this needs of the code: it is  *)
(* never blocked for good once Create returned and closed the listener, and *)
(* every step it takes, of which there are at most five, brings it nearer   *)
(* to its end.                                                             *)
(***************************************************************************)

\* A waiter that still runs has sent nothing, and what it reads is readable
\* or will be cut off with the runner.
WaiterInv ==
    /\ waiter \in {"none", "accept", "decode"}
          => done = "empty" /\ result \notin Message \cup {"accept_error"}
    /\ waiter = "decode"
          => conn \in Message /\ mail[conn] \in {"dialled", "written", "cut"}
    /\ runner \in {"none", "dead"} => \A m \in Message : mail[m] # "dialled"
    /\ runner \in {"none", "boot", "setup", "bind", "announce", "serving"}
          => mail["hypervisor_error"] = "unsent"
    /\ create = "listen" => waiter = "none"
    /\ create = "crashed" => waiter \in {"none", "finished"}

\* The guards of the waiter's steps, but for Accept, which needs a listener.
WaiterCanStep ==
    \/ waiter = "accept" /\ DoneHasRoom
    \/ /\ waiter = "decode" /\ conn \in Message
       /\ mail[conn] = "cut" \/ (mail[conn] = "written" /\ DoneHasRoom)

WaiterNeverBlocked ==
    create \notin Pending /\ ~listening /\ waiter \notin {"none", "finished"}
        => WaiterCanStep

\* How far the waiter may still have to go.
Unread(m) == IF mail[m] = "read" THEN 0 ELSE 2
WaiterMeasure ==
    Unread("ready") + Unread("hypervisor_error")
        + IF waiter = "accept" THEN 1 ELSE 0
WaiterMeasureBounds == WaiterMeasure \in 0 .. 5

LEMMA WaiterInit == Init => WaiterInv
  BY DEF Init, WaiterInv, Message

LEMMA WaiterStep == TypeOK /\ IInv /\ WaiterInv /\ [Next]_vars => WaiterInv'
<1> SUFFICES ASSUME TypeOK, IInv, WaiterInv, [Next]_vars
             PROVE  WaiterInv'
  OBVIOUS
<1> USE DEF TypeOK, WaiterInv, Message, provider, runnerVars
<1>1. CASE CreateSteps
  <2>1. CASE StartListener
    BY <2>1 DEF StartListener
  <2>2. CASE ListenFails \/ OpenLog \/ OpenLogFails \/ StartFails
    <3>1. /\ UNCHANGED <<waiter, done, mail, conn, runner>>
          /\ result' \in {result, "listen_error", "log_error", "start_error"}
          /\ create' \notin {"listen", "crashed"}
      BY <2>2 DEF ListenFails, OpenLog, OpenLogFails, StartFails, Return
    <3> QED
      BY <3>1
  <2>3. CASE StartRunner \/ AwaitTimeout \/ CloseListener \/ Commit
    <3>1. /\ UNCHANGED <<waiter, done, mail, conn>>
          /\ result' \in {result, "timeout"}
          /\ create' \notin {"listen", "crashed"}
          /\ runner' = runner \/ (create = "start" /\ runner' = "boot")
      BY <2>3 DEF StartRunner, AwaitTimeout, CloseListener, Commit
    <3> QED
      BY <3>1 DEF IInv, LaunchInv
  <2>4. CASE AwaitResult
    <3>1. /\ done # "empty" /\ create' \notin {"listen", "crashed"}
          /\ UNCHANGED <<waiter, mail, conn, runner>>
      BY <2>4 DEF AwaitResult
    <3> QED
      BY <3>1
  <2>5. CASE AbortRunner
    BY <2>5 DEF AbortRunner, KillAndWait, RunnerGone
  <2> QED
    BY <1>1, <2>1, <2>2, <2>3, <2>4, <2>5 DEF CreateSteps
<1>2. CASE WaiterSteps
  <2>1. CASE AcceptFails
    BY <2>1 DEF AcceptFails, Finish
  <2>2. ASSUME NEW m \in Message, Accept(m) PROVE WaiterInv'
    <3>1. /\ waiter = "accept" /\ waiter' = "decode" /\ conn' = m
          /\ mail[m] \in {"dialled", "written", "cut"}
          /\ UNCHANGED <<create, result, done, mail, runner>>
      BY <2>2 DEF Accept
    <3> QED
      BY <3>1
  <2>3. ASSUME NEW m \in Message, Decode(m) \/ DecodeFails(m)
        PROVE  WaiterInv'
    <3>1. /\ waiter = "decode"
          /\ \/ waiter' = "finished"
             \/ waiter' = "accept" /\ done' = done
          /\ mail[m] \in {"written", "cut"}
          /\ mail' = [mail EXCEPT ![m] = "read"]
          /\ UNCHANGED <<create, result, runner>>
      BY <2>3 DEF Decode, DecodeFails, Finish
    <3> QED
      BY <3>1
  <2> QED
    BY <1>2, <2>1, <2>2, <2>3 DEF WaiterSteps
<1>3. CASE RunnerSteps
  <2>1. UNCHANGED <<provider, conn>>
    BY <1>3 DEF RunnerSteps, ReadConfig, BuildNetwork, BuildNetworkFails,
       BindSocket, BindFails, SendReady, ServingCancelled, ServingFails,
       RemoveSocket, RunnerDies, Interrupt, SenderDials, SenderDialFails,
       SenderWrites
  <2>2. CASE RunnerDies
    BY <2>1, <2>2 DEF RunnerDies, RunnerGone
  <2>3. ASSUME NEW m \in Message,
               SenderDials(m) \/ SenderDialFails(m) \/ SenderWrites(m)
        PROVE  WaiterInv'
    BY <2>1, <2>3 DEF SenderDials, SenderDialFails, NextToSend, SenderWrites,
       Alive
  <2>4. CASE SendReady
    BY <2>1, <2>4 DEF SendReady, Send, IInv, RunnerInv
  <2>5. CASE BuildNetworkFails \/ BindFails \/ ServingFails
    BY <2>1, <2>5 DEF BuildNetworkFails, BindFails, ServingFails, Send
  <2>6. CASE \/ ReadConfig \/ BuildNetwork \/ BindSocket
             \/ ServingCancelled \/ RemoveSocket \/ Interrupt
    BY <2>1, <2>6 DEF ReadConfig, BuildNetwork, BindSocket, ServingCancelled,
       RemoveSocket, Interrupt, Alive
  <2> QED
    BY <1>3, <2>2, <2>3, <2>4, <2>5, <2>6 DEF RunnerSteps
<1>4. CASE ProviderCrash
  <2>1. /\ create' = "crashed" /\ waiter' \in {"none", "finished"}
        /\ waiter' = "none" => waiter = "none"
        /\ \A m \in Message : mail'[m] = IF m = conn THEN "read" ELSE mail[m]
        /\ UNCHANGED <<result, done, runner>>
    BY <1>4 DEF ProviderCrash
  <2>2. conn # "hypervisor_error" \/ mail["hypervisor_error"] # "unsent"
    BY DEF IInv, ReadyInv
  <2> QED
    BY <2>1, <2>2
<1>5. CASE UNCHANGED vars
  BY <1>5 DEF vars
<1> QED
  BY <1>1, <1>2, <1>3, <1>4, <1>5 DEF Next

LEMMA WaiterInvariance == Spec => []WaiterInv
<1>1. WaiterInv /\ [](TypeOK /\ IInv) /\ [][Next]_vars => []WaiterInv
  BY WaiterStep, PTL
<1> QED
  BY WaiterInit, Invariance, <1>1, PTL DEF Spec

(* Once Create returned with its listener closed, a waiter that still runs *)
(* can take a step: the channel has room for its result although nobody     *)
(* will receive it, and a connection it reads has a message or was cut off. *)
THEOREM WaiterIsNeverBlocked == Spec => []WaiterNeverBlocked
<1>1. TypeOK /\ IInv /\ WaiterInv => WaiterNeverBlocked
  <2> SUFFICES ASSUME TypeOK, IInv, WaiterInv, create \notin Pending,
                      ~listening, waiter \notin {"none", "finished"}
               PROVE  WaiterCanStep
    BY DEF WaiterNeverBlocked
  <2>1. waiter \in {"accept", "decode"} /\ done = "empty"
    BY DEF TypeOK, WaiterInv
  <2>2. CASE waiter = "accept"
    BY <2>1, <2>2 DEF WaiterCanStep, DoneHasRoom
  <2>3. CASE waiter = "decode"
    <3>1. create = "failed"
      BY <2>1, <2>3 DEF TypeOK, IInv, ReadyInv, WaiterInv, Message
    <3>2. runner \in {"none", "dead"}
      BY <3>1 DEF IInv, LaunchInv, NoRunnerLeftBehind
    <3>3. conn \in Message /\ mail[conn] \in {"written", "cut"}
      BY <2>3, <3>2 DEF WaiterInv
    <3> QED
      BY <2>1, <2>3, <3>3 DEF WaiterCanStep, DoneHasRoom
  <2> QED
    BY <2>1, <2>2, <2>3
<1> QED
  BY <1>1, Invariance, WaiterInvariance, PTL

\* A message that was read stays read: none is sent twice.
LEMMA ReadForGood ==
    TypeOK /\ IInv /\ WaiterInv /\ [Next]_vars
        => \A m \in Message : mail[m] = "read" => mail'[m] = "read"
<1> SUFFICES ASSUME TypeOK, IInv, WaiterInv, [Next]_vars,
                    NEW m \in Message, mail[m] = "read"
             PROVE  mail'[m] = "read"
  OBVIOUS
<1> USE DEF TypeOK, Message
<1>1. CASE CreateSteps
  BY <1>1 DEF CreateSteps, StartListener, ListenFails, OpenLog, OpenLogFails,
     StartRunner, StartFails, AwaitResult, AwaitTimeout, CloseListener,
     AbortRunner, Commit, KillAndWait, RunnerGone, runnerVars
<1>2. CASE WaiterSteps
  BY <1>2 DEF WaiterSteps, AcceptFails, Accept, Decode, DecodeFails
<1>3. CASE RunnerSteps
  <2>1. CASE SendReady
    BY <2>1 DEF SendReady, Send, IInv, RunnerInv
  <2>2. CASE BuildNetworkFails \/ BindFails \/ ServingFails
    BY <2>2 DEF BuildNetworkFails, BindFails, ServingFails, Send, WaiterInv
  <2>3. CASE RunnerDies
    BY <2>3 DEF RunnerDies, RunnerGone
  <2>4. CASE \E n \in Message :
               SenderDials(n) \/ SenderDialFails(n) \/ SenderWrites(n)
    BY <2>4 DEF SenderDials, SenderDialFails, NextToSend, SenderWrites
  <2>5. CASE \/ ReadConfig \/ BuildNetwork \/ BindSocket
             \/ ServingCancelled \/ RemoveSocket \/ Interrupt
    BY <2>5 DEF ReadConfig, BuildNetwork, BindSocket, ServingCancelled,
       RemoveSocket, Interrupt
  <2> QED
    BY <1>3, <2>1, <2>2, <2>3, <2>4, <2>5 DEF RunnerSteps
<1>4. CASE ProviderCrash
  BY <1>4 DEF ProviderCrash
<1>5. CASE UNCHANGED vars
  BY <1>5 DEF vars
<1> QED
  BY <1>1, <1>2, <1>3, <1>4, <1>5 DEF Next

\* No step adds to the way the waiter has to go, but the one that starts it.
LEMMA MeasureBounded ==
    TypeOK /\ IInv /\ WaiterInv /\ [Next]_vars /\ ~StartListener
        => WaiterMeasure' <= WaiterMeasure
<1> SUFFICES ASSUME TypeOK, IInv, WaiterInv, [Next]_vars, ~StartListener
             PROVE  WaiterMeasure' <= WaiterMeasure
  OBVIOUS
<1>1. /\ Unread("ready")' <= Unread("ready")
      /\ Unread("hypervisor_error")' <= Unread("hypervisor_error")
  BY ReadForGood DEF Unread, Message
<1>2. /\ Unread("ready") \in Nat /\ Unread("ready")' \in Nat
      /\ Unread("hypervisor_error") \in Nat
      /\ Unread("hypervisor_error")' \in Nat
  BY DEF Unread
<1>3. CASE waiter' = "accept" => waiter = "accept"
  BY <1>1, <1>2, <1>3 DEF WaiterMeasure
<1>4. CASE waiter' = "accept" /\ waiter # "accept"
  <2>1. \E m \in Message : DecodeFails(m)
    BY <1>4 DEF Next, vars, CreateSteps, ListenFails, OpenLog, OpenLogFails,
       StartRunner, StartFails, AwaitResult, AwaitTimeout, CloseListener,
       AbortRunner, Commit, WaiterSteps, AcceptFails, Accept, Decode, Finish,
       RunnerSteps, ReadConfig, BuildNetwork, BuildNetworkFails, BindSocket,
       BindFails, SendReady, ServingCancelled, ServingFails, RemoveSocket,
       RunnerDies, Interrupt, SenderDials, SenderDialFails, SenderWrites,
       ProviderCrash, provider
  <2>2. \E m \in Message : mail[m] # "read" /\ mail'[m] = "read"
    BY <2>1 DEF DecodeFails, TypeOK, Message
  <2>3. \/ Unread("ready")' + 2 <= Unread("ready")
        \/ Unread("hypervisor_error")' + 2 <= Unread("hypervisor_error")
    BY <2>2 DEF Unread, Message
  <2> QED
    BY <1>1, <1>2, <2>3 DEF WaiterMeasure
<1> QED
  BY <1>3, <1>4

\* Every step of the waiter shortens its way.
LEMMA MeasureDecreases ==
    TypeOK /\ IInv /\ WaiterInv /\ WaiterSteps
        => WaiterMeasure' < WaiterMeasure
<1> SUFFICES ASSUME TypeOK, IInv, WaiterInv, WaiterSteps
             PROVE  WaiterMeasure' < WaiterMeasure
  OBVIOUS
<1>1. /\ Unread("ready")' <= Unread("ready")
      /\ Unread("hypervisor_error")' <= Unread("hypervisor_error")
  BY ReadForGood DEF Unread, Message, Next
<1>2. /\ Unread("ready") \in Nat /\ Unread("ready")' \in Nat
      /\ Unread("hypervisor_error") \in Nat
      /\ Unread("hypervisor_error")' \in Nat
  BY DEF Unread
<1>3. CASE waiter = "accept" /\ waiter' # "accept"
  BY <1>1, <1>2, <1>3 DEF WaiterMeasure
<1>4. CASE \E m \in Message : mail[m] # "read" /\ mail'[m] = "read"
  <2>1. \/ Unread("ready")' + 2 <= Unread("ready")
        \/ Unread("hypervisor_error")' + 2 <= Unread("hypervisor_error")
    BY <1>4 DEF Unread, Message
  <2> QED
    BY <1>1, <1>2, <2>1 DEF WaiterMeasure
<1>5. \/ waiter = "accept" /\ waiter' # "accept"
      \/ \E m \in Message : mail[m] # "read" /\ mail'[m] = "read"
  <2>1. CASE AcceptFails \/ \E m \in Message : Accept(m)
    BY <2>1 DEF AcceptFails, Accept, Finish
  <2>2. CASE \E m \in Message : Decode(m) \/ DecodeFails(m)
    BY <2>2 DEF Decode, DecodeFails, TypeOK
  <2> QED
    BY <2>1, <2>2 DEF WaiterSteps
<1> QED
  BY <1>3, <1>4, <1>5

(* A waiter ends within five steps of its own, whatever Create, the runner *)
(* and the end of the provider do in between: nothing but its start adds to *)
(* the measure, and each of its steps lowers it, whose bounds are 0 and 5.  *)
THEOREM WaiterEndsInFiveSteps ==
    Spec => /\ []WaiterMeasureBounds
            /\ [][~StartListener => WaiterMeasure' <= WaiterMeasure]_vars
            /\ [][WaiterSteps => WaiterMeasure' < WaiterMeasure]_vars
<1>1. WaiterMeasureBounds
  BY DEF WaiterMeasureBounds, WaiterMeasure, Unread
<1>2. TypeOK /\ IInv /\ WaiterInv /\ [Next]_vars
        => [~StartListener => WaiterMeasure' <= WaiterMeasure]_vars
  BY MeasureBounded
<1>3. TypeOK /\ IInv /\ WaiterInv /\ [Next]_vars
        => [WaiterSteps => WaiterMeasure' < WaiterMeasure]_vars
  BY MeasureDecreases
<1> QED
  BY <1>1, <1>2, <1>3, Invariance, WaiterInvariance, PTL DEF Spec

-----------------------------------------------------------------------------
(***************************************************************************)
(* The order of the two messages. A runner that announced itself may fail   *)
(* later, while its "ready" is still on its way. The sender dials one       *)
(* connection after the other and the waiter accepts them in that order, so *)
(* that the failure is heard in place of the "ready" before it only when    *)
(* that "ready" was lost: its dial failed.                                 *)
(***************************************************************************)
FailureMeansNoReady ==
    "hypervisor_error" \in {done, result}
        => mail["ready"] \in {"unsent", "dropped"}

\* Where "ready" can be, given where the failure is.
OrderInv ==
    /\ mail["hypervisor_error"] \notin {"unsent", "queued"}
          => mail["ready"] \in {"unsent", "dropped", "written", "read"}
    /\ mail["ready"] = "cut" => runner = "dead"
    /\ mail["ready"] = "read" /\ waiter # "finished"
          => /\ runner = "dead"
             /\ mail["hypervisor_error"] \notin {"dialled", "written"}
    /\ conn = "hypervisor_error"
            /\ mail["hypervisor_error"] \in {"dialled", "written"}
          => mail["ready"] \in {"unsent", "dropped"}
    /\ waiter # "decode" => conn = NoMessage
    /\ "hypervisor_error" \in {done, result}
          => /\ mail["hypervisor_error"] # "unsent"
             /\ mail["ready"] \in {"unsent", "dropped"}

LEMMA OrderInit == Init => OrderInv
  BY DEF Init, OrderInv, Message, NoMessage

LEMMA OrderStep ==
    TypeOK /\ IInv /\ WaiterInv /\ OrderInv /\ [Next]_vars => OrderInv'
<1> SUFFICES ASSUME TypeOK, IInv, WaiterInv, OrderInv, [Next]_vars
             PROVE  OrderInv'
  OBVIOUS
<1> USE DEF TypeOK, WaiterInv, OrderInv, Message, NoMessage, runnerVars
<1>1. CASE CreateSteps
  <2>1. CASE AbortRunner
    <3>1. /\ runner' = "dead" /\ UNCHANGED <<result, done, waiter, conn>>
          /\ \A m \in Message :
                mail'[m] = IF mail[m] = "dialled" THEN "cut" ELSE mail[m]
      BY <2>1 DEF AbortRunner, KillAndWait, RunnerGone
    <3> QED
      BY <3>1
  <2>2. CASE StartListener
    BY <2>2 DEF StartListener
  <2>3. CASE StartRunner
    BY <2>3 DEF StartRunner, IInv, LaunchInv
  <2>4. CASE AwaitResult
    BY <2>4 DEF AwaitResult
  <2>5. CASE \/ ListenFails \/ OpenLog \/ OpenLogFails \/ StartFails
             \/ AwaitTimeout \/ CloseListener \/ Commit
    <3>1. /\ UNCHANGED <<waiter, done, mail, conn, runner>>
          /\ result' \in {result, "listen_error", "log_error", "start_error",
                          "timeout"}
      BY <2>5 DEF ListenFails, OpenLog, OpenLogFails, StartFails, Return,
         AwaitTimeout, CloseListener, Commit
    <3> QED
      BY <3>1
  <2> QED
    BY <1>1, <2>1, <2>2, <2>3, <2>4, <2>5 DEF CreateSteps
<1>2. CASE WaiterSteps
  <2>1. CASE AcceptFails
    BY <2>1 DEF AcceptFails, Finish
  <2>2. ASSUME NEW m \in Message, Accept(m) PROVE OrderInv'
    BY <2>2 DEF Accept
  <2>3. ASSUME NEW m \in Message, Decode(m) PROVE OrderInv'
    BY <2>3 DEF Decode, Finish
  <2>4. ASSUME NEW m \in Message, DecodeFails(m) PROVE OrderInv'
    BY <2>4 DEF DecodeFails
  <2> QED
    BY <1>2, <2>1, <2>2, <2>3, <2>4 DEF WaiterSteps
<1>3. CASE RunnerSteps
  <2>1. UNCHANGED <<provider, conn>>
    BY <1>3 DEF RunnerSteps, ReadConfig, BuildNetwork, BuildNetworkFails,
       BindSocket, BindFails, SendReady, ServingCancelled, ServingFails,
       RemoveSocket, RunnerDies, Interrupt, SenderDials, SenderDialFails,
       SenderWrites
  <2>2. UNCHANGED <<waiter, done, result, conn>>
    BY <2>1 DEF provider
  <2>3. CASE RunnerDies
    <3>1. /\ runner' = "dead"
          /\ \A m \in Message :
                mail'[m] = IF mail[m] = "dialled" THEN "cut" ELSE mail[m]
      BY <2>3 DEF RunnerDies, RunnerGone
    <3> QED
      BY <2>2, <3>1
  <2>4. ASSUME NEW m \in Message, SenderDials(m) \/ SenderDialFails(m)
        PROVE  OrderInv'
    <3>1. /\ runner # "dead" /\ mail[m] = "queued"
          /\ \A n \in Message : mail[n] # "dialled"
          /\ m = "hypervisor_error" => mail["ready"] # "queued"
          /\ \/ mail' = [mail EXCEPT ![m] = "dialled"]
             \/ mail' = [mail EXCEPT ![m] = "dropped"]
          /\ runner' = runner
      BY <2>4 DEF SenderDials, SenderDialFails, NextToSend, Alive
    <3>2. CASE m = "ready"
      BY <2>2, <3>1, <3>2
    <3>3. CASE m = "hypervisor_error"
      <4>1. mail["ready"] \in {"unsent", "dropped", "written", "read"}
        BY <3>1, <3>3 DEF MailState
      <4>2. conn # "hypervisor_error"
        BY <3>1, <3>3
      <4> QED
        BY <2>2, <3>1, <3>3, <4>1, <4>2
    <3> QED
      BY <3>2, <3>3
  <2>5. ASSUME NEW m \in Message, SenderWrites(m) PROVE OrderInv'
    BY <2>2, <2>5 DEF SenderWrites
  <2>6. CASE SendReady
    BY <2>2, <2>6 DEF SendReady, Send, IInv, RunnerInv
  <2>7. CASE BuildNetworkFails \/ BindFails \/ ServingFails
    <3>1. /\ mail["hypervisor_error"] = "unsent" /\ runner # "dead"
          /\ mail' = [mail EXCEPT !["hypervisor_error"] = "queued"]
          /\ runner' # "dead"
      BY <2>7 DEF BuildNetworkFails, BindFails, ServingFails, Send
    <3> QED
      BY <2>2, <3>1
  <2>8. CASE \/ ReadConfig \/ BuildNetwork \/ BindSocket
             \/ ServingCancelled \/ RemoveSocket \/ Interrupt
    BY <2>2, <2>8 DEF ReadConfig, BuildNetwork, BindSocket, ServingCancelled,
       RemoveSocket, Interrupt
  <2> QED
    BY <1>3, <2>3, <2>4, <2>5, <2>6, <2>7, <2>8 DEF RunnerSteps
<1>4. CASE ProviderCrash
  <2>1. /\ waiter = "decode" => waiter' = "finished"
        /\ waiter' = "none" \/ waiter' = "finished"
        /\ waiter' = "none" => waiter = "none"
        /\ conn' = NoMessage
        /\ \A m \in Message : mail'[m] = IF m = conn THEN "read" ELSE mail[m]
        /\ UNCHANGED <<result, done, runner>>
    BY <1>4 DEF ProviderCrash
  <2> QED
    BY <2>1
<1>5. CASE UNCHANGED vars
  BY <1>5 DEF vars, provider
<1> QED
  BY <1>1, <1>2, <1>3, <1>4, <1>5 DEF Next

LEMMA OrderInvariance == Spec => []OrderInv
<1>1. OrderInv /\ [](TypeOK /\ IInv) /\ []WaiterInv /\ [][Next]_vars
        => []OrderInv
  BY OrderStep, PTL
<1> QED
  BY <1>1, OrderInit, Invariance, WaiterInvariance, PTL DEF Spec

(* A Create that hears of a failure hears of a runner that never announced  *)
(* itself, or whose announcement could not be dialled (main.go, run and the *)
(* sender; resource_network.go, waitForReady).                             *)
THEOREM ReadyIsHeardFirst == Spec => []FailureMeansNoReady
<1>1. OrderInv => FailureMeansNoReady
  BY DEF OrderInv, FailureMeansNoReady
<1> QED
  BY <1>1, OrderInvariance, PTL

-----------------------------------------------------------------------------
(***************************************************************************)
(* When a failed Create leaves a file at the runner's socket path. A runner *)
(* that reports a failure which Create hears has not bound the socket, or   *)
(* its "ready" would have been heard first. One that was bound and is       *)
(* killed was therefore not heard: not before the timeout, or for an Accept *)
(* that failed, or because its "ready" could not be dialled.               *)
(***************************************************************************)
SocketLeftUnheard ==
    create = "failed" /\ sock = "orphaned"
        => result \in {"timeout", "accept_error"} \/ mail["ready"] = "dropped"

SilenceInv ==
    /\ create = "failed" /\ runner # "none"
          => result \in {"hypervisor_error", "accept_error", "timeout"}
    /\ create \in {"close", "settle"}
          => result \in Message \cup {"accept_error", "timeout"}
    /\ mail["hypervisor_error"] # "unsent" /\ mail["ready"] = "unsent"
          => sock \in {"absent", "foreign"} /\ runner \in {"exiting", "dead"}

LEMMA SilenceInit == Init => SilenceInv
  BY DEF Init, SilenceInv, Message

LEMMA SilenceStep ==
    TypeOK /\ IInv /\ WaiterInv /\ SilenceInv /\ [Next]_vars => SilenceInv'
<1> SUFFICES ASSUME TypeOK, IInv, WaiterInv, SilenceInv, [Next]_vars
             PROVE  SilenceInv'
  OBVIOUS
<1> USE DEF TypeOK, SilenceInv, Message, notifySocket, runnerVars
<1>1. CASE CreateSteps
  <2>1. CASE StartListener
    BY <2>1 DEF StartListener, WaiterInv
  <2>2. CASE ListenFails \/ OpenLogFails \/ StartFails
    BY <2>2 DEF ListenFails, OpenLogFails, StartFails, CloseNotification,
       Return, IInv, LaunchInv
  <2>3. CASE StartRunner
    BY <2>3 DEF StartRunner, IInv, LaunchInv
  <2>4. CASE OpenLog
    BY <2>4 DEF OpenLog
  <2>5. CASE AwaitResult
    BY <2>5 DEF AwaitResult
  <2>6. CASE AwaitTimeout
    BY <2>6 DEF AwaitTimeout
  <2>7. CASE CloseListener
    BY <2>7 DEF CloseListener, CloseNotification
  <2>8. CASE Commit
    BY <2>8 DEF Commit
  <2>9. CASE AbortRunner
    BY <2>9 DEF AbortRunner, KillAndWait, RunnerGone
  <2> QED
    BY <1>1, <2>1, <2>2, <2>3, <2>4, <2>5, <2>6, <2>7, <2>8, <2>9
       DEF CreateSteps
<1>2. CASE WaiterSteps
  <2>1. CASE AcceptFails
    BY <2>1 DEF AcceptFails, Finish
  <2>2. ASSUME NEW m \in Message, Accept(m) PROVE SilenceInv'
    BY <2>2 DEF Accept
  <2>3. ASSUME NEW m \in Message, Decode(m) \/ DecodeFails(m)
        PROVE  SilenceInv'
    <3>1. /\ done' = done \/ done' = m
          /\ mail[m] # "unsent" /\ mail' = [mail EXCEPT ![m] = "read"]
          /\ UNCHANGED <<create, result, listening, runner, sock>>
      BY <2>3 DEF Decode, DecodeFails, Finish
    <3> QED
      BY <3>1
  <2> QED
    BY <1>2, <2>1, <2>2, <2>3 DEF WaiterSteps
<1>3. CASE RunnerSteps
  <2>1. UNCHANGED <<create, result, done, listening>>
    BY <1>3 DEF RunnerSteps, ReadConfig, BuildNetwork, BuildNetworkFails,
       BindSocket, BindFails, SendReady, ServingCancelled, ServingFails,
       RemoveSocket, RunnerDies, Interrupt, SenderDials, SenderDialFails,
       SenderWrites, provider
  <2>2. CASE ReadConfig \/ BuildNetwork \/ BindSocket \/ Interrupt
    BY <2>1, <2>2 DEF ReadConfig, BuildNetwork, BindSocket, Interrupt, Alive
  <2>3. CASE ServingCancelled \/ RemoveSocket
    BY <2>1, <2>3 DEF ServingCancelled, RemoveSocket
  <2>4. CASE SendReady
    BY <2>1, <2>4 DEF SendReady, Send
  <2>5. CASE BuildNetworkFails \/ BindFails
    BY <2>1, <2>5 DEF BuildNetworkFails, BindFails, Send, IInv, RunnerInv
  <2>6. CASE ServingFails
    BY <2>1, <2>6 DEF ServingFails, Send, IInv, RunnerInv
  <2>7. CASE RunnerDies
    BY <2>1, <2>7 DEF RunnerDies, RunnerGone, Alive
  <2>8. ASSUME NEW m \in Message,
               SenderDials(m) \/ SenderDialFails(m) \/ SenderWrites(m)
        PROVE  SilenceInv'
    <3>1. /\ mail[m] # "unsent"
          /\ \A n \in Message : mail'[n] = "unsent" <=> mail[n] = "unsent"
          /\ UNCHANGED <<runner, sock>>
      BY <2>8 DEF SenderDials, SenderDialFails, NextToSend, SenderWrites
    <3> QED
      BY <2>1, <3>1
  <2> QED
    BY <1>3, <2>2, <2>3, <2>4, <2>5, <2>6, <2>7, <2>8 DEF RunnerSteps
<1>4. CASE ProviderCrash
  <2>1. /\ create' = "crashed" /\ ~listening'
        /\ \A m \in Message : mail'[m] = IF m = conn THEN "read" ELSE mail[m]
        /\ \A m \in Message : conn = m => mail[m] # "unsent"
        /\ UNCHANGED <<result, done, runner, sock>>
    BY <1>4 DEF ProviderCrash, IInv, ReadyInv
  <2> QED
    BY <2>1
<1>5. CASE UNCHANGED vars
  BY <1>5 DEF vars, provider
<1> QED
  BY <1>1, <1>2, <1>3, <1>4, <1>5 DEF Next

(* A Create that fails leaves the socket of its runner, against what the    *)
(* documentation says of it, only if it did not hear the runner: after the  *)
(* timeout or an error of Accept, or when the dial of "ready" failed.      *)
THEOREM SocketLeftOnlyUnheard == Spec => []SocketLeftUnheard
<1>1. IInv /\ OrderInv /\ SilenceInv => SocketLeftUnheard
  BY DEF IInv, RunnerInv, OrderInv, SilenceInv, SocketLeftUnheard
<1>2. SilenceInv /\ [](TypeOK /\ IInv) /\ []WaiterInv /\ [][Next]_vars
        => []SilenceInv
  BY SilenceStep, PTL
<1> QED
  BY <1>1, <1>2, SilenceInit, Invariance, WaiterInvariance, OrderInvariance,
     PTL DEF Spec

-----------------------------------------------------------------------------
(***************************************************************************)
(* The refinement of LaunchContract. Every step of Create that returns, the *)
(* start and the death of the runner and its "ready" are steps of the       *)
(* contract; everything else is a stutter.                                  *)
(***************************************************************************)
Outcome == IF create \in Pending THEN "pending" ELSE create
Proc == CASE runner = "none" -> "none"
          [] runner = "dead" -> "down"
          [] OTHER -> "up"
Evidence == mail["ready"] # "unsent"

LEMMA ContractInit == Init => Contract!Init
  BY DEF Init, Contract!Init, Pending, Message

LEMMA ContractStep ==
    TypeOK /\ IInv /\ [Next]_vars => [Contract!Next]_Contract!vars
<1> SUFFICES ASSUME TypeOK, IInv, [Next]_vars
             PROVE  Contract!Next \/ UNCHANGED <<Outcome, Proc, Evidence>>
  BY DEF Contract!vars, Outcome, Proc, Evidence
<1>0. /\ "ready" \in Message /\ "hypervisor_error" \in Message
      /\ mail["ready"] # "unsent" => mail'["ready"] # "unsent"
  BY SentStays DEF Message
<1> USE DEF Outcome, Proc, Evidence, TypeOK, provider, runnerVars
<1>1. CASE CreateSteps
  <2>1. CASE ListenFails \/ OpenLogFails \/ StartFails
    <3>1. Contract!Fail
      BY <2>1 DEF ListenFails, OpenLogFails, StartFails, Return, IInv,
         LaunchInv, Pending, Contract!Fail
    <3> QED
      BY <3>1 DEF Contract!Next
  <2>2. CASE StartRunner
    <3>1. Contract!Spawn
      BY <2>2 DEF StartRunner, IInv, LaunchInv, Pending, Contract!Spawn
    <3> QED
      BY <3>1 DEF Contract!Next
  <2>3. CASE AbortRunner
    <3>1. mail'["ready"] # "unsent" <=> mail["ready"] # "unsent"
      BY <2>3, <1>0 DEF AbortRunner, KillAndWait, RunnerGone
    <3>2. Contract!Fail
      BY <2>3, <3>1 DEF AbortRunner, KillAndWait, RunnerGone, IInv, LaunchInv,
         Pending, Alive, Contract!Fail
    <3> QED
      BY <3>2 DEF Contract!Next
  <2>4. CASE Commit
    <3>1. Contract!Commit
      BY <2>4 DEF Commit, IInv, ReadyInv, Pending, Contract!Commit
    <3> QED
      BY <3>1 DEF Contract!Next
  <2>5. CASE \/ StartListener \/ OpenLog \/ AwaitResult \/ AwaitTimeout
             \/ CloseListener
    BY <2>5 DEF StartListener, OpenLog, AwaitResult, AwaitTimeout,
       CloseListener, Pending
  <2> QED
    BY <1>1, <2>1, <2>2, <2>3, <2>4, <2>5 DEF CreateSteps
<1>2. CASE WaiterSteps
  <2>1. UNCHANGED <<create, runner>>
    BY <1>2 DEF WaiterSteps, AcceptFails, Accept, Decode, DecodeFails
  <2>2. mail["ready"] = "unsent" => mail'["ready"] = "unsent"
    BY <1>2, <1>0 DEF WaiterSteps, AcceptFails, Accept, Decode, DecodeFails
  <2> QED
    BY <2>1, <2>2, <1>0
<1>3. CASE RunnerSteps
  <2>1. CASE SendReady
    <3>1. mail["ready"] = "unsent" /\ mail'["ready"] # "unsent"
      BY <2>1, <1>0 DEF SendReady, Send, IInv, RunnerInv
    <3>2. Contract!Announce
      BY <2>1, <3>1 DEF SendReady, Contract!Announce
    <3> QED
      BY <3>2 DEF Contract!Next
  <2>2. CASE RunnerDies
    <3>1. mail'["ready"] # "unsent" <=> mail["ready"] # "unsent"
      BY <2>2, <1>0 DEF RunnerDies, RunnerGone
    <3>2. Contract!ProcEnds
      BY <2>2, <3>1 DEF RunnerDies, RunnerGone, Alive, Contract!ProcEnds
    <3> QED
      BY <3>2 DEF Contract!Next
  <2>3. CASE RunnerSteps /\ ~SendReady /\ ~RunnerDies
    <3>1. create' = create
      BY <2>3 DEF RunnerSteps, ReadConfig, BuildNetwork, BuildNetworkFails,
         BindSocket, BindFails, ServingCancelled, ServingFails, RemoveSocket,
         Interrupt, SenderDials, SenderDialFails, SenderWrites
    <3>2. runner' = runner \/ {runner, runner'} \subseteq Alive
      BY <2>3 DEF RunnerSteps, ReadConfig, BuildNetwork, BuildNetworkFails,
         BindSocket, BindFails, ServingCancelled, ServingFails, RemoveSocket,
         Interrupt, SenderDials, SenderDialFails, SenderWrites, Alive
    <3>3. mail["ready"] = "unsent" => mail'["ready"] = "unsent"
      BY <2>3, <1>0 DEF RunnerSteps, ReadConfig, BuildNetwork,
         BuildNetworkFails, BindSocket, BindFails, ServingCancelled,
         ServingFails, RemoveSocket, Interrupt, SenderDials, SenderDialFails,
         NextToSend, SenderWrites, Send
    <3> QED
      BY <3>1, <3>2, <3>3, <1>0 DEF Alive
  <2> QED
    BY <1>3, <2>1, <2>2, <2>3
<1>4. CASE ProviderCrash
  <2>1. mail'["ready"] # "unsent" <=> mail["ready"] # "unsent"
    BY <1>4, <1>0 DEF ProviderCrash, IInv, ReadyInv
  <2>2. Contract!Crash
    BY <1>4, <2>1 DEF ProviderCrash, Pending, Contract!Crash
  <2> QED
    BY <2>2 DEF Contract!Next
<1>5. CASE UNCHANGED vars
  BY <1>5 DEF vars
<1> QED
  BY <1>1, <1>2, <1>3, <1>4, <1>5 DEF Next

(* Every behaviour of a network's Create is one the contract allows: a      *)
(* record is committed only on evidence and an error leaves nothing running. *)
(* That Create returns, the contract's fairness, is left to TLC.             *)
THEOREM NetworkCreateKeepsContract ==
    Spec => Contract!Init /\ [][Contract!Next]_Contract!vars
  BY ContractInit, ContractStep, Invariance, PTL DEF Spec

-----------------------------------------------------------------------------
(***************************************************************************)
(* The refinement of NetworkLifecycle: a Create, taken apart, is what that  *)
(* module makes of it in a handful of steps. One lemma for each step that   *)
(* is seen there; all others leave what it sees alone.                     *)
(***************************************************************************)
lifecycle == <<LifePhase, LifeProc, sock, HasBound, create = "crashed",
               create = "crashed" /\ runner # "none">>

LEMMA LifeUnchanged == UNCHANGED lifecycle => UNCHANGED Life!vars
  BY DEF lifecycle, Life!vars

LEMMA LifeInit == Init => Life!Init
<1> SUFFICES ASSUME Init PROVE Life!Init
  OBVIOUS
<1>1. /\ LifePhase = "none" /\ LifeProc = "free" /\ ~HasBound
      /\ create # "crashed" /\ sock \in {"absent", "foreign"}
  BY SocketAtStartAssumption DEF Init, LifePhase, LifeProc, HasBound, Message
<1> QED
  BY <1>1 DEF Life!Init

LEMMA StartRunnerSeen ==
    TypeOK /\ IInv /\ StartRunner => Life!StartCreate("network", "runner")
<1> SUFFICES ASSUME TypeOK, IInv, StartRunner
             PROVE  Life!StartCreate("network", "runner")
  OBVIOUS
<1>1. /\ LifePhase = "none" /\ LifePhase' = "creating"
      /\ LifeProc = "free" /\ LifeProc' = "booting"
      /\ ~HasBound /\ ~HasBound' /\ create # "crashed" /\ create' # "crashed"
      /\ sock' = sock
  BY DEF StartRunner, IInv, LaunchInv, RunnerInv, LifePhase, LifeProc,
     HasBound, TypeOK
<1> QED
  BY <1>1 DEF Life!StartCreate

LEMMA CommitSeen == TypeOK /\ IInv /\ Commit => Life!CommitCreate("network")
<1> SUFFICES ASSUME TypeOK, IInv, Commit PROVE Life!CommitCreate("network")
  OBVIOUS
<1>1. /\ LifePhase = "creating" /\ LifePhase' = "recorded"
      /\ LifeProc' = LifeProc
      /\ HasBound /\ HasBound' /\ create # "crashed" /\ create' # "crashed"
      /\ sock' = sock
  BY DEF Commit, IInv, LaunchInv, ReadyInv, LifePhase, LifeProc, HasBound,
     TypeOK, Alive, runnerVars
<1> QED
  BY <1>1 DEF Life!CommitCreate

\* What Kill and Wait leave is what the lifecycle leaves of a failed Create.
LEMMA AbortSeen == TypeOK /\ IInv /\ AbortRunner => Life!FailCreate("network")
<1> SUFFICES ASSUME TypeOK, IInv, AbortRunner
             PROVE  Life!FailCreate("network")
  OBVIOUS
<1>1. /\ LifePhase = "creating" /\ LifePhase' = "none" /\ LifeProc' = "gone"
      /\ create # "crashed" /\ create' # "crashed"
      /\ sock' = IF sock = "bound" THEN "orphaned" ELSE sock
  BY DEF AbortRunner, KillAndWait, RunnerGone, IInv, LaunchInv, LifePhase,
     LifeProc
<1>2. mail["ready"] # "unsent" <=> mail'["ready"] # "unsent"
  BY DEF AbortRunner, KillAndWait, RunnerGone, TypeOK, Message
<1>3. HasBound' <=> HasBound
  BY <1>1, <1>2 DEF HasBound
<1> QED
  BY <1>1, <1>3 DEF Life!FailCreate, Life!SockAfter, TypeOK

LEMMA CrashSeen ==
    TypeOK /\ IInv /\ ProviderCrash
        => Life!ProviderEnds \/ UNCHANGED lifecycle
<1> SUFFICES ASSUME TypeOK, IInv, ProviderCrash
             PROVE  Life!ProviderEnds \/ UNCHANGED lifecycle
  OBVIOUS
<1>1. /\ create # "crashed" /\ create' = "crashed" /\ LifePhase' = "none"
      /\ runner' = runner /\ sock' = sock
      /\ LifePhase = IF runner = "none" THEN "none" ELSE "creating"
      /\ LifeProc' = IF LifeProc = "zombie" THEN "gone" ELSE LifeProc
  BY DEF ProviderCrash, Pending, LifePhase, LifeProc, runnerVars, TypeOK, Alive
<1> QED
  BY <1>1 DEF Life!ProviderEnds

\* The runner's steps, which the provider's end may come before or after.
LEMMA RunnerSeen ==
    ASSUME TypeOK, IInv, UNCHANGED create, runner \in Alive, runner' # "none"
    PROVE  /\ LifePhase' = LifePhase
           /\ LifePhase \in {"none", "creating", "recorded"}
           /\ LifePhase = "none" <=> create = "crashed"
  BY DEF IInv, LaunchInv, NoRunnerLeftBehind, LifePhase, Alive, TypeOK, Pending

LEMMA BindSeen == TypeOK /\ IInv /\ BindSocket => Life!Bind("runner")
<1> SUFFICES ASSUME TypeOK, IInv, BindSocket PROVE Life!Bind("runner")
  OBVIOUS
<1>1. /\ LifeProc = "booting" /\ LifeProc' = "serving"
      /\ sock = "absent" /\ sock' = "bound" /\ create' = create
      /\ ~HasBound /\ HasBound' /\ runner \in Alive /\ runner' # "none"
  BY DEF BindSocket, IInv, RunnerInv, LifeProc, HasBound, provider, Alive
<1>2. LifePhase' = LifePhase /\ (LifePhase = "none" <=> create = "crashed")
  BY <1>1, RunnerSeen
<1>3. CASE create = "crashed"
  BY <1>1, <1>2, <1>3 DEF Life!Bind, Alive
<1>4. CASE create # "crashed"
  BY <1>1, <1>2, <1>4 DEF Life!Bind
<1> QED
  BY <1>3, <1>4

LEMMA EndsUnboundSeen ==
    TypeOK /\ IInv /\ (ReadConfig \/ BuildNetworkFails \/ BindFails)
        => Life!BindFails("runner") \/ UNCHANGED lifecycle
<1> SUFFICES ASSUME TypeOK, IInv, ReadConfig \/ BuildNetworkFails \/ BindFails
             PROVE  Life!BindFails("runner") \/ UNCHANGED lifecycle
  OBVIOUS
<1>1. /\ LifeProc = "booting" /\ LifeProc' \in {"booting", "exiting"}
      /\ sock' = sock /\ create' = create
      /\ runner \in Alive /\ runner' \in Alive
  BY DEF ReadConfig, BuildNetworkFails, BindFails, LifeProc, provider, Alive
<1>2. HasBound' <=> HasBound
  BY <1>1 DEF ReadConfig, BuildNetworkFails, BindFails, Send, HasBound, TypeOK,
     Message
<1>3. LifePhase' = LifePhase
  BY <1>1, RunnerSeen DEF Alive
<1> QED
  BY <1>1, <1>2, <1>3 DEF Life!BindFails, lifecycle, Alive

LEMMA StopSeen ==
    TypeOK /\ IInv /\ (ServingCancelled \/ ServingFails)
        => Life!StopServing("runner")
<1> SUFFICES ASSUME TypeOK, IInv, ServingCancelled \/ ServingFails
             PROVE  Life!StopServing("runner")
  OBVIOUS
<1>1. /\ LifeProc = "serving" /\ LifeProc' = "stopping"
      /\ sock' = sock /\ create' = create
      /\ runner \in Alive /\ runner' \in Alive
  BY DEF ServingCancelled, ServingFails, LifeProc, provider, Alive
<1>2. HasBound' <=> HasBound
  BY <1>1 DEF ServingCancelled, ServingFails, Send, HasBound, TypeOK, Message
<1>3. LifePhase' = LifePhase
  BY <1>1, RunnerSeen DEF Alive
<1> QED
  BY <1>1, <1>2, <1>3 DEF Life!StopServing, Alive

LEMMA UnlinkSeen == TypeOK /\ IInv /\ RemoveSocket => Life!Unlink("runner")
<1> SUFFICES ASSUME TypeOK, IInv, RemoveSocket PROVE Life!Unlink("runner")
  OBVIOUS
<1>1. /\ LifeProc = "stopping" /\ LifeProc' = "exiting"
      /\ sock' = "absent" /\ create' = create /\ HasBound /\ HasBound'
      /\ runner \in Alive /\ runner' \in Alive
  BY DEF RemoveSocket, IInv, RunnerInv, LifeProc, HasBound, provider, Alive
<1>2. LifePhase' = LifePhase
  BY <1>1, RunnerSeen DEF Alive
<1> QED
  BY <1>1, <1>2 DEF Life!Unlink, Alive

LEMMA DeathSeen == TypeOK /\ IInv /\ RunnerDies => Life!RunnerEnds("runner")
<1> SUFFICES ASSUME TypeOK, IInv, RunnerDies PROVE Life!RunnerEnds("runner")
  OBVIOUS
<1>1. /\ sock' = (IF sock = "bound" THEN "orphaned" ELSE sock)
      /\ create' = create
      /\ runner \in Alive /\ runner' = "dead"
  BY DEF RunnerDies, RunnerGone, provider
<1>2. LifePhase' = LifePhase
  BY <1>1, RunnerSeen
<1>3. /\ LifeProc \in {"booting", "serving", "stopping", "exiting"}
      /\ LifeProc' = IF LifePhase = "none" THEN "gone" ELSE "zombie"
  BY <1>1, <1>2 DEF LifeProc, Alive
<1>4. mail["ready"] # "unsent" <=> mail'["ready"] # "unsent"
  BY DEF RunnerDies, RunnerGone, TypeOK, Message
<1>5. HasBound' <=> HasBound
  BY <1>1, <1>4 DEF HasBound
<1> QED
  BY <1>1, <1>2, <1>3, <1>5 DEF Life!RunnerEnds, Life!Runner, Life!Remains,
     Life!SockAfter, TypeOK, Alive

\* Every other step of Create, of its waiter and of its runner is unseen.
LEMMA Unseen ==
    ASSUME TypeOK, IInv,
           \/ StartListener \/ ListenFails \/ OpenLog \/ OpenLogFails
           \/ StartFails \/ AwaitResult \/ AwaitTimeout \/ CloseListener
           \/ WaiterSteps \/ BuildNetwork \/ SendReady \/ Interrupt
           \/ \E m \in Message :
                 SenderDials(m) \/ SenderDialFails(m) \/ SenderWrites(m)
    PROVE  UNCHANGED lifecycle
<1> USE DEF TypeOK, provider, runnerVars
<1>1. CASE \/ StartListener \/ ListenFails \/ OpenLog \/ OpenLogFails
           \/ StartFails \/ AwaitResult \/ AwaitTimeout \/ CloseListener
  <2>1. /\ UNCHANGED <<runner, sock, mail>>
        /\ create # "crashed" /\ create' # "crashed"
        /\ LifePhase' = LifePhase
    BY <1>1 DEF StartListener, ListenFails, OpenLog, OpenLogFails, StartFails,
       AwaitResult, AwaitTimeout, CloseListener, Return, IInv, LaunchInv,
       LifePhase
  <2> QED
    BY <2>1 DEF lifecycle, LifeProc, HasBound
<1>2. CASE WaiterSteps
  <2>1. UNCHANGED <<create, runner, sock>>
    BY <1>2 DEF WaiterSteps, AcceptFails, Accept, Decode, DecodeFails
  <2>2. mail["ready"] = "unsent" <=> mail'["ready"] = "unsent"
    BY <1>2 DEF WaiterSteps, AcceptFails, Accept, Decode, DecodeFails, Message
  <2> QED
    BY <2>1, <2>2 DEF lifecycle, LifePhase, LifeProc, HasBound
<1>3. CASE BuildNetwork \/ Interrupt
  <2>1. UNCHANGED <<create, sock, mail>>
    BY <1>3 DEF BuildNetwork, Interrupt
  <2>2. LifePhase' = LifePhase /\ LifeProc' = LifeProc
    BY <1>3 DEF BuildNetwork, Interrupt, LifePhase, LifeProc, Alive
  <2>3. create = "crashed" /\ runner # "none"
            <=> (create = "crashed" /\ runner # "none")'
    BY <1>3 DEF BuildNetwork, Interrupt
  <2> QED
    BY <2>1, <2>2, <2>3 DEF lifecycle, HasBound
<1>4. CASE SendReady
  <2>1. /\ UNCHANGED <<create, sock>>
        /\ runner = "announce" /\ runner' = "serving" /\ sock = "bound"
    BY <1>4 DEF SendReady, IInv, RunnerInv
  <2> QED
    BY <2>1 DEF lifecycle, LifePhase, LifeProc, HasBound
<1>5. CASE \E m \in Message :
             SenderDials(m) \/ SenderDialFails(m) \/ SenderWrites(m)
  <2>1. UNCHANGED <<create, runner, sock>>
    BY <1>5 DEF SenderDials, SenderDialFails, SenderWrites
  <2>2. mail["ready"] = "unsent" <=> mail'["ready"] = "unsent"
    BY <1>5 DEF SenderDials, SenderDialFails, NextToSend, SenderWrites, Message
  <2> QED
    BY <2>1, <2>2 DEF lifecycle, LifePhase, LifeProc, HasBound
<1> QED
  BY <1>1, <1>2, <1>3, <1>4, <1>5

LEMMA LifeStep == TypeOK /\ IInv /\ [Next]_vars => [Life!Next]_Life!vars
<1> SUFFICES ASSUME TypeOK, IInv, Next
             PROVE  Life!Next \/ UNCHANGED lifecycle
  <2>1. UNCHANGED vars => UNCHANGED lifecycle
    BY DEF vars, provider, runnerVars, lifecycle, LifePhase, LifeProc, HasBound
  <2> QED
    BY <2>1, LifeUnchanged
<1>1. CASE StartRunner
  BY <1>1, StartRunnerSeen DEF Life!Next
<1>2. CASE Commit
  BY <1>2, CommitSeen DEF Life!Next
<1>3. CASE AbortRunner
  BY <1>3, AbortSeen DEF Life!Next
<1>4. CASE ProviderCrash
  BY <1>4, CrashSeen DEF Life!Next
<1>5. CASE BindSocket
  BY <1>5, BindSeen DEF Life!Next, Life!RunnerSteps
<1>6. CASE ReadConfig \/ BuildNetworkFails \/ BindFails
  BY <1>6, EndsUnboundSeen DEF Life!Next, Life!RunnerSteps
<1>7. CASE ServingCancelled \/ ServingFails
  BY <1>7, StopSeen DEF Life!Next, Life!RunnerSteps
<1>8. CASE RemoveSocket
  BY <1>8, UnlinkSeen DEF Life!Next, Life!RunnerSteps
<1>9. CASE RunnerDies
  BY <1>9, DeathSeen DEF Life!Next, Life!RunnerSteps
<1> QED
  BY <1>1, <1>2, <1>3, <1>4, <1>5, <1>6, <1>7, <1>8, <1>9, Unseen DEF Next,
     CreateSteps, RunnerSteps

(* A Create with all its interleavings does to the record, to the runner and *)
(* to the socket only what NetworkLifecycle lets a Create, a runner and the  *)
(* end of the provider do: what is proved there of Reads and Deletes holds   *)
(* of networks that were created this way.                                   *)
THEOREM NetworkCreateKeepsLifecycle ==
    Spec => Life!Init /\ [][Life!Next]_Life!vars
  BY LifeInit, LifeStep, Invariance, PTL DEF Spec

=============================================================================
