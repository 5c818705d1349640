--------------------------- MODULE CoordinatorProofs ---------------------------
(***************************************************************************)
(* Proofs about Coordinator, for any number of pipelines, devices and      *)
(* threads: type correctness, and that the pipeline the coordinator holds  *)
(* is not a stopped one, however the threads interleave; and, when only    *)
(* the loop's thread calls _teardown, the consistency of the session at    *)
(* every await, what stop() leaves, and that the cameras and the           *)
(* controller are lent as Lease says.                                      *)
(***************************************************************************)
EXTENDS Coordinator, TLAPS

(***************************************************************************)
(* Type correctness.                                                       *)
(***************************************************************************)

\* The initial states have their types.
LEMMA InitTypeOK == Init => TypeOK
BY CoordinatorAssumption
DEF Init, TypeOK, Awaiting, Starting, Wiring, TeardownSteps, ThreadSteps, UsesLocal, UsesBuilding

\* The steps of _teardown keep the types, in whichever thread they run.
LEMMA TeardownTypeOK ==
    ASSUME TypeOK, NEW t \in Threads, Teardown(t)
    PROVE  TypeOK'
<1> USE DEF TypeOK, At, Goto, Raise, runVars, signalVars, sessionVars, peerVars, pipeVars, flagVars,
            cameraVars, TeardownSteps, ThreadSteps, UsesLocal
<1>1. CASE TeardownWatcher(t)
  BY <1>1 DEF TeardownWatcher
<1>2. CASE TeardownManager(t)
  BY <1>2 DEF TeardownManager
<1>3. CASE TeardownSession(t)
  BY <1>3 DEF TeardownSession
<1>4. CASE TeardownUnwire(t)
  BY <1>4 DEF TeardownUnwire
<1>5. CASE TeardownTest(t)
  BY <1>5 DEF TeardownTest
<1>6. CASE TeardownDeaf(t)
  BY <1>6 DEF TeardownDeaf
<1>7. CASE TeardownClose(t)
  BY <1>7 DEF TeardownClose
<1>8. CASE TeardownPeer(t)
  BY <1>8 DEF TeardownPeer
<1>9. CASE TeardownForget(t)
  BY <1>9 DEF TeardownForget
<1>10. CASE TeardownTake(t)
  BY <1>10 DEF TeardownTake
<1>11. CASE TeardownDrop(t)
  BY <1>11 DEF TeardownDrop
<1>12. CASE TeardownStop(t)
  BY <1>12 DEF TeardownStop
<1>13. CASE TeardownFree(t)
  BY <1>13 DEF TeardownFree
<1>14. CASE TeardownRelease(t)
  BY <1>14 DEF TeardownRelease
<1>15. CASE TeardownHooks(t)
  <2>1. hooks' \in BOOLEAN
    BY <1>15 DEF TeardownHooks
  <2>2. pc' \in [Threads -> ThreadSteps]
    BY <1>15 DEF TeardownHooks
  <2>3. \A u \in Threads : pc'[u] \in UsesLocal => local'[u] # None
    BY <1>15 DEF TeardownHooks
  <2>4. QED
    BY <1>15, <2>1, <2>2, <2>3 DEF TeardownHooks
<1>16. QED
  BY <1>1, <1>2, <1>3, <1>4, <1>5, <1>6, <1>7, <1>8, <1>9, <1>10, <1>11, <1>12, <1>13, <1>14, <1>15
  DEF Teardown

\* The steps of the main task and of the loop's other callbacks.
LEMMA LoopTypeOK ==
    ASSUME TypeOK,
           MainStep \/ CallbackReturns \/ ListenEnds \/ CloserRuns \/ CloserDone \/ Tick
             \/ Message
    PROVE  TypeOK'
<1> USE CoordinatorAssumption
    DEF TypeOK, At, Goto, Main, EnterFinally, Dispatch, LoopFree, Threads, runVars, signalVars,
        threadVars, sessionVars, peerVars, pipeVars, flagVars, cameraVars, TeardownSteps, ThreadSteps,
        UsesLocal, UsesBuilding, Awaiting, Starting, Wiring, Failing, Running, Ended, HandlerFails, Scan,
        Scanned
<1>1. CASE ConnectOk
  BY <1>1 DEF ConnectOk
<1>2. CASE ConnectFails
  BY <1>2 DEF ConnectFails
<1>3. CASE Wake
  BY <1>3 DEF Wake
<1>4. CASE Closed
  BY <1>4 DEF Closed
<1>5. CASE MainReturns
  BY <1>5 DEF MainReturns
<1>6. CASE MainRaises
  BY <1>6 DEF MainRaises
<1>7. CASE Refuse
  BY <1>7 DEF Refuse
<1>8. CASE Broken
  BY <1>8 DEF Broken
<1>9. CASE Hold
  BY <1>9 DEF Hold
<1>10. CASE Manage
  BY <1>10 DEF Manage
<1>11. CASE StopUnstarted
  BY <1>11 DEF StopUnstarted
<1>12. CASE Abandon
  BY <1>12 DEF Abandon
<1>13. CASE Forget
  BY <1>13 DEF Forget
<1>14. CASE Uncache
  BY <1>14 DEF Uncache
<1>15. CASE MakePeer
  BY <1>15 DEF MakePeer
<1>16. CASE MakeChannels
  BY <1>16 DEF MakeChannels
<1>17. CASE Bind
  BY <1>17 DEF Bind
<1>18. CASE Wire
  BY <1>18 DEF Wire
<1>19. CASE Attach
  BY <1>19 DEF Attach
<1>20. CASE Listen
  BY <1>20 DEF Listen
<1>21. CASE Hook
  BY <1>21 DEF Hook
<1>22. CASE Watch
  BY <1>22 DEF Watch
<1>23. CASE CallbackReturns
  BY <1>23 DEF CallbackReturns
<1>24. CASE ListenEnds
  BY <1>24 DEF ListenEnds
<1>25. CASE CloserRuns
  BY <1>25 DEF CloserRuns
<1>26. CASE CloserDone
  BY <1>26 DEF CloserDone
<1>27. CASE Tick
  BY <1>27 DEF Tick
<1>28. CASE HandleDisconnect
  BY <1>28 DEF HandleDisconnect
<1>29. CASE HandleConnect
  BY <1>29 DEF HandleConnect
<1>30. CASE HandlerRaises
  BY <1>30 DEF HandlerRaises
<1>31. QED
  BY <1>1, <1>2, <1>3, <1>4, <1>5, <1>6, <1>7, <1>8, <1>9, <1>10, <1>11, <1>12,
     <1>13, <1>14, <1>15, <1>16, <1>17, <1>18, <1>19, <1>20, <1>21, <1>22, <1>23, <1>24,
     <1>25, <1>26, <1>27, <1>28, <1>29, <1>30
  DEF MainStep, Connect, Message

\* A pipeline error taken up by the bus thread keeps them.
LEMMA BusTypeOK ==
    ASSUME TypeOK, NEW t \in BusThreads, NEW p \in Pipelines, OnPipelineError(t, p)
    PROVE  TypeOK'
<1>1. errors' \in SUBSET Pipelines /\ cache' \in SUBSET Devices
  BY DEF OnPipelineError, TypeOK
<1>2. pc' \in [Threads -> ThreadSteps]
  BY DEF OnPipelineError, TypeOK, Goto, ThreadSteps, TeardownSteps
<1>3. \A u \in Threads : pc'[u] \in UsesLocal => pc'[u] = pc[u]
  BY DEF OnPipelineError, TypeOK, Goto, UsesLocal
<1>4. UNCHANGED <<task, callback, stop_event, closer, conn, local, pipeline, manager, peer, channels,
                  listening, packetCb, hooks, building, up, stopped, releasing, released, devices, cams,
                  scanned, known, moved>>
  BY DEF OnPipelineError, runVars, signalVars, sessionVars, peerVars, flagVars
<1>5. QED
  BY <1>1, <1>2, <1>3, <1>4 DEF TypeOK

\* An operator's calibrate, which may begin a scan, keeps them.
LEMMA CalibrateTypeOK ==
    ASSUME TypeOK, NEW t \in ChannelThreads, NEW p \in Pipelines, OnCalibrate(t, p)
    PROVE  TypeOK'
<1>1. /\ scanned' \in [Threads -> SUBSET Devices]
      /\ moved' \in BOOLEAN
      /\ cache' \in SUBSET Devices
  <2>1. CASE UNCHANGED <<scanned, moved>> /\ cache' = {}
    BY <2>1 DEF TypeOK
  <2>2. CASE Scan(t) /\ UNCHANGED cache
    BY <2>2 DEF TypeOK, Scan
  <2>3. QED
    BY <2>1, <2>2 DEF OnCalibrate
<1>2. pc' \in [Threads -> ThreadSteps]
  BY DEF OnCalibrate, TypeOK, Goto, ThreadSteps, TeardownSteps
<1>3. \A u \in Threads : pc'[u] \in UsesLocal => pc'[u] = pc[u]
  BY DEF OnCalibrate, TypeOK, Goto, UsesLocal
<1>4. UNCHANGED <<task, callback, stop_event, closer, conn, local, pipeline, manager, peer, channels,
                  listening, packetCb, hooks, building, up, stopped, releasing, released, errors,
                  devices, cams, known>>
  BY DEF OnCalibrate, runVars, signalVars, sessionVars, peerVars, pipeVars, flagVars
<1>5. QED
  BY <1>1, <1>2, <1>3, <1>4 DEF TypeOK

\* The steps of the workers, of the other threads and of the environment.
LEMMA OutsideTypeOK ==
    ASSUME TypeOK,
           Worker \/ Foreign \/ Environment \/ \E p \in Pipelines : Release(p)
    PROVE  TypeOK'
<1> USE CoordinatorAssumption
    DEF TypeOK, At, Goto, Dispatch, LoopFree, Threads, runVars, signalVars, threadVars,
        sessionVars, peerVars, pipeVars, flagVars, cameraVars, TeardownSteps, ThreadSteps, UsesLocal, UsesBuilding,
        Awaiting, Starting, Wiring, Failing, Running, Ended, Scan, Scanned
<1>1. CASE FactoryCached
  <2>1. PICK p \in Pipelines : Build(p, cache)
    BY <1>1 DEF FactoryCached
  <2>2. QED
    BY <1>1, <2>1 DEF FactoryCached, Build
<1>2. CASE FactoryScan
  <2>1. moved' \in BOOLEAN
    BY <1>2 DEF FactoryScan
  <2>2. scanned' \in [Threads -> SUBSET Devices]
    BY <1>2 DEF FactoryScan
  <2>3. QED
    BY <1>2, <2>1, <2>2 DEF FactoryScan
<1>3. CASE FactoryScanned
  <2>1. PICK p \in Pipelines : Build(p, scanned[Loop])
    BY <1>3 DEF FactoryScanned
  <2>2. QED
    BY <1>3, <2>1 DEF FactoryScanned, Build
<1>4. CASE FactoryEmpty
  BY <1>4 DEF FactoryEmpty
<1>5. CASE FactoryRaises
  BY <1>5 DEF FactoryRaises
<1>6. CASE StartPlay
  BY <1>6 DEF StartPlay
<1>7. CASE Stop
  BY <1>7 DEF Stop
<1>8. CASE ConnectionLost
  BY <1>8 DEF ConnectionLost
<1>9. CASE Hotplug
  BY <1>9 DEF Hotplug
<1>10. ASSUME NEW p \in Pipelines, PipelineErrs(p) PROVE TypeOK'
  BY <1>10 DEF PipelineErrs
<1>11. ASSUME NEW t \in BusThreads, NEW p \in Pipelines, OnPipelineError(t, p) PROVE TypeOK'
  BY <1>11, BusTypeOK
<1>12. ASSUME NEW t \in ChannelThreads, NEW p \in Pipelines, OnParams(t, p) PROVE TypeOK'
  BY <1>12 DEF OnParams
<1>13. ASSUME NEW t \in ChannelThreads, NEW p \in Pipelines, OnCalibrate(t, p) PROVE TypeOK'
  BY <1>13, CalibrateTypeOK
<1>14. ASSUME NEW t \in ChannelThreads, CalibrateScanned(t) PROVE TypeOK'
  BY <1>14 DEF CalibrateScanned
<1>15. ASSUME NEW t \in ChannelThreads, CalibrateClears(t) PROVE TypeOK'
  BY <1>15 DEF CalibrateClears
<1>16. ASSUME NEW p \in Pipelines, Release(p) PROVE TypeOK'
  BY <1>16 DEF Release
<1>17. QED
  BY <1>1, <1>2, <1>3, <1>4, <1>5, <1>6, <1>7, <1>8, <1>9, <1>10, <1>11, <1>12, <1>13, <1>14, <1>15,
     <1>16
  DEF Worker, Foreign, Environment

\* A step that changes nothing keeps the types.
LEMMA StutterTypeOK == TypeOK /\ UNCHANGED vars => TypeOK'
BY DEF TypeOK, vars, runVars, signalVars, threadVars, sessionVars, peerVars, pipeVars, flagVars, cameraVars,
       UsesLocal, UsesBuilding

\* Every variable keeps its type, and a local variable is set where it is used.
THEOREM TypeCorrect == Spec => []TypeOK
<1>1. TypeOK /\ [Next]_vars => TypeOK'
  BY TeardownTypeOK, LoopTypeOK, OutsideTypeOK, StutterTypeOK DEF Next, Terminated
<1>2. QED
  BY InitTypeOK, <1>1, PTL DEF Spec

(***************************************************************************)
(* The loop runs one callback at a time.                                   *)
(***************************************************************************)

\* While stop() or the watcher's tick runs, the main task awaits; outside
\* them, only a main task that called _teardown is inside it; and operators'
\* calibrations run on other threads.
LoopInv ==
    /\ pc[Loop] \notin {"scan", "scanned"}
    /\ callback # "none" => task \in Awaiting
    /\ pc[Loop] # "idle" /\ callback = "none" => task \in {"replace", "drop", "finally"}

\* No step starts a second callback, nor enters _teardown from elsewhere.
LEMMA LoopInvStep ==
    ASSUME TypeOK, LoopInv, [Next]_vars
    PROVE  LoopInv'
<1> USE CoordinatorAssumption
    DEF TypeOK, LoopInv, At, Goto, Raise, Main, EnterFinally, Dispatch, LoopFree, Threads, runVars,
        signalVars, threadVars, sessionVars, peerVars, pipeVars, flagVars, cameraVars, Awaiting, Starting,
        HandlerFails, Scan, Scanned
<1>1. ASSUME NEW t \in Threads, TeardownWatcher(t) PROVE LoopInv'
  BY <1>1 DEF TeardownWatcher
<1>2. ASSUME NEW t \in Threads, TeardownManager(t) PROVE LoopInv'
  BY <1>2 DEF TeardownManager
<1>3. ASSUME NEW t \in Threads, TeardownSession(t) PROVE LoopInv'
  BY <1>3 DEF TeardownSession
<1>4. ASSUME NEW t \in Threads, TeardownUnwire(t) PROVE LoopInv'
  BY <1>4 DEF TeardownUnwire
<1>5. ASSUME NEW t \in Threads, TeardownTest(t) PROVE LoopInv'
  BY <1>5 DEF TeardownTest
<1>6. ASSUME NEW t \in Threads, TeardownDeaf(t) PROVE LoopInv'
  BY <1>6 DEF TeardownDeaf
<1>7. ASSUME NEW t \in Threads, TeardownClose(t) PROVE LoopInv'
  BY <1>7 DEF TeardownClose
<1>8. ASSUME NEW t \in Threads, TeardownPeer(t) PROVE LoopInv'
  BY <1>8 DEF TeardownPeer
<1>9. ASSUME NEW t \in Threads, TeardownForget(t) PROVE LoopInv'
  BY <1>9 DEF TeardownForget
<1>10. ASSUME NEW t \in Threads, TeardownTake(t) PROVE LoopInv'
  BY <1>10 DEF TeardownTake
<1>11. ASSUME NEW t \in Threads, TeardownDrop(t) PROVE LoopInv'
  BY <1>11 DEF TeardownDrop
<1>12. ASSUME NEW t \in Threads, TeardownStop(t) PROVE LoopInv'
  BY <1>12 DEF TeardownStop
<1>13. ASSUME NEW t \in Threads, TeardownFree(t) PROVE LoopInv'
  BY <1>13 DEF TeardownFree
<1>14. ASSUME NEW t \in Threads, TeardownRelease(t) PROVE LoopInv'
  BY <1>14 DEF TeardownRelease
<1>15. ASSUME NEW t \in Threads, TeardownHooks(t) PROVE LoopInv'
  BY <1>15 DEF TeardownHooks
<1>16. CASE FactoryCached
  BY <1>16 DEF FactoryCached, Build, Fresh
<1>17. CASE FactoryScan
  BY <1>17 DEF FactoryScan
<1>18. CASE FactoryScanned
  BY <1>18 DEF FactoryScanned, Build, Fresh
<1>19. CASE FactoryEmpty
  BY <1>19 DEF FactoryEmpty
<1>20. CASE FactoryRaises
  BY <1>20 DEF FactoryRaises
<1>21. CASE StartPlay
  BY <1>21 DEF StartPlay
<1>22. CASE ConnectOk
  BY <1>22 DEF ConnectOk
<1>23. CASE ConnectFails
  BY <1>23 DEF ConnectFails
<1>24. CASE Wake
  BY <1>24 DEF Wake
<1>25. CASE Closed
  BY <1>25 DEF Closed
<1>26. CASE MainReturns
  BY <1>26 DEF MainReturns
<1>27. CASE MainRaises
  BY <1>27 DEF MainRaises
<1>28. CASE Refuse
  BY <1>28 DEF Refuse
<1>29. CASE Broken
  BY <1>29 DEF Broken
<1>30. CASE Hold
  BY <1>30 DEF Hold
<1>31. CASE Manage
  BY <1>31 DEF Manage
<1>32. CASE StopUnstarted
  BY <1>32 DEF StopUnstarted
<1>33. CASE Abandon
  BY <1>33 DEF Abandon
<1>34. CASE Forget
  BY <1>34 DEF Forget
<1>35. CASE Uncache
  BY <1>35 DEF Uncache
<1>36. CASE MakePeer
  BY <1>36 DEF MakePeer
<1>37. CASE MakeChannels
  BY <1>37 DEF MakeChannels
<1>38. CASE Bind
  BY <1>38 DEF Bind
<1>39. CASE Wire
  BY <1>39 DEF Wire
<1>40. CASE Attach
  BY <1>40 DEF Attach
<1>41. CASE Listen
  BY <1>41 DEF Listen
<1>42. CASE Hook
  BY <1>42 DEF Hook
<1>43. CASE Watch
  BY <1>43 DEF Watch
<1>44. CASE CallbackReturns
  BY <1>44 DEF CallbackReturns
<1>45. CASE ListenEnds
  BY <1>45 DEF ListenEnds
<1>46. CASE CloserRuns
  BY <1>46 DEF CloserRuns
<1>47. CASE CloserDone
  BY <1>47 DEF CloserDone
<1>48. CASE Tick
  BY <1>48 DEF Tick
<1>49. CASE HandleDisconnect
  BY <1>49 DEF HandleDisconnect
<1>50. CASE HandleConnect
  BY <1>50 DEF HandleConnect
<1>51. CASE HandlerRaises
  BY <1>51 DEF HandlerRaises
<1>52. CASE Stop
  BY <1>52 DEF Stop
<1>53. CASE ConnectionLost
  BY <1>53 DEF ConnectionLost
<1>54. CASE Hotplug
  BY <1>54 DEF Hotplug
<1>55. ASSUME NEW p \in Pipelines, PipelineErrs(p) PROVE LoopInv'
  BY <1>55 DEF PipelineErrs
<1>56. ASSUME NEW t \in BusThreads, NEW p \in Pipelines, OnPipelineError(t, p) PROVE LoopInv'
  BY <1>56 DEF OnPipelineError
<1>57. ASSUME NEW t \in ChannelThreads, NEW p \in Pipelines, OnParams(t, p) PROVE LoopInv'
  BY <1>57 DEF OnParams
<1>58. ASSUME NEW t \in ChannelThreads, NEW p \in Pipelines, OnCalibrate(t, p) PROVE LoopInv'
  BY <1>58 DEF OnCalibrate
<1>59. ASSUME NEW t \in ChannelThreads, CalibrateScanned(t) PROVE LoopInv'
  BY <1>59 DEF CalibrateScanned
<1>60. ASSUME NEW t \in ChannelThreads, CalibrateClears(t) PROVE LoopInv'
  BY <1>60 DEF CalibrateClears
<1>61. ASSUME NEW p \in Pipelines, Release(p) PROVE LoopInv'
  BY <1>61 DEF Release
<1>62. CASE UNCHANGED vars
  BY <1>62 DEF vars
<1>63. QED
  BY <1>1, <1>2, <1>3, <1>4, <1>5, <1>6, <1>7, <1>8, <1>9, <1>10, <1>11, <1>12, <1>13, <1>14,
     <1>15, <1>16, <1>17, <1>18, <1>19, <1>20, <1>21, <1>22, <1>23, <1>24, <1>25, <1>26,
     <1>27, <1>28, <1>29, <1>30, <1>31, <1>32, <1>33, <1>34, <1>35, <1>36, <1>37, <1>38,
     <1>39, <1>40, <1>41, <1>42, <1>43, <1>44, <1>45, <1>46, <1>47, <1>48, <1>49, <1>50,
     <1>51, <1>52, <1>53, <1>54, <1>55, <1>56, <1>57, <1>58, <1>59, <1>60, <1>61, <1>62
  DEF Next, Teardown, Worker, MainStep, Connect, Message, Foreign, Environment, Terminated

\* The handlers of the loop exclude each other, in every state.
LEMMA OneCallbackAtATime == Spec => []LoopInv
<1>1. Init => LoopInv
  BY DEF Init, LoopInv, Threads
<1>2. QED
  BY <1>1, LoopInvStep, TypeCorrect, PTL DEF Spec

(***************************************************************************)
(* The pipeline the coordinator holds, for any threads.                    *)
(***************************************************************************)

\* A thread past "drop" works on a pipeline the coordinator no longer holds,
\* and a pipeline just built is nobody's yet.
HeldInv ==
    /\ CurrentNotStopped
    /\ \A t \in Threads : pc[t] \in {"stop", "free", "release"} => local[t] # pipeline
    /\ task = "built" =>
          /\ building \notin stopped
          /\ building \notin {pipeline, manager}
          /\ \A t \in Threads : local[t] # building

\* Every step keeps the held pipeline apart from the ones being stopped.
LEMMA HeldInvStep ==
    ASSUME TypeOK, LoopInv, HeldInv, [Next]_vars
    PROVE  HeldInv'
<1> USE CoordinatorAssumption
    DEF TypeOK, LoopInv, HeldInv, CurrentNotStopped, At, Goto, Raise, Main, EnterFinally, Dispatch,
        LoopFree, runVars, signalVars, threadVars, sessionVars, peerVars, pipeVars, flagVars, cameraVars,
        Awaiting, Starting, Wiring, UsesLocal, UsesBuilding, HandlerFails, Scan, Scanned
<1>1. ASSUME NEW t \in Threads, TeardownWatcher(t) PROVE HeldInv'
  BY <1>1 DEF TeardownWatcher
<1>2. ASSUME NEW t \in Threads, TeardownManager(t) PROVE HeldInv'
  BY <1>2 DEF TeardownManager
<1>3. ASSUME NEW t \in Threads, TeardownSession(t) PROVE HeldInv'
  BY <1>3 DEF TeardownSession
<1>4. ASSUME NEW t \in Threads, TeardownUnwire(t) PROVE HeldInv'
  BY <1>4 DEF TeardownUnwire
<1>5. ASSUME NEW t \in Threads, TeardownTest(t) PROVE HeldInv'
  BY <1>5 DEF TeardownTest
<1>6. ASSUME NEW t \in Threads, TeardownDeaf(t) PROVE HeldInv'
  BY <1>6 DEF TeardownDeaf
<1>7. ASSUME NEW t \in Threads, TeardownClose(t) PROVE HeldInv'
  BY <1>7 DEF TeardownClose
<1>8. ASSUME NEW t \in Threads, TeardownPeer(t) PROVE HeldInv'
  BY <1>8 DEF TeardownPeer
<1>9. ASSUME NEW t \in Threads, TeardownForget(t) PROVE HeldInv'
  BY <1>9 DEF TeardownForget
<1>10. ASSUME NEW t \in Threads, TeardownTake(t) PROVE HeldInv'
  BY <1>10 DEF TeardownTake
<1>11. ASSUME NEW t \in Threads, TeardownDrop(t) PROVE HeldInv'
  BY <1>11 DEF TeardownDrop
<1>12. ASSUME NEW t \in Threads, TeardownStop(t) PROVE HeldInv'
  BY <1>12 DEF TeardownStop
<1>13. ASSUME NEW t \in Threads, TeardownFree(t) PROVE HeldInv'
  BY <1>13 DEF TeardownFree
<1>14. ASSUME NEW t \in Threads, TeardownRelease(t) PROVE HeldInv'
  BY <1>14 DEF TeardownRelease
<1>15. ASSUME NEW t \in Threads, TeardownHooks(t) PROVE HeldInv'
  BY <1>15 DEF TeardownHooks
<1>16. CASE FactoryCached
  BY <1>16 DEF FactoryCached, Build, Fresh
<1>17. CASE FactoryScan
  BY <1>17 DEF FactoryScan
<1>18. CASE FactoryScanned
  BY <1>18 DEF FactoryScanned, Build, Fresh
<1>19. CASE FactoryEmpty
  BY <1>19 DEF FactoryEmpty
<1>20. CASE FactoryRaises
  BY <1>20 DEF FactoryRaises
<1>21. CASE StartPlay
  BY <1>21 DEF StartPlay
<1>22. CASE ConnectOk
  BY <1>22 DEF ConnectOk
<1>23. CASE ConnectFails
  BY <1>23 DEF ConnectFails
<1>24. CASE Wake
  BY <1>24 DEF Wake
<1>25. CASE Closed
  BY <1>25 DEF Closed
<1>26. CASE MainReturns
  BY <1>26 DEF MainReturns
<1>27. CASE MainRaises
  BY <1>27 DEF MainRaises
<1>28. CASE Refuse
  BY <1>28 DEF Refuse
<1>29. CASE Broken
  BY <1>29 DEF Broken
<1>30. CASE Hold
  BY <1>30 DEF Hold
<1>31. CASE Manage
  BY <1>31 DEF Manage
<1>32. CASE StopUnstarted
  BY <1>32 DEF StopUnstarted
<1>33. CASE Abandon
  BY <1>33 DEF Abandon
<1>34. CASE Forget
  BY <1>34 DEF Forget
<1>35. CASE Uncache
  BY <1>35 DEF Uncache
<1>36. CASE MakePeer
  BY <1>36 DEF MakePeer
<1>37. CASE MakeChannels
  BY <1>37 DEF MakeChannels
<1>38. CASE Bind
  BY <1>38 DEF Bind
<1>39. CASE Wire
  BY <1>39 DEF Wire
<1>40. CASE Attach
  BY <1>40 DEF Attach
<1>41. CASE Listen
  BY <1>41 DEF Listen
<1>42. CASE Hook
  BY <1>42 DEF Hook
<1>43. CASE Watch
  BY <1>43 DEF Watch
<1>44. CASE CallbackReturns
  BY <1>44 DEF CallbackReturns
<1>45. CASE ListenEnds
  BY <1>45 DEF ListenEnds
<1>46. CASE CloserRuns
  BY <1>46 DEF CloserRuns
<1>47. CASE CloserDone
  BY <1>47 DEF CloserDone
<1>48. CASE Tick
  BY <1>48 DEF Tick
<1>49. CASE HandleDisconnect
  BY <1>49 DEF HandleDisconnect
<1>50. CASE HandleConnect
  BY <1>50 DEF HandleConnect
<1>51. CASE HandlerRaises
  BY <1>51 DEF HandlerRaises
<1>52. CASE Stop
  BY <1>52 DEF Stop
<1>53. CASE ConnectionLost
  BY <1>53 DEF ConnectionLost
<1>54. CASE Hotplug
  BY <1>54 DEF Hotplug
<1>55. ASSUME NEW p \in Pipelines, PipelineErrs(p) PROVE HeldInv'
  BY <1>55 DEF PipelineErrs
<1>56. ASSUME NEW t \in BusThreads, NEW p \in Pipelines, OnPipelineError(t, p) PROVE HeldInv'
  BY <1>56 DEF OnPipelineError
<1>57. ASSUME NEW t \in ChannelThreads, NEW p \in Pipelines, OnParams(t, p) PROVE HeldInv'
  BY <1>57 DEF OnParams
<1>58. ASSUME NEW t \in ChannelThreads, NEW p \in Pipelines, OnCalibrate(t, p) PROVE HeldInv'
  BY <1>58 DEF OnCalibrate
<1>59. ASSUME NEW t \in ChannelThreads, CalibrateScanned(t) PROVE HeldInv'
  BY <1>59 DEF CalibrateScanned
<1>60. ASSUME NEW t \in ChannelThreads, CalibrateClears(t) PROVE HeldInv'
  BY <1>60 DEF CalibrateClears
<1>61. ASSUME NEW p \in Pipelines, Release(p) PROVE HeldInv'
  BY <1>61 DEF Release
<1>62. CASE UNCHANGED vars
  BY <1>62 DEF vars
<1>63. QED
  BY <1>1, <1>2, <1>3, <1>4, <1>5, <1>6, <1>7, <1>8, <1>9, <1>10, <1>11, <1>12, <1>13, <1>14,
     <1>15, <1>16, <1>17, <1>18, <1>19, <1>20, <1>21, <1>22, <1>23, <1>24, <1>25, <1>26,
     <1>27, <1>28, <1>29, <1>30, <1>31, <1>32, <1>33, <1>34, <1>35, <1>36, <1>37, <1>38,
     <1>39, <1>40, <1>41, <1>42, <1>43, <1>44, <1>45, <1>46, <1>47, <1>48, <1>49, <1>50,
     <1>51, <1>52, <1>53, <1>54, <1>55, <1>56, <1>57, <1>58, <1>59, <1>60, <1>61, <1>62
  DEF Next, Teardown, Worker, MainStep, Connect, Message, Foreign, Environment, Terminated

\* However the threads interleave, the pipeline a bitrate or params message
\* acts on is not one that stop() has been called on.
THEOREM HeldPipelineNotStopped == Spec => []CurrentNotStopped
<1>1. Init => HeldInv
  BY DEF Init, HeldInv, CurrentNotStopped
<1>2. HeldInv => CurrentNotStopped
  BY DEF HeldInv
<1>3. QED
  BY <1>1, <1>2, HeldInvStep, TypeCorrect, OneCallbackAtATime, PTL DEF Spec

(***************************************************************************)
(* One thread: the session is consistent at every await.                   *)
(***************************************************************************)

OneThread == BusThreads = {} /\ ChannelThreads = {}

\* Nothing is wired, nor has a peer.
Quiet ==
    /\ known = None
    /\ packetCb = None
    /\ ~hooks
    /\ peer = {} /\ channels = {} /\ listening = {}

\* The session of p is being put together: it has its peer, the channels cs and
\* the packet callback cb.
Prepared(p, cs, cb) ==
    /\ pipeline = p
    /\ manager = p
    /\ known = None
    /\ packetCb = cb
    /\ ~hooks
    /\ peer = {p} /\ channels = cs /\ listening = {}

\* The session of p has its peer and channels.
Live(p) ==
    /\ pipeline = p
    /\ manager = p
    /\ known = None
    /\ packetCb = p
    /\ peer = {p} /\ channels = {p} /\ listening = {p}

Bare == {"connecting", "sleep", "closing", "factory", "scanning", "built", "refuse", "broken",
         "replace", "drop", "finally", "uncaching", "done"}

\* Outside _teardown: what is wired at each point of the main task.
RestInv ==
    /\ pc[Loop] = "idle" /\ callback # "none" => Off
    /\ Dispatch =>
          /\ task \in Bare => Off
          /\ task = "holding" => Quiet /\ pipeline = building /\ manager = None
          /\ task \in Starting \cup {"abandon"} => Off \/ Beginning
          /\ task = "forgetting" => Quiet /\ pipeline = None
          /\ task = "peered" => Prepared(building, {}, None)
          /\ task \in {"opened", "bound"} => Prepared(building, {building}, None)
          /\ task \in {"wired", "listening"} => Prepared(building, {building}, building)
          /\ task # "skipped"
          /\ task = "hook" => Live(building) /\ ~hooks
          /\ task = "watch" => Live(building) /\ hooks
          /\ task = "listen" => Off \/ \E p \in Pipelines : On(p)

\* Where _teardown has a manager in hand, and where it has undone what.
EndSteps == {"unwire", "handlers", "deaf", "channels", "close", "peer"}
Unwired  == TeardownSteps \ {"watcher", "manager", "session", "unwire"}
Deaf     == Unwired \ {"handlers", "deaf"}
Shut     == Deaf \ {"channels", "close"}
Alone    == Shut \ {"peer"}

\* Inside _teardown: what the statements so far have undone.
StageInv ==
    pc[Loop] # "idle" =>
        /\ pc[Loop] # "raised"
        /\ manager # None => pipeline = manager
        /\ packetCb # None => packetCb \in channels
        /\ listening \subseteq channels /\ channels \subseteq peer
        /\ \A p \in peer : p = manager
        /\ pc[Loop] # "watcher" => known = None
        /\ pc[Loop] \in {"session"} \cup EndSteps => manager # None
        /\ pc[Loop] \in EndSteps => local[Loop] = manager /\ manager \in peer
        /\ pc[Loop] \in {"deaf", "close"} => manager \in channels
        /\ pc[Loop] \in Unwired => packetCb = None
        /\ pc[Loop] \in Deaf => listening = {}
        /\ pc[Loop] \in Shut => channels = {}
        /\ pc[Loop] \in Alone => peer = {}
        /\ pc[Loop] \in {"take", "drop", "stop", "free", "release", "hooks"} => manager = None
        /\ pc[Loop] = "drop" => local[Loop] = pipeline
        /\ pc[Loop] \in {"stop", "free", "release", "hooks"} => pipeline = None

\* start() never finds its pipeline released, or about to be, while the session is still its.
UnreleasedInv ==
    /\ task \in {"built", "holding"} => building \notin releasing \cup released
    /\ task = "starting" /\ pipeline = building => building \notin releasing \cup released

WireInv == RestInv /\ StageInv /\ UnreleasedInv /\ NeverCrashes

\* Every step of a single-threaded board keeps the wiring invariant.
LEMMA WireInvStep ==
    ASSUME OneThread, TypeOK, LoopInv, HeldInv, WireInv, [Next]_vars
    PROVE  WireInv'
<1> USE CoordinatorAssumption
    DEF OneThread, TypeOK, LoopInv, HeldInv, WireInv, RestInv, StageInv, UnreleasedInv,
        NeverCrashes, Off, On, Live, Beginning, Bare, EndSteps, Unwired, Deaf, Shut, Alone,
        TeardownSteps, ThreadSteps, At, Goto, Raise, Main, EnterFinally,
        Dispatch, LoopFree, Threads, runVars, signalVars, threadVars, sessionVars, peerVars, pipeVars,
        flagVars, cameraVars, Awaiting, Starting, Wiring, UsesLocal, UsesBuilding, HandlerFails,
        Scan, Scanned, Quiet, Prepared
<1>1. ASSUME NEW t \in Threads, TeardownWatcher(t) PROVE WireInv'
  BY <1>1 DEF TeardownWatcher
<1>2. ASSUME NEW t \in Threads, TeardownManager(t) PROVE WireInv'
  BY <1>2 DEF TeardownManager
<1>3. ASSUME NEW t \in Threads, TeardownSession(t) PROVE WireInv'
  BY <1>3 DEF TeardownSession
<1>4. ASSUME NEW t \in Threads, TeardownUnwire(t) PROVE WireInv'
  BY <1>4 DEF TeardownUnwire
<1>5. ASSUME NEW t \in Threads, TeardownTest(t) PROVE WireInv'
  BY <1>5 DEF TeardownTest
<1>6. ASSUME NEW t \in Threads, TeardownDeaf(t) PROVE WireInv'
  BY <1>6 DEF TeardownDeaf
<1>7. ASSUME NEW t \in Threads, TeardownClose(t) PROVE WireInv'
  BY <1>7 DEF TeardownClose
<1>8. ASSUME NEW t \in Threads, TeardownPeer(t) PROVE WireInv'
  BY <1>8 DEF TeardownPeer
<1>9. ASSUME NEW t \in Threads, TeardownForget(t) PROVE WireInv'
  BY <1>9 DEF TeardownForget
<1>10. ASSUME NEW t \in Threads, TeardownTake(t) PROVE WireInv'
  BY <1>10 DEF TeardownTake
<1>11. ASSUME NEW t \in Threads, TeardownDrop(t) PROVE WireInv'
  BY <1>11 DEF TeardownDrop
<1>12. ASSUME NEW t \in Threads, TeardownStop(t) PROVE WireInv'
  BY <1>12 DEF TeardownStop
<1>13. ASSUME NEW t \in Threads, TeardownFree(t) PROVE WireInv'
  BY <1>13 DEF TeardownFree
<1>14. ASSUME NEW t \in Threads, TeardownRelease(t) PROVE WireInv'
  BY <1>14 DEF TeardownRelease
<1>15. ASSUME NEW t \in Threads, TeardownHooks(t) PROVE WireInv'
  BY <1>15 DEF TeardownHooks
<1>16. CASE FactoryCached
  BY <1>16 DEF FactoryCached, Build, Fresh
<1>17. CASE FactoryScan
  BY <1>17 DEF FactoryScan
<1>18. CASE FactoryScanned
  BY <1>18 DEF FactoryScanned, Build, Fresh
<1>19. CASE FactoryEmpty
  BY <1>19 DEF FactoryEmpty
<1>20. CASE FactoryRaises
  BY <1>20 DEF FactoryRaises
<1>21. CASE StartPlay
  BY <1>21 DEF StartPlay
<1>22. CASE ConnectOk
  BY <1>22 DEF ConnectOk
<1>23. CASE ConnectFails
  BY <1>23 DEF ConnectFails
<1>24. CASE Wake
  BY <1>24 DEF Wake
<1>25. CASE Closed
  BY <1>25 DEF Closed
<1>26. CASE MainReturns
  BY <1>26 DEF MainReturns
<1>27. CASE MainRaises
  BY <1>27 DEF MainRaises
<1>28. CASE Refuse
  BY <1>28 DEF Refuse
<1>29. CASE Broken
  BY <1>29 DEF Broken
<1>30. CASE Hold
  BY <1>30 DEF Hold
<1>31. CASE Manage
  BY <1>31 DEF Manage
<1>32. CASE StopUnstarted
  BY <1>32 DEF StopUnstarted
<1>33. CASE Abandon
  BY <1>33 DEF Abandon
<1>34. CASE Forget
  BY <1>34 DEF Forget
<1>35. CASE Uncache
  BY <1>35 DEF Uncache
<1>36. CASE MakePeer
  BY <1>36 DEF MakePeer
<1>37. CASE MakeChannels
  BY <1>37 DEF MakeChannels
<1>38. CASE Bind
  BY <1>38 DEF Bind
<1>39. CASE Wire
  BY <1>39 DEF Wire
<1>40. CASE Attach
  BY <1>40 DEF Attach
<1>41. CASE Listen
  BY <1>41 DEF Listen
<1>42. CASE Hook
  BY <1>42 DEF Hook
<1>43. CASE Watch
  BY <1>43 DEF Watch
<1>44. CASE CallbackReturns
  BY <1>44 DEF CallbackReturns
<1>45. CASE ListenEnds
  BY <1>45 DEF ListenEnds
<1>46. CASE CloserRuns
  BY <1>46 DEF CloserRuns
<1>47. CASE CloserDone
  BY <1>47 DEF CloserDone
<1>48. CASE Tick
  BY <1>48 DEF Tick
<1>49. CASE HandleDisconnect
  BY <1>49 DEF HandleDisconnect
<1>50. CASE HandleConnect
  BY <1>50 DEF HandleConnect
<1>51. CASE HandlerRaises
  BY <1>51 DEF HandlerRaises
<1>52. CASE Stop
  BY <1>52 DEF Stop
<1>53. CASE ConnectionLost
  BY <1>53 DEF ConnectionLost
<1>54. CASE Hotplug
  BY <1>54 DEF Hotplug
<1>55. ASSUME NEW p \in Pipelines, PipelineErrs(p) PROVE WireInv'
  BY <1>55 DEF PipelineErrs
<1>56. ASSUME NEW t \in BusThreads, NEW p \in Pipelines, OnPipelineError(t, p) PROVE WireInv'
  BY <1>56 DEF OnPipelineError
<1>57. ASSUME NEW t \in ChannelThreads, NEW p \in Pipelines, OnParams(t, p) PROVE WireInv'
  BY <1>57 DEF OnParams
<1>58. ASSUME NEW t \in ChannelThreads, NEW p \in Pipelines, OnCalibrate(t, p) PROVE WireInv'
  BY <1>58 DEF OnCalibrate
<1>59. ASSUME NEW t \in ChannelThreads, CalibrateScanned(t) PROVE WireInv'
  BY <1>59 DEF CalibrateScanned
<1>60. ASSUME NEW t \in ChannelThreads, CalibrateClears(t) PROVE WireInv'
  BY <1>60 DEF CalibrateClears
<1>61. ASSUME NEW p \in Pipelines, Release(p) PROVE WireInv'
  BY <1>61 DEF Release
<1>62. CASE UNCHANGED vars
  BY <1>62 DEF vars
<1>63. QED
  BY <1>1, <1>2, <1>3, <1>4, <1>5, <1>6, <1>7, <1>8, <1>9, <1>10, <1>11, <1>12, <1>13, <1>14,
     <1>15, <1>16, <1>17, <1>18, <1>19, <1>20, <1>21, <1>22, <1>23, <1>24, <1>25, <1>26,
     <1>27, <1>28, <1>29, <1>30, <1>31, <1>32, <1>33, <1>34, <1>35, <1>36, <1>37, <1>38,
     <1>39, <1>40, <1>41, <1>42, <1>43, <1>44, <1>45, <1>46, <1>47, <1>48, <1>49, <1>50,
     <1>51, <1>52, <1>53, <1>54, <1>55, <1>56, <1>57, <1>58, <1>59, <1>60, <1>61, <1>62
  DEF Next, Teardown, Worker, MainStep, Connect, Message, Foreign, Environment, Terminated

\* With one thread, _teardown, _handle_connect, stop() and the watcher leave
\* the session's parts in agreement whenever the loop is free, and no exception
\* escapes run().
THEOREM LoopKeepsSessionConsistent ==
    ASSUME OneThread
    PROVE  Spec => [](SessionConsistent /\ NeverCrashes)
<1>1. Init => WireInv
  BY DEF Init, WireInv, RestInv, StageInv, UnreleasedInv, NeverCrashes, Off, Dispatch, Bare,
     Starting, Threads
<1>2. TypeOK /\ WireInv => SessionConsistent /\ NeverCrashes
  BY DEF TypeOK, WireInv, RestInv, SessionConsistent, LoopFree, Dispatch, Awaiting, Starting, Bare
<1>3. TypeOK /\ LoopInv /\ HeldInv /\ WireInv /\ [Next]_vars => WireInv'
  BY WireInvStep
<1>4. Init => HeldInv
  BY DEF Init, HeldInv, CurrentNotStopped
<1>5. QED
  BY <1>1, <1>2, <1>3, <1>4, HeldInvStep, TypeCorrect, OneCallbackAtATime, PTL DEF Spec

\* With one thread, _teardown never fails inside run(): an exception in its
\* finally clause would hide the reason and leave the rest undone.
THEOREM LoopNeverCrashes ==
    ASSUME OneThread
    PROVE  Spec => []NeverCrashes
BY LoopKeepsSessionConsistent, PTL

(***************************************************************************)
(* Coordinator implements Lease when only the loop's thread calls          *)
(* _teardown: every statement of _handle_connect, _teardown and stop() is  *)
(* a step of the lending protocol or none.  What Lease promises then holds *)
(* of the board: the cameras have one user.  The invariant behind it also  *)
(* gives the state run() leaves.                                           *)
(***************************************************************************)

(***************************************************************************)
(* Who can hold the cameras.                                               *)
(***************************************************************************)

\* The loop is in stop(), or _teardown of a camera change runs in listen().
CallbackInv ==
    /\ callback = "stop" => stop_event
    /\ callback = "watch" => task = "listen"

\* The pipeline of the session, and the one being stopped, still have their
\* elements, so that set_state(NULL) reaches them.
ElementsInv ==
    /\ pipeline # None => pipeline \notin releasing \cup released
    /\ pc[Loop] \in {"stop", "free"} => local[Loop] \notin releasing \cup released
    /\ pc[Loop] = "stop" => local[Loop] \notin stopped

\* Until the board is told to stop, only the pipeline of the session, or the
\* one _teardown is stopping, holds cameras; none does before start().
HolderInv ==
    ~stop_event =>
        /\ \A p \in up : pipeline = p \/ (pc[Loop] \in {"stop", "free"} /\ local[Loop] = p)
        /\ task \in Starting \cup {"abandon"} => pipeline = building
        /\ task \in {"holding", "starting", "abandon"} => up = {}

\* p was stopped or will be: _teardown finds it in _pipeline or has it in hand.
Covered(p) == p \in stopped \/ p = pipeline \/ (pc[Loop] = "stop" /\ local[Loop] = p)

\* Every pipeline that plays is stopped in the end, or was before it played.
StopInv ==
    /\ \A p \in up : Covered(p)
    /\ task = "starting" => Covered(building)
    /\ task = "abandon" => building \in stopped
    /\ task \in {"started"} \cup Wiring /\ pipeline = building => building \in up

\* Between two connections there is none.
ConnInv == task \in {"sleep", "done"} => conn = "none"

HoldInv == CallbackInv /\ ElementsInv /\ HolderInv /\ StopInv /\ ConnInv

\* What is a pipeline, and what is none.
LEMMA Typed ==
    ASSUME TypeOK
    PROVE  /\ \A p \in up : p # None
           /\ task \in UsesBuilding => building # None
<1>1. None \notin Pipelines
  BY CoordinatorAssumption
<1>2. up \subseteq Pipelines
  BY DEF TypeOK
<1>3. task \in UsesBuilding => building # None
  BY DEF TypeOK
<1>4. QED
  BY <1>1, <1>2, <1>3

\* What the invariants of CoordinatorProofs say where the loop is idle and where
\* it is in _teardown, of the variables HoldInv is about.
LEMMA Rest ==
    ASSUME OneThread, TypeOK, LoopInv, HeldInv, WireInv, HoldInv
    PROVE  /\ Threads = {Loop}
           /\ Dispatch /\ task \in Bare => pipeline = None /\ manager = None /\ known = None
           /\ Dispatch /\ task \in Starting \cup {"abandon"} =>
                 /\ pipeline \in {None, building} /\ manager = pipeline
                 /\ packetCb = None /\ known = None
           /\ task = "holding" => Dispatch /\ pipeline = building
           /\ task \in {"forgetting", "uncaching"} => Dispatch /\ pipeline = None
           /\ task \in Wiring => Dispatch /\ pipeline = building /\ manager = building
           /\ task \in {"opened", "bound"} => packetCb = None
           /\ task # "skipped"
           /\ pc[Loop] # "idle" =>
                 /\ task \notin {"starting", "started", "unstarted", "abandon"} \/ stop_event
                 /\ task # "abandon"
           /\ ~stop_event /\ task \in Starting \cup {"factory", "scanning"} => Dispatch
           /\ ~stop_event /\ task \in {"factory", "scanning", "built"} /\ Dispatch => up = {}
<1> USE DEF OneThread, LoopInv, WireInv, RestInv, HoldInv, CallbackInv, HolderInv, Dispatch,
            Off, Beginning, Bare, Starting, Awaiting, Quiet, Prepared, Wiring
<1>1. Threads = {Loop}
  BY DEF Threads
<1>2. Dispatch /\ task \in Bare => pipeline = None /\ manager = None /\ known = None
  OBVIOUS
<1>3. Dispatch /\ task \in Starting \cup {"abandon"} =>
         /\ pipeline \in {None, building} /\ manager = pipeline
         /\ packetCb = None /\ known = None
  OBVIOUS
<1>4. callback \in {"none", "stop", "watch"}
  BY DEF TypeOK
<1>5. pc[Loop] # "idle" =>
         /\ task \notin {"starting", "started", "unstarted", "abandon"} \/ stop_event
         /\ task # "abandon"
  BY <1>4
<1>6. ~stop_event /\ task \in Starting \cup {"factory", "scanning"} => Dispatch
  BY <1>4
<1>7. ~stop_event /\ task \in {"factory", "scanning", "built"} /\ Dispatch => up = {}
  <2> SUFFICES ASSUME ~stop_event, task \in {"factory", "scanning", "built"}, Dispatch
               PROVE  up = {}
    OBVIOUS
  <2>1. pipeline = None /\ pc[Loop] = "idle"
    BY <1>2
  <2>2. QED
    BY <2>1, Typed
<1>8. /\ task = "holding" => Dispatch /\ pipeline = building
      /\ task \in {"forgetting", "uncaching"} => Dispatch /\ pipeline = None
      /\ task \in Wiring => Dispatch /\ pipeline = building /\ manager = building
      /\ task \in {"opened", "bound"} => packetCb = None
      /\ task # "skipped"
  BY <1>4
<1>9. QED
  BY <1>1, <1>2, <1>3, <1>5, <1>6, <1>7, <1>8

\* The steps of _teardown keep HoldInv: what it drops it stops, and what it
\* stops has its elements.
LEMMA TeardownHoldInv ==
    ASSUME OneThread, TypeOK, LoopInv, HeldInv, WireInv, HoldInv, Teardown(Loop)
    PROVE  HoldInv'
<1>0. /\ DOMAIN pc = Threads /\ DOMAIN local = Threads /\ Loop \in Threads
      /\ pc = [t \in Threads |-> pc[t]] /\ local = [t \in Threads |-> local[t]]
  BY DEF TypeOK, Threads
<1> USE Rest, <1>0
    DEF HoldInv, CallbackInv, ElementsInv, HolderInv, StopInv, ConnInv, Covered, At, Goto, Raise,
        Starting, Wiring, runVars, signalVars, threadVars, sessionVars, peerVars, pipeVars, flagVars, cameraVars
<1>1. CASE TeardownWatcher(Loop)
  BY <1>1 DEF TeardownWatcher
<1>2. CASE TeardownManager(Loop)
  BY <1>2 DEF TeardownManager
<1>3. CASE TeardownSession(Loop)
  BY <1>3 DEF TeardownSession
<1>4. CASE TeardownUnwire(Loop) \/ TeardownTest(Loop) \/ TeardownDeaf(Loop) \/ TeardownClose(Loop)
        \/ TeardownPeer(Loop)
  BY <1>4 DEF TeardownUnwire, TeardownTest, TeardownDeaf, TeardownClose, TeardownPeer
<1>5. CASE TeardownForget(Loop)
  BY <1>5 DEF TeardownForget
<1>6. CASE TeardownTake(Loop)
  BY <1>6 DEF TeardownTake
<1>7. CASE TeardownDrop(Loop)
  <2>1. /\ local[Loop] = pipeline /\ pipeline' = None
        /\ pc' = [pc EXCEPT ![Loop] = IF pipeline = None THEN "hooks" ELSE "stop"]
        /\ UNCHANGED <<task, callback, stop_event, conn, local, up, stopped, releasing, released,
                       building>>
    BY <1>7 DEF TeardownDrop, WireInv, StageInv
  <2>2. pipeline # None => pc'[Loop] = "stop" /\ pipeline \notin stopped
    BY <1>7, <2>1 DEF TeardownDrop, HeldInv, CurrentNotStopped
  <2>3. pipeline = None => pc'[Loop] = "hooks"
    BY <2>1
  <2>4. pc[Loop] = "drop"
    BY <1>7 DEF TeardownDrop
  <2>5. ElementsInv' /\ ConnInv' /\ CallbackInv'
    BY <2>1, <2>2, <2>3
  <2>6. \A p \in up : p # None
    BY Typed
  <2>7. HolderInv'
    BY <2>1, <2>2, <2>4, <2>6
  <2>8. StopInv'
    BY <2>1, <2>2, <2>4, <2>6, Typed DEF UsesBuilding
  <2>9. QED
    BY <2>5, <2>7, <2>8
<1>8. CASE TeardownStop(Loop)
  BY <1>8 DEF TeardownStop, WireInv, StageInv
<1>9. CASE TeardownFree(Loop)
  BY <1>9 DEF TeardownFree, WireInv, StageInv, TypeOK, UsesBuilding
<1>10. CASE TeardownRelease(Loop)
  BY <1>10 DEF TeardownRelease, WireInv, StageInv
<1>11. CASE TeardownHooks(Loop)
  BY <1>11 DEF TeardownHooks, WireInv, StageInv
<1>12. QED
  BY <1>1, <1>2, <1>3, <1>4, <1>5, <1>6, <1>7, <1>8, <1>9, <1>10, <1>11 DEF Teardown

\* So do the steps of run() and of the loop's callbacks.
LEMMA LoopHoldInv ==
    ASSUME OneThread, TypeOK, LoopInv, HeldInv, WireInv, HoldInv,
           MainStep \/ CallbackReturns \/ ListenEnds \/ CloserRuns \/ CloserDone \/ Tick
             \/ Message
    PROVE  HoldInv'
<1>0. /\ DOMAIN pc = Threads /\ Loop \in Threads /\ pc = [t \in Threads |-> pc[t]]
      /\ callback \in {"none", "stop", "watch"} /\ closer \in {"none", "pending", "closing"}
      /\ task \in UsesBuilding => building # None
  BY DEF TypeOK, Threads
<1> USE Rest, <1>0
    DEF HoldInv, CallbackInv, ElementsInv, HolderInv, StopInv, ConnInv, Covered, At, Goto, Main,
        EnterFinally, HandlerFails, Dispatch, LoopFree, Bare, Starting, Wiring, runVars, signalVars, threadVars,
        sessionVars, peerVars, pipeVars, flagVars, cameraVars
<1>1. CASE Connect \/ Wake \/ Closed \/ Refuse
  BY <1>1 DEF Connect, ConnectOk, ConnectFails, Wake, Closed, Refuse
<1>2. CASE MainReturns
  BY <1>2 DEF MainReturns
<1>3. CASE MainRaises \/ Broken
  BY <1>3 DEF MainRaises, Broken
<1>4. CASE Hold
  <2>1. /\ task = "built" /\ task' = "holding" /\ pipeline = None /\ pipeline' = building
        /\ pc[Loop] = "idle" /\ Dispatch
        /\ UNCHANGED <<callback, stop_event, conn, pc, local, up, stopped, releasing, released,
                       building>>
    BY <1>4 DEF Hold
  <2>2. building \notin releasing \cup released
    BY <2>1 DEF WireInv, UnreleasedInv
  <2>3. \A p \in up : p \in stopped
    BY <2>1, Typed
  <2>4. ~stop_event => up = {}
    BY <2>1
  <2>5. QED
    BY <2>1, <2>2, <2>3, <2>4
<1>5. CASE StopUnstarted
  BY <1>5 DEF StopUnstarted, HeldInv, CurrentNotStopped, UsesBuilding
<1>6. CASE Abandon
  BY <1>6 DEF Abandon
<1>7. CASE MakePeer \/ MakeChannels \/ Bind \/ Wire \/ Attach \/ Listen
  BY <1>7 DEF MakePeer, MakeChannels, Bind, Wire, Attach, Listen
<1>8. CASE Hook \/ Watch \/ Forget \/ Uncache
  BY <1>8 DEF Hook, Watch, Forget, Uncache
<1>9. CASE CallbackReturns
  BY <1>9 DEF CallbackReturns, LoopInv, Awaiting
<1>10. CASE ListenEnds \/ CloserRuns \/ CloserDone \/ Message
  BY <1>10 DEF ListenEnds, CloserRuns, CloserDone, Message, HandleConnect, HandleDisconnect,
     HandlerRaises
<1>11. CASE Tick
  BY <1>11 DEF Tick, Awaiting
<1>12. CASE Manage
  BY <1>12 DEF Manage
<1>13. QED
  BY <1>1, <1>2, <1>3, <1>4, <1>5, <1>6, <1>7, <1>8, <1>9, <1>10, <1>11, <1>12 DEF MainStep

\* So do the workers and the environment.
LEMMA OutsideHoldInv ==
    ASSUME OneThread, TypeOK, LoopInv, HeldInv, WireInv, HoldInv,
           Worker \/ Foreign \/ Environment \/ \E p \in Pipelines : Release(p)
    PROVE  HoldInv'
<1>0. /\ DOMAIN pc = Threads /\ Loop \in Threads /\ pc = [t \in Threads |-> pc[t]]
      /\ callback \in {"none", "stop", "watch"}
      /\ task \in UsesBuilding => building # None
  BY DEF TypeOK, Threads
<1> USE Rest, <1>0
    DEF HoldInv, CallbackInv, ElementsInv, HolderInv, StopInv, ConnInv, Covered, At, Goto,
        Starting, Wiring, Scan, Scanned, runVars, signalVars, threadVars, sessionVars, peerVars, pipeVars, flagVars, cameraVars
<1>1. CASE FactoryCached \/ FactoryScanned
  <2>1. PICK p \in Pipelines, cs \in {cache, scanned[Loop]} : Build(p, cs)
    BY <1>1 DEF FactoryCached, FactoryScanned
  <2>2. QED
    BY <1>1, <2>1 DEF FactoryCached, FactoryScanned, Build, Fresh
<1>2. CASE FactoryScan \/ FactoryEmpty \/ FactoryRaises
  BY <1>2 DEF FactoryScan, FactoryEmpty, FactoryRaises
<1>3. CASE StartPlay
  BY <1>3 DEF StartPlay
<1>4. CASE Stop
  BY <1>4 DEF Stop, LoopFree, Dispatch
<1>5. CASE ConnectionLost \/ Hotplug
  BY <1>5 DEF ConnectionLost, Hotplug
<1>6. ASSUME NEW p \in Pipelines, PipelineErrs(p)
      PROVE  HoldInv'
  BY <1>6 DEF PipelineErrs
<1>7. ASSUME NEW p \in Pipelines, Release(p)
      PROVE  HoldInv'
  BY <1>7 DEF Release
<1>8. ~Foreign
  BY DEF Foreign, OneThread
<1>9. QED
  BY <1>1, <1>2, <1>3, <1>4, <1>5, <1>6, <1>7, <1>8 DEF Worker, Environment

\* With one thread, HoldInv holds in every state.
LEMMA HoldInvariant ==
    ASSUME OneThread
    PROVE  Spec => [](TypeOK /\ LoopInv /\ HeldInv /\ WireInv /\ HoldInv)
<1>1. Init => HeldInv /\ WireInv
  BY DEF Init, HeldInv, CurrentNotStopped, WireInv, RestInv, StageInv, UnreleasedInv, NeverCrashes,
     Off, Dispatch, Bare, Starting, Threads
<1>2. Init => HoldInv
  BY DEF Init, HoldInv, CallbackInv, ElementsInv, HolderInv, StopInv, ConnInv, Starting, Wiring,
     Threads
<1>3. ASSUME TypeOK, LoopInv, HeldInv, WireInv, HoldInv, [Next]_vars
      PROVE  HoldInv'
  <2>1. CASE \E t \in Threads : Teardown(t)
    <3>1. Teardown(Loop)
      BY <2>1 DEF Threads, OneThread
    <3>2. QED
      BY <1>3, <3>1, TeardownHoldInv
  <2>2. CASE MainStep \/ CallbackReturns \/ ListenEnds \/ CloserRuns \/ CloserDone \/ Tick \/ Message
    BY <1>3, <2>2, LoopHoldInv
  <2>3. CASE Worker \/ Foreign \/ Environment \/ \E p \in Pipelines : Release(p)
    BY <1>3, <2>3, OutsideHoldInv
  <2>4. CASE UNCHANGED vars
    BY <1>3, <2>4 DEF vars, runVars, signalVars, threadVars, sessionVars, peerVars, pipeVars, flagVars,
       HoldInv, CallbackInv, ElementsInv, HolderInv, StopInv, ConnInv, Covered
  <2>5. QED
    BY <1>3, <2>1, <2>2, <2>3, <2>4 DEF Next, Terminated
<1>4. QED
  BY <1>1, <1>2, <1>3, HeldInvStep, WireInvStep, TypeCorrect, OneCallbackAtATime, PTL DEF Spec

\* When run() returns nothing is wired, the connection is closed, and only a
\* pipeline that was stopped before it played can be playing.
THEOREM StopLeavesNothingOn ==
    ASSUME OneThread
    PROVE  Spec => []ShutdownClean
<1>1. ASSUME TypeOK, LoopInv, WireInv, HoldInv, task = "done"
      PROVE  Off /\ conn = "none" /\ up \subseteq stopped
  <2>1. Dispatch
    BY <1>1 DEF LoopInv, Dispatch, Awaiting, Starting
  <2>2. Off
    BY <1>1, <2>1 DEF WireInv, RestInv, Bare
  <2>3. \A p \in up : p \in stopped
    BY <1>1, <2>1, <2>2, Typed DEF HoldInv, StopInv, Covered, Off, Dispatch
  <2>4. QED
    BY <1>1, <2>2, <2>3 DEF HoldInv, ConnInv
<1>2. TypeOK /\ LoopInv /\ WireInv /\ HoldInv => ShutdownClean
  BY <1>1 DEF ShutdownClean
<1>3. QED
  BY <1>2, HoldInvariant, PTL

(***************************************************************************)
(* The refinement.                                                         *)
(***************************************************************************)

\* The states the abstract protocol sees: a step that changes none of the four
\* is a stutter.
Seen == <<up, Scanning, packetCb, stop_event>>

\* On one thread the registry calibrates for the factory only.
LEMMA ScanningOnLoop ==
    ASSUME OneThread, LoopInv
    PROVE  Scanning <=> task = "scanning"
BY DEF OneThread, LoopInv, Scanning, Threads, At

\* So a step of the loop's thread that neither begins nor ends its scan is none
\* of the registry's.
LEMMA ScanningKept ==
    ASSUME OneThread, TypeOK, LoopInv, [Next]_vars,
           (task = "scanning") <=> (task' = "scanning")
    PROVE  UNCHANGED Scanning
<1>1. LoopInv'
  BY LoopInvStep
<1>2. QED
  BY <1>1 DEF OneThread, LoopInv, Scanning, Threads, At

\* The steps that play or stop a pipeline, and the one that stores the callback,
\* are those of a borrower.
LEMMA BorrowerSteps ==
    ASSUME OneThread, TypeOK, LoopInv, HeldInv, WireInv, HoldInv, [Next]_vars,
           StartPlay \/ Wire \/ TeardownFree(Loop) \/ StopUnstarted
    PROVE  Lending!Next \/ UNCHANGED Seen
<1>0. /\ task \in UsesBuilding => building \in Pipelines
      /\ pc[Loop] \in UsesLocal => local[Loop] \in Pipelines
      /\ None \notin Pipelines
  BY CoordinatorAssumption DEF TypeOK, Threads
<1>1. ASSUME StartPlay
      PROVE  Lending!Next \/ UNCHANGED Seen
  <2>1. /\ task = "starting" /\ task' # "scanning" /\ UNCHANGED <<packetCb, stop_event>>
        /\ up' = up \/ up' = up \cup {building}
    BY <1>1 DEF StartPlay, signalVars, sessionVars
  <2>2. stop_event \/ up = {}
    BY <2>1 DEF HoldInv, HolderInv
  <2>3. building \in Pipelines
    BY <2>1, <1>0 DEF UsesBuilding, Starting
  <2>4. UNCHANGED Scanning /\ ~Scanning
    BY <2>1, ScanningKept, ScanningOnLoop
  <2>5. CASE up' = up \cup {building}
    <3>1. Lending!Claim(building)
      BY <2>1, <2>2, <2>4, <2>5 DEF Lending!Claim, Lending!Unlent
    <3>2. QED
      BY <2>3, <3>1 DEF Lending!Next
  <2>6. QED
    BY <2>1, <2>4, <2>5 DEF Seen
<1>2. ASSUME Wire
      PROVE  Lending!Next \/ UNCHANGED Seen
  <2>1. /\ task = "bound" /\ Dispatch /\ task' # "scanning" /\ UNCHANGED <<up, stop_event>>
        /\ packetCb' = building
    BY <1>2 DEF Wire, Main, signalVars, pipeVars, flagVars
  <2>2. packetCb = None /\ pipeline = building
    BY <2>1, Rest DEF Wiring
  <2>3. building \in up
    BY <2>1, <2>2 DEF HoldInv, StopInv, Wiring
  <2>4. UNCHANGED Scanning
    BY <2>1, ScanningKept
  <2>5. Lending!Talk(building)
    BY <2>1, <2>2, <2>3, <2>4 DEF Lending!Talk
  <2>6. QED
    BY <2>1, <2>5, <1>0 DEF Lending!Next, UsesBuilding, Wiring
<1>3. ASSUME TeardownFree(Loop)
      PROVE  Lending!Next \/ UNCHANGED Seen
  <2>1. /\ pc[Loop] = "free" /\ UNCHANGED <<task, packetCb, stop_event>>
        /\ up' = up \ ({local[Loop]} \ released)
    BY <1>3 DEF TeardownFree, At, runVars, signalVars, sessionVars
  <2>2. local[Loop] \in Pipelines /\ packetCb = None
    BY <2>1, <1>0 DEF UsesLocal, WireInv, StageInv, Unwired, TeardownSteps
  <2>3. up' = up \ {local[Loop]}
    BY <2>1 DEF HoldInv, ElementsInv
  <2>4. UNCHANGED Scanning
    BY <2>1, ScanningKept
  <2>5. Lending!Free(local[Loop])
    BY <2>1, <2>2, <2>3, <2>4, <1>0 DEF Lending!Free
  <2>6. QED
    BY <2>2, <2>5 DEF Lending!Next
<1>4. ASSUME StopUnstarted
      PROVE  Lending!Next \/ UNCHANGED Seen
  <2>1. /\ task = "unstarted" /\ Dispatch /\ task' = "abandon" /\ UNCHANGED <<packetCb, stop_event>>
        /\ up' = up \ ({building} \ stopped)
    BY <1>4 DEF StopUnstarted, Main, signalVars, sessionVars
  <2>2. building \in Pipelines /\ packetCb = None
    BY <2>1, <1>0, Rest DEF UsesBuilding, Starting
  <2>3. UNCHANGED Scanning
    BY <2>1, ScanningKept
  <2>4. CASE building \in stopped
    BY <2>1, <2>3, <2>4 DEF Seen
  <2>5. CASE building \notin stopped
    <3>1. Lending!Free(building)
      BY <2>1, <2>2, <2>3, <2>5, <1>0 DEF Lending!Free
    <3>2. QED
      BY <2>2, <3>1 DEF Lending!Next
  <2>6. QED
    BY <2>4, <2>5
<1>5. QED
  BY <1>1, <1>2, <1>3, <1>4

\* A step of the loop that leaves the borrowers, the callback and stop() alone,
\* and is no step of its scan, is none of the protocol.
LEMMA Unseen ==
    ASSUME OneThread, TypeOK, LoopInv, [Next]_vars,
           UNCHANGED <<up, packetCb, stop_event>>,
           (task = "scanning") <=> (task' = "scanning")
    PROVE  UNCHANGED Seen
BY ScanningKept DEF Seen

\* The registry's scan, the end of a session and stop() are steps of their own;
\* the other statements of the loop are none.
LEMMA LeaseStep ==
    ASSUME OneThread, TypeOK, LoopInv, HeldInv, WireInv, HoldInv, [Next]_vars
    PROVE  Lending!Next \/ UNCHANGED Seen
<1> USE Unseen
<1> USE DEF Main, At, EnterFinally, HandlerFails, runVars, signalVars, threadVars, sessionVars, peerVars,
            pipeVars, flagVars, cameraVars
<1>1. CASE FactoryScan
  <2>1. /\ stop_event \/ up = {}
        /\ task = "factory" /\ task' = "scanning" /\ UNCHANGED <<up, packetCb, stop_event>>
    BY <1>1, Rest DEF FactoryScan
  <2>2. ~Scanning /\ Scanning'
    BY <2>1, ScanningOnLoop DEF Scanning
  <2>3. Lending!Scan
    BY <2>1, <2>2 DEF Lending!Scan, Lending!Unlent
  <2>4. QED
    BY <2>3 DEF Lending!Next
<1>2. CASE FactoryCached \/ FactoryScanned \/ FactoryEmpty \/ FactoryRaises
  <2>1. task' # "scanning" /\ UNCHANGED <<up, packetCb, stop_event>>
    BY <1>2 DEF FactoryCached, FactoryScanned, FactoryEmpty, FactoryRaises, Build
  <2>2. LoopInv'
    BY LoopInvStep
  <2>3. Scanning' = FALSE
    BY <2>1, <2>2 DEF OneThread, LoopInv, Scanning, Threads
  <2>4. Lending!ScanDone
    BY <2>1, <2>3 DEF Lending!ScanDone
  <2>5. QED
    BY <2>4 DEF Lending!Next
<1>3. CASE TeardownUnwire(Loop)
  <2>1. packetCb' \in {packetCb, None} /\ UNCHANGED <<up, task, stop_event>>
    BY <1>3 DEF TeardownUnwire
  <2>2. UNCHANGED Scanning
    BY <2>1, ScanningKept
  <2>3. CASE packetCb' = None
    <3>1. Lending!Hush
      BY <2>1, <2>2, <2>3 DEF Lending!Hush
    <3>2. QED
      BY <3>1 DEF Lending!Next
  <2>4. QED
    BY <2>1, <2>2, <2>3 DEF Seen
<1>4. CASE Stop
  <2>1. stop_event' = TRUE /\ UNCHANGED <<up, task, packetCb>>
    BY <1>4 DEF Stop
  <2>2. UNCHANGED Scanning
    BY <2>1, ScanningKept
  <2>3. Lending!Leave
    BY <2>1, <2>2 DEF Lending!Leave
  <2>4. QED
    BY <2>3 DEF Lending!Next
<1>5. CASE StartPlay \/ Wire \/ TeardownFree(Loop) \/ StopUnstarted
  BY <1>5, BorrowerSteps
<1>6. CASE \E t \in Threads : Teardown(t)
  <2>1. Teardown(Loop)
    BY <1>6 DEF Threads, OneThread
  <2>2. QED
    BY <2>1, <1>3, <1>5 DEF Teardown, TeardownWatcher, TeardownManager, TeardownSession, TeardownTest,
       TeardownDeaf, TeardownClose, TeardownPeer, TeardownForget, TeardownTake, TeardownDrop,
       TeardownStop, TeardownRelease, TeardownHooks
<1>7. CASE MainStep
  <2>1. CASE Connect \/ Wake \/ Closed \/ Refuse
    BY <2>1 DEF Connect, ConnectOk, ConnectFails, Wake, Closed, Refuse
  <2>2. CASE MainReturns
    BY <2>2 DEF MainReturns
  <2>3. CASE MainRaises
    <3>1. task # "scanning"
      BY <2>3 DEF MainRaises, LoopInv
    <3>2. QED
      BY <2>3, <3>1 DEF MainRaises
  <2>4. CASE Broken \/ Hold \/ Manage \/ Abandon \/ Forget \/ Uncache
    BY <2>4 DEF Broken, Hold, Manage, Abandon, Forget, Uncache
  <2>5. CASE MakePeer \/ MakeChannels \/ Bind \/ Attach
    BY <2>5 DEF MakePeer, MakeChannels, Bind, Attach
  <2>6. CASE Listen \/ Hook \/ Watch
    BY <2>6 DEF Listen, Hook, Watch
  <2>7. QED
    BY <1>5, <1>7, <2>1, <2>2, <2>3, <2>4, <2>5, <2>6 DEF MainStep
<1>8. CASE CallbackReturns \/ ListenEnds \/ CloserRuns \/ CloserDone \/ Tick \/ Message
  BY <1>8 DEF CallbackReturns, ListenEnds, CloserRuns, CloserDone, Tick, Message,
     HandleConnect, HandleDisconnect, HandlerRaises
<1>9. CASE Environment \/ \E p \in Pipelines : Release(p)
  BY <1>4, <1>9 DEF Environment, ConnectionLost, Hotplug, PipelineErrs, Release
<1>10. CASE Terminated \/ UNCHANGED vars
  BY <1>10 DEF Terminated, vars
<1>11. ~Foreign
  BY DEF Foreign, OneThread
<1>12. QED
  BY <1>1, <1>2, <1>5, <1>6, <1>7, <1>8, <1>9, <1>10, <1>11 DEF Next, Worker

\* With one thread, the board keeps the lending protocol, statement by statement.
THEOREM BoardKeepsLease ==
    ASSUME OneThread
    PROVE  Spec => LeaseKept
<1>1. Init => Lending!Init
  BY DEF Init, Lending!Init, Scanning, Threads, At
<1>2. ASSUME TypeOK, LoopInv, HeldInv, WireInv, HoldInv, [Next]_vars
      PROVE  [Lending!Next]_(Lending!vars)
  BY <1>2, LeaseStep DEF Lending!vars, Seen
<1>3. QED
  BY <1>1, <1>2, HoldInvariant, PTL DEF Spec, LeaseKept, Lending!Spec

(***************************************************************************)
(* What the protocol promises, of the board.                               *)
(***************************************************************************)

\* Until the board is told to stop the cameras have one user, a pipeline or the
\* registry; whoever talks to the flight controller has them.
OneLessee ==
    /\ ~stop_event =>
          /\ \A p, q \in up : p = q
          /\ Scanning => up = {}
    /\ packetCb # None => packetCb \in up

\* Lease alone keeps this: nothing of the board's statements is needed.
LEMMA LeasePromise == LeaseKept => []OneLessee
<1>1. Lending!Init => OneLessee
  BY DEF Lending!Init, OneLessee
<1>2. ASSUME OneLessee, [Lending!Next]_(Lending!vars)
      PROVE  OneLessee'
  <2> USE <1>2 DEF OneLessee
  <2>1. ASSUME NEW p \in Pipelines, Lending!Claim(p)
        PROVE  OneLessee'
    BY <2>1 DEF Lending!Claim, Lending!Unlent
  <2>2. ASSUME NEW p \in Pipelines, Lending!Talk(p) \/ Lending!Free(p)
        PROVE  OneLessee'
    BY <2>2 DEF Lending!Talk, Lending!Free
  <2>3. CASE Lending!Scan \/ Lending!ScanDone \/ Lending!Hush \/ Lending!Leave
    BY <2>3 DEF Lending!Scan, Lending!ScanDone, Lending!Hush, Lending!Leave, Lending!Unlent
  <2>4. CASE UNCHANGED Lending!vars
    BY <2>4 DEF Lending!vars
  <2>5. QED
    BY <2>1, <2>2, <2>3, <2>4 DEF Lending!Next
<1>3. QED
  BY <1>1, <1>2, PTL DEF LeaseKept, Lending!Spec

\* With one thread, two pipelines never hold the same camera, and the registry
\* does not calibrate a camera that one holds.
THEOREM CamerasExclusiveOnLoop ==
    ASSUME OneThread
    PROVE  Spec => []CameraExclusive
<1>1. OneLessee => CameraExclusive
  BY DEF OneLessee, CameraExclusive
<1>2. QED
  BY <1>1, BoardKeepsLease, LeasePromise, PTL
==============================================================================
