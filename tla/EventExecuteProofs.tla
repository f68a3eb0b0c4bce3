-------------------------- MODULE EventExecuteProofs --------------------------
(* Proofs about the execution of scripts, for every Action.db and every size of the queue. *)
EXTENDS EventExecute, TLAPS

USE EventExecuteAssumption

\* What a row of the table is.
LEMMA RefTyped ==
    ASSUME NEW ref \in Refs
    PROVE  /\ ref # None /\ At(ref) \in Row
           /\ \A j \in DOMAIN At(ref).methods :
                  /\ At(ref).methods[j] \in Method
                  /\ At(ref).methods[j].kind = "scene" => At(ref).methods[j].scene \in Scripts
<1>1. PICK s \in Scripts : ref \in {s} \X (1 .. Len(Table[s]))
  BY DEF Refs
<1>2. ref[1] = s /\ ref[2] \in 1 .. Len(Table[s]) /\ Table[s] \in Seq(Row)
  BY <1>1
<1>3. At(ref) \in Row /\ ref[2] \in DOMAIN Table[s]
  BY <1>2 DEF At
<1>4. ref # None
  BY <1>1, <1>2 DEF None
<1>5. At(ref).methods \in Seq(Method)
  BY <1>3 DEF Row
<1> QED
  BY <1>2, <1>3, <1>4, <1>5 DEF At

LEMMA RowsTyped ==
    ASSUME NEW s \in Scripts
    PROVE  /\ RowsOf(s) \in Seq(Refs) /\ Len(Table[s]) \in Nat /\ Len(RowsOf(s)) = Len(Table[s])
           /\ \A j \in DOMAIN RowsOf(s) : RowsOf(s)[j][2] = j
<1>1. Table[s] \in Seq(Row)
  OBVIOUS
<1>2. ASSUME NEW j \in 1 .. Len(Table[s]) PROVE <<s, j>> \in Refs
  BY DEF Refs
<1> QED
  BY <1>1, <1>2 DEF RowsOf

LEMMA AnswersTyped ==
    /\ \A n \in Nat : Count(n) \in Answers
    /\ \A ref \in Refs : RowAnswer(ref) \in Answers
    /\ \A refs \in Seq(Refs) : AnswerRows(refs) \in Seq(Answers)
BY DEF Count, RowAnswer, AnswerRows, Answers

LEMMA RowTyped == ASSUME NEW a PROVE RowOf(a) \in Seq(Refs)
BY DEF RowOf

\* A sequence without one of its elements.
LEMMA RemoveTyped ==
    ASSUME NEW S, NEW q \in Seq(S), NEW j \in DOMAIN q PROVE RemoveAt(q, j) \in Seq(S)
BY DEF RemoveAt

-----------------------------------------------------------------------------

\* What the type rests on: a row whose methods run stays at hand while its scene is gone through.
Consistent ==
    pc \in {"sceneCount", "sceneRows"} => row # None /\ k \in DOMAIN At(row).methods

Typed == TypeOK /\ Consistent

\* Of each group of variables: what a step leaves alone keeps its type.
LEMMA LocalsStay ==
    ASSUME LocalsOK, Consistent, UNCHANGED localVars,
           pc' = pc \/ pc' \in {"none", "receive", "lock", "locked", "done"}
    PROVE  LocalsOK' /\ Consistent'
BY DEF LocalsOK, Consistent, localVars, Inside

LEMMA PastStays == ASSUME PastOK, UNCHANGED pastVars PROVE PastOK'
BY DEF PastOK, pastVars

LEMMA OthersStay == ASSUME OthersOK, UNCHANGED <<sharedVars, holder, reload, commands>> PROVE OthersOK'
BY DEF OthersOK, sharedVars

Reading == {"lock", "locked"}

LEMMA QueuesStay ==
    ASSUME QueuesOK, UNCHANGED queueVars, pc' = pc \/ (pc \notin Reading /\ pc' \notin Reading)
    PROVE  QueuesOK'
BY DEF QueuesOK, queueVars, Waiting, Reading

-----------------------------------------------------------------------------

\* What taking the first element leaves.
LEMMA TailTyped ==
    ASSUME NEW S, NEW q \in Seq(S), q # <<>> PROVE Head(q) \in S /\ Tail(q) \in Seq(S)
OBVIOUS

LEMMA AppendTyped ==
    ASSUME NEW S, NEW q \in Seq(S), NEW x \in S
    PROVE  Append(q, x) \in Seq(S) /\ Len(Append(q, x)) = Len(q) + 1 /\ Append(q, x) # <<>>
<1>1. Append(q, x) \in Seq(S) /\ Len(Append(q, x)) = Len(q) + 1 /\ Len(q) \in Nat
  OBVIOUS
<1>2. Len(<<>>) = 0
  OBVIOUS
<1>3. Len(q) + 1 # 0
  BY <1>1
<1>4. Len(Append(q, x)) # Len(<<>>)
  BY <1>1, <1>2, <1>3
<1> QED
  BY <1>1, <1>4

LEMMA Single == ASSUME NEW x PROVE Len(<<x>>) = 1 /\ DOMAIN <<x>> = {1} /\ <<x>>[1] = x
  OBVIOUS

\* A message that finds the queue full is dropped.
LEMMA PutTyped ==
    ASSUME QueuesOK, NEW m \in Messages, Put(m),
           pc' = pc \/ (pc \notin Reading /\ pc' \notin Reading)
    PROVE  todo' \in Seq(Messages) /\ Waiting' <= QueueSize /\ (pc' \in Reading => todo' # <<>>)
<1>1. todo \in Seq(Messages) /\ Append(todo, m) \in Seq(Messages) /\ QueueSize \in Nat
      /\ Len(Append(todo, m)) = Len(todo) + 1 /\ Append(todo, m) # <<>>
  BY AppendTyped DEF QueuesOK
<1>2. todo' \in Seq(Messages) /\ (todo' = todo \/ todo' = Append(todo, m))
  BY <1>1 DEF Put
<1>3. pc' \in Reading => todo' # <<>>
  BY <1>1, <1>2 DEF QueuesOK, Reading
<1>4. (pc \in Reading) = (pc' \in Reading)
  OBVIOUS
<1>5. Waiting' <= QueueSize
  BY <1>1, <1>2, <1>4 DEF QueuesOK, Put, Waiting, Reading
<1> QED
  BY <1>2, <1>3, <1>5

\* A command to the actor, from wherever it comes.
LEMMA SendTyped ==
    ASSUME Typed, NEW m \in Messages, Send(m), calls' \in Seq([script : Scripts, plain : BOOLEAN]),
           plain' \in BOOLEAN, commands' \in 0 .. MaxCommands
    PROVE  Typed'
<1>0. IF pc = "none" /\ flag THEN pc' = "receive" ELSE pc' = pc
  BY DEF Send
<1>1. pc' = pc \/ (pc \notin Reading /\ pc' \notin Reading)
  BY <1>0 DEF Reading
<1>2. QueuesOK'
  BY <1>1, PutTyped DEF Send, Typed, TypeOK, QueuesOK, Reading
<1>3. LocalsOK' /\ Consistent'
  <2>1. 0 \in Scripts /\ None \in Actions
    BY DEF Actions
  <2>2. LocalsOK'
    BY <2>1 DEF Send, Typed, TypeOK, LocalsOK, Inside
  <2> QED
    BY <2>2 DEF Send, Typed, Consistent
<1>4. OthersOK' /\ PastOK'
  BY PastStays DEF Send, Typed, TypeOK, OthersOK
<1> QED
  BY <1>2, <1>3, <1>4 DEF Typed, TypeOK

LEMMA MessageTyped ==
    /\ \A s \in Scripts : \A e, n \in BOOLEAN : ScriptMessage(s, e, n) \in Messages
    /\ \A a \in Actions : ActionMessage(a) \in Messages
    /\ DeviceMessage \in Messages
BY DEF ScriptMessage, ActionMessage, DeviceMessage, Messages, Actions

LEMMA CommandTyped ==
    ASSUME Typed, Command PROVE commands' \in 0 .. MaxCommands
BY DEF Typed, TypeOK, OthersOK, Command

LEMMA RequestsTyped == ASSUME Typed, Requests PROVE Typed'
<1>0. calls \in Seq([script : Scripts, plain : BOOLEAN]) /\ plain \in BOOLEAN /\ warp \in BOOLEAN
  BY DEF Typed, TypeOK, QueuesOK, OthersOK
<1>1. CASE SendEvent
  BY <1>0, <1>1, CommandTyped, SendTyped, MessageTyped DEF SendEvent
<1>2. CASE SendScene
  BY <1>0, <1>2, CommandTyped, SendTyped, MessageTyped DEF SendScene
<1>3. CASE SendAction
  BY <1>0, <1>3, CommandTyped, SendTyped, MessageTyped DEF SendAction
<1>4. CASE TakeCall
  <2>0. calls # <<>>
    BY <1>4 DEF TakeCall
  <2>1. Head(calls) \in [script : Scripts, plain : BOOLEAN]
        /\ Tail(calls) \in Seq([script : Scripts, plain : BOOLEAN])
    BY <1>0, <2>0, TailTyped
  <2>2. ScriptMessage(Head(calls).script, FALSE, FALSE) \in Messages /\ Head(calls).plain \in BOOLEAN
    BY <2>1, MessageTyped
  <2>3. commands' \in 0 .. MaxCommands
    BY <1>4 DEF TakeCall, Typed, TypeOK, OthersOK
  <2> QED
    BY <1>4, <2>1, <2>2, <2>3, SendTyped DEF TakeCall
<1>5. CASE DeviceAnswers
  <2>1. pc' = pc /\ UNCHANGED localVars
    BY <1>5 DEF DeviceAnswers
  <2>2. DeviceMessage \in Messages
    BY MessageTyped
  <2>3. todo' \in Seq(Messages) /\ Waiting' <= QueueSize /\ (pc' \in Reading => todo' # <<>>)
    BY <1>5, <2>1, <2>2, PutTyped DEF DeviceAnswers, Typed, TypeOK
  <2>4. QueuesOK'
    BY <1>5, <2>3 DEF DeviceAnswers, Typed, TypeOK, QueuesOK, Reading
  <2> QED
    BY <1>5, <2>1, <2>4, LocalsStay, OthersStay, PastStays DEF DeviceAnswers, Typed, TypeOK
<1> QED
  BY <1>1, <1>2, <1>3, <1>4, <1>5 DEF Requests

LEMMA OthersTyped == ASSUME Typed, Others PROVE Typed'
<1> USE DEF Typed, TypeOK
<1>1. pc' = pc /\ UNCHANGED localVars /\ UNCHANGED queueVars /\ UNCHANGED pastVars
  BY DEF Others, SetFlag, Warps, DeferChanges, UpdateSchedule, ReloadLocks, ReloadEnds, SharedStep,
         ReloadStep
<1>2. OthersOK'
  BY CommandTyped
     DEF Others, SetFlag, Warps, DeferChanges, UpdateSchedule, ReloadLocks, ReloadEnds, SharedStep,
         ReloadStep, OthersOK, sharedVars
<1> QED
  BY <1>1, <1>2, LocalsStay, QueuesStay, PastStays

-----------------------------------------------------------------------------

\* A step of the task that leaves the queue of scripts and the environment alone.
LEMMA AnswersStep ==
    ASSUME QueuesOK, OthersOK, pc \notin Reading /\ pc' \notin Reading, answers' \in Seq(Answers),
           UNCHANGED <<todo, asked, sharedVars, reload, commands>>, holder' \in {"none", holder},
           calls' \in Seq([script : Scripts, plain : BOOLEAN])
    PROVE  QueuesOK' /\ OthersOK'
BY DEF QueuesOK, OthersOK, sharedVars, Waiting, Reading

\* What a step may add to the answers.
LEMMA AnswersGrow ==
    ASSUME answers \in Seq(Answers)
    PROVE  /\ \A s \in Scripts : Append(answers, Count(Len(Table[s]))) \in Seq(Answers)
           /\ \A a : answers \o AnswerRows(RowOf(a)) \in Seq(Answers)
           /\ answers # <<>> =>
                  \A s \in Scripts : Tail(answers) \o AnswerRows(RowsOf(s)) \in Seq(Answers)
<1>1. ASSUME NEW s \in Scripts
      PROVE  Count(Len(Table[s])) \in Answers /\ AnswerRows(RowsOf(s)) \in Seq(Answers)
  BY RowsTyped, AnswersTyped
<1>2. ASSUME NEW a PROVE AnswerRows(RowOf(a)) \in Seq(Answers)
  BY RowTyped, AnswersTyped
<1> QED
  BY <1>1, <1>2, TailTyped

LEMMA BeginsTyped == ASSUME Typed, Begins PROVE Typed'
<1> USE DEF Typed, TypeOK
<1>1. /\ Head(todo) \in Messages /\ Tail(todo) \in Seq(Messages) /\ Len(Tail(todo)) <= QueueSize
      /\ todo' = Tail(todo)
  BY TailTyped DEF Begins, QueuesOK, Waiting
<1>2. /\ Takes(Head(todo))
      /\ UNCHANGED <<asked, calls, sharedVars, holder, reload, commands, undeferred>>
  BY DEF Begins
<1>3. /\ script' \in Scripts /\ first' \in Scripts /\ action' \in Actions
      /\ byAction' \in BOOLEAN /\ known' \in BOOLEAN /\ skip' \in BOOLEAN /\ byEvent' \in BOOLEAN
  BY <1>1, <1>2 DEF Takes, Messages, LocalsOK, PastOK
<1>4. ran' = <<>> /\ row' = None /\ k' = 1 /\ regular' \in BOOLEAN
  BY DEF Begins, PastOK
<1>5. /\ pc' \in {"count", "rows", "done"}
      /\ cnt' \in Int /\ target' \in Seq(Refs) /\ answers' \in Seq(Answers)
  <2>1. CASE ~Runnable'
    BY <2>1 DEF Begins, LocalsOK, QueuesOK
  <2>2. CASE Runnable' /\ byAction'
    <3>1. pc' = "rows" /\ cnt' = 1 /\ target' = RowOf(action')
          /\ answers' = answers \o AnswerRows(RowOf(action'))
      BY <2>2 DEF Begins
    <3>2. answers' \in Seq(Answers)
      BY <3>1, AnswersGrow DEF QueuesOK
    <3> QED
      BY <3>1, <3>2, RowTyped
  <2>3. CASE Runnable' /\ ~byAction'
    <3>1. pc' = "count" /\ cnt' = 0 /\ target' = RowsOf(script')
          /\ answers' = Append(answers, Count(Len(Table[script'])))
      BY <2>3 DEF Begins
    <3>2. Count(Len(Table[script'])) \in Answers /\ target' \in Seq(Refs)
      BY <1>3, <3>1, RowsTyped, AnswersTyped
    <3>3. answers' \in Seq(Answers)
      BY <3>1, <3>2 DEF QueuesOK
    <3> QED
      BY <3>1, <3>2, <3>3
  <2> QED
    BY <2>1, <2>2, <2>3
<1>6. LocalsOK' /\ Consistent'
  BY <1>3, <1>4, <1>5 DEF LocalsOK, Consistent, Inside
<1>7. PastOK'
  BY <1>2, <1>3, <1>4, <1>5 DEF PastOK
<1>8. QueuesOK' /\ OthersOK'
  BY <1>1, <1>2, <1>4, <1>5 DEF QueuesOK, OthersOK, sharedVars, Waiting, Inside
<1> QED
  BY <1>6, <1>7, <1>8

\* Where a method or a scene leaves the task: at a method of the same row, or at a loop's head.
LEMMA GoesOnTyped ==
    ASSUME Typed, pc \in {"methods", "sceneCount", "sceneRows"}, GoesOn, UNCHANGED <<row, first>>,
           cnt' \in Int, script' \in Scripts, UNCHANGED <<action, byAction, known, skip>>
    PROVE  LocalsOK' /\ Consistent' /\ pc' \notin Reading
<1>1. row # None /\ k \in DOMAIN At(row).methods /\ row \in Refs
  BY DEF Typed, TypeOK, LocalsOK, Consistent
<1>2. At(row).methods \in Seq(Method)
  BY <1>1, RefTyped DEF Row
<1>3. k' \in Nat /\ (pc' = "methods" => k' \in DOMAIN At(row).methods)
      /\ pc' \in {"methods", "rows", "done"}
  BY <1>1, <1>2 DEF GoesOn, Loop
<1>4. LocalsOK'
  BY <1>1, <1>3 DEF Typed, TypeOK, LocalsOK, Inside
<1>5. Consistent'
  BY <1>1, <1>3 DEF Typed, TypeOK, LocalsOK, Consistent
<1> QED
  BY <1>3, <1>4, <1>5 DEF Reading

\* A method that runs, and the scene of one: the count of rows goes down, a call may be made.
LEMMA MethodTyped ==
    ASSUME Typed, pc \in {"methods", "sceneCount", "sceneRows"}, MethodStep, GoesOn, cnt' \in Int,
           script' \in Scripts, answers' \in Seq(Answers), calls' \in Seq([script : Scripts, plain : BOOLEAN]),
           undeferred' \in BOOLEAN
    PROVE  Typed'
<1>1. LocalsOK' /\ Consistent' /\ pc' \notin Reading
  BY GoesOnTyped DEF MethodStep
<1>2. QueuesOK' /\ OthersOK'
  BY <1>1, AnswersStep DEF MethodStep, Typed, TypeOK, sharedVars, Reading
<1>3. PastOK'
  BY DEF MethodStep, Typed, TypeOK, PastOK
<1> QED
  BY <1>1, <1>2, <1>3 DEF Typed, TypeOK

LEMMA CallTyped ==
    ASSUME QueuesOK, NEW s \in Scripts, NEW p \in BOOLEAN, Calls(s, p)
    PROVE  calls' \in Seq([script : Scripts, plain : BOOLEAN])
BY DEF QueuesOK, Calls

LEMMA MethodsTyped ==
    ASSUME Typed, Skips \/ RunsMethod \/ RunsScene \/ SceneBegins
    PROVE  Typed'
<1>0. /\ pc = "methods" /\ cnt \in Int /\ script \in Scripts /\ answers \in Seq(Answers)
      /\ calls \in Seq([script : Scripts, plain : BOOLEAN]) /\ undeferred \in BOOLEAN
      /\ row \in Refs /\ row # None /\ k \in DOMAIN At(row).methods
  BY DEF Typed, TypeOK, LocalsOK, QueuesOK, PastOK, Skips, RunsMethod, RunsScene, SceneBegins, Runs
<1>1. CurrentMethod.kind = "scene" => CurrentMethod.scene \in Scripts
  BY <1>0, RefTyped DEF CurrentMethod
<1>2. CASE Skips
  BY <1>0, <1>2, MethodTyped DEF Skips
<1>3. CASE RunsMethod
  <2>1. undeferred' \in BOOLEAN
    BY <1>0, <1>3 DEF RunsMethod
  <2> QED
    BY <1>0, <1>3, <2>1, MethodTyped DEF RunsMethod
<1>4. CASE RunsScene
  <2>1. calls' \in Seq([script : Scripts, plain : BOOLEAN])
    BY <1>1, <1>4, CallTyped DEF RunsScene, Typed, TypeOK
  <2> QED
    BY <1>0, <1>4, <2>1, MethodTyped DEF RunsScene
<1>5. CASE SceneBegins
  <2>1. /\ script' \in Scripts /\ cnt' = 0 /\ pc' = "sceneCount"
        /\ UNCHANGED <<k, calls, undeferred>> /\ MethodStep
    BY <1>1, <1>5 DEF SceneBegins
  <2>2. answers' \in Seq(Answers)
    BY <1>0, <1>1, <1>5, AnswersGrow DEF SceneBegins
  <2>3. LocalsOK' /\ Consistent'
    BY <1>0, <2>1 DEF MethodStep, Typed, TypeOK, LocalsOK, Consistent, Inside
  <2>4. QueuesOK' /\ OthersOK'
    BY <1>0, <2>1, <2>2, AnswersStep DEF MethodStep, Typed, TypeOK, sharedVars, Reading
  <2>5. PastOK'
    BY <2>1 DEF MethodStep, Typed, TypeOK, PastOK
  <2> QED
    BY <2>3, <2>4, <2>5 DEF Typed, TypeOK
<1> QED
  BY <1>2, <1>3, <1>4, <1>5

LEMMA ScenesTyped ==
    ASSUME Typed, SceneCountArrives \/ SceneRowArrives \/ SceneTimesOut
    PROVE  Typed'
<1>0. /\ pc \in {"sceneCount", "sceneRows"} /\ cnt \in Int /\ script \in Scripts
      /\ answers \in Seq(Answers) /\ undeferred' \in BOOLEAN /\ script' = script /\ MethodStep
      /\ row \in Refs /\ row # None /\ k \in DOMAIN At(row).methods
  BY DEF Typed, TypeOK, LocalsOK, Consistent, QueuesOK, PastOK, SceneCountArrives, SceneRowArrives,
         SceneTimesOut
<1>1. ASSUME SceneEnds, answers' \in Seq(Answers) PROVE Typed'
  <2>1. calls' \in Seq([script : Scripts, plain : BOOLEAN])
    BY <1>0, <1>1, CallTyped DEF SceneEnds, Typed, TypeOK
  <2> QED
    BY <1>0, <1>1, <2>1, MethodTyped DEF SceneEnds
<1>2. ASSUME cnt' \in Int, pc' \in {"sceneCount", "sceneRows"}, UNCHANGED <<k, calls>>,
             answers' \in Seq(Answers)
      PROVE  Typed'
  <2>1. LocalsOK' /\ Consistent'
    BY <1>0, <1>2 DEF MethodStep, Typed, TypeOK, LocalsOK, Consistent, Inside
  <2>2. calls' \in Seq([script : Scripts, plain : BOOLEAN])
    BY <1>2 DEF Typed, TypeOK, QueuesOK
  <2>3. QueuesOK' /\ OthersOK'
    BY <1>0, <1>2, <2>2, AnswersStep DEF MethodStep, Typed, TypeOK, sharedVars, Reading
  <2>4. PastOK'
    BY <1>0 DEF MethodStep, Typed, TypeOK, PastOK
  <2> QED
    BY <2>1, <2>3, <2>4 DEF Typed, TypeOK
<1>3. CASE SceneCountArrives
  <2>1. Head(answers) \in Answers /\ Tail(answers) \in Seq(Answers)
    BY <1>0, <1>3, TailTyped DEF SceneCountArrives
  <2>2. CountIn(Head(answers)) \in Int
    BY <2>1 DEF CountIn, Answers
  <2>3. CASE CountIn(Head(answers)) > 0
    <3>1. answers' \in Seq(Answers)
      BY <1>0, <1>3, <2>3, AnswersGrow DEF SceneCountArrives
    <3> QED
      BY <1>2, <1>3, <2>2, <2>3, <3>1 DEF SceneCountArrives
  <2>4. CASE ~(CountIn(Head(answers)) > 0)
    BY <1>1, <1>3, <2>1, <2>4 DEF SceneCountArrives
  <2> QED
    BY <2>3, <2>4
<1>4. CASE SceneRowArrives
  <2>1. answers' \in Seq(Answers)
    BY <1>0, <1>4, TailTyped DEF SceneRowArrives
  <2>2. CASE cnt > 1
    BY <1>0, <1>2, <1>4, <2>1, <2>2 DEF SceneRowArrives
  <2>3. CASE ~(cnt > 1)
    BY <1>1, <1>4, <2>1, <2>3 DEF SceneRowArrives
  <2> QED
    BY <2>2, <2>3
<1>5. CASE SceneTimesOut
  BY <1>0, <1>1, <1>5 DEF SceneTimesOut
<1> QED
  BY <1>3, <1>4, <1>5

LEMMA AnswerTyped ==
    ASSUME Typed, CountArrives \/ RowArrives \/ CountTimesOut
    PROVE  Typed'
<1>0. /\ pc \in {"count", "rows"} /\ cnt \in Int /\ answers \in Seq(Answers) /\ Consistent
      /\ UNCHANGED <<script, first, action, byAction, known, skip, todo, asked, calls, sharedVars,
                     holder, reload, commands, target, byEvent, undeferred>>
      /\ calls' \in Seq([script : Scripts, plain : BOOLEAN]) /\ regular' \in BOOLEAN
  BY DEF Typed, TypeOK, LocalsOK, QueuesOK, PastOK, CountArrives, RowArrives, CountTimesOut,
         TakesAnswer, localVars, queueVars, pastVars
<1>1. ASSUME pc' \in {"count", "rows", "methods", "done"}, cnt' \in Int, answers' \in Seq(Answers),
             ran' \in Seq(Refs), row' \in Refs \cup {None}, k' \in Nat,
             pc' = "methods" => row' # None /\ k' \in DOMAIN At(row').methods
      PROVE  Typed'
  <2>1. LocalsOK'
    BY <1>0, <1>1 DEF Typed, TypeOK, LocalsOK, Inside
  <2>2. Consistent'
    BY <1>0, <1>1 DEF Consistent
  <2>3. QueuesOK' /\ OthersOK'
    BY <1>0, <1>1, AnswersStep DEF Typed, TypeOK, Reading
  <2>4. PastOK'
    BY <1>0, <1>1 DEF Typed, TypeOK, PastOK
  <2> QED
    BY <2>1, <2>2, <2>3, <2>4 DEF Typed, TypeOK
<1>2. row \in Refs \cup {None} /\ k \in Nat /\ ran \in Seq(Refs)
  BY DEF Typed, TypeOK, LocalsOK, PastOK
<1>3. CASE CountArrives
  <2>1. Head(answers) \in Answers /\ Tail(answers) \in Seq(Answers)
    BY <1>0, <1>3, TailTyped DEF CountArrives
  <2>2. cnt' \in Int
    BY <1>3, <2>1 DEF CountArrives, CountIn, Answers
  <2>3. script \in Scripts
    BY <1>0, <1>3 DEF CountArrives, Typed, TypeOK, LocalsOK, Consistent
  <2>4. answers' \in Seq(Answers) /\ pc' \in {"rows", "done"}
    BY <1>0, <1>3, <2>1, <2>3, AnswersGrow DEF CountArrives
  <2> QED
    BY <1>1, <1>2, <1>3, <2>2, <2>4 DEF CountArrives, pastVars
<1>4. CASE RowArrives
  <2>1. Head(answers) \in Answers /\ answers' \in Seq(Answers)
    BY <1>0, <1>4, TailTyped DEF RowArrives, TakesAnswer
  <2> DEFINE a == Head(answers)
  <2>2. CASE a.kind = "row" /\ At(a.ref).own
    <3>1. a.ref \in Refs
      BY <2>1, <2>2 DEF Answers
    <3>2. /\ pc' = IF At(a.ref).methods = <<>> THEN "rows" ELSE "methods"
          /\ row' = a.ref /\ k' = 1 /\ ran' = Append(ran, a.ref) /\ cnt' = cnt
      BY <1>4, <2>2 DEF RowArrives
    <3>3. At(a.ref).methods \in Seq(Method) /\ row' # None
      BY <3>1, <3>2, RefTyped DEF Row
    <3>4. pc' = "methods" => k' \in DOMAIN At(row').methods
      BY <3>2, <3>3
    <3> QED
      BY <1>0, <1>1, <1>2, <2>1, <3>1, <3>2, <3>3, <3>4
  <2>3. CASE ~(a.kind = "row" /\ At(a.ref).own)
    <3>1. cnt' = NotOwn(a) /\ pc' = Loop(cnt') /\ UNCHANGED <<row, k, ran>>
      BY <1>4, <2>3 DEF RowArrives
    <3>2. cnt' \in Int /\ pc' \in {"rows", "done"}
      BY <1>0, <3>1 DEF NotOwn, Loop
    <3> QED
      BY <1>1, <1>2, <2>1, <3>1, <3>2
  <2> QED
    BY <2>2, <2>3
<1>5. CASE CountTimesOut
  BY <1>0, <1>1, <1>2, <1>5 DEF CountTimesOut, localVars, queueVars
<1> QED
  BY <1>3, <1>4, <1>5

LEMMA LeavesTyped ==
    ASSUME Typed, Receive \/ Locks \/ SameScene \/ Done \/ AnswerLost \/ ParseFails
    PROVE  Typed'
<1> USE DEF Typed, TypeOK
<1>0. answers \in Seq(Answers) /\ calls \in Seq([script : Scripts, plain : BOOLEAN])
  BY DEF QueuesOK
<1>1. CASE Receive
  <2>1. QueuesOK'
    BY <1>1 DEF Receive, QueuesOK, queueVars, Waiting
  <2> QED
    BY <1>1, <2>1, LocalsStay, OthersStay, PastStays DEF Receive
<1>6. CASE Locks
  <2>0. pc = "lock" /\ pc' = "locked" /\ UNCHANGED localVars /\ UNCHANGED queueVars
    BY <1>6 DEF Locks
  <2>1. QueuesOK'
    BY <2>0 DEF QueuesOK, queueVars, Waiting
  <2>2. OthersOK' /\ PastOK'
    BY <1>6, PastStays DEF Locks, OthersOK, sharedVars
  <2> QED
    BY <2>0, <2>1, <2>2, LocalsStay
<1>2. CASE SameScene
  <2>0. /\ pc = "methods" /\ pc' = "none" /\ Exit /\ UNCHANGED regular
        /\ script' = CurrentMethod.scene /\ CurrentMethod.kind = "scene"
    BY <1>2 DEF SameScene, Exit, Runs
  <2>1. script' \in Scripts
    BY <2>0, RefTyped DEF CurrentMethod, LocalsOK
  <2>2. LocalsOK' /\ Consistent'
    BY <2>0, <2>1 DEF Exit, LocalsOK, Consistent
  <2>3. QueuesOK' /\ OthersOK'
    BY <1>0, <2>0, AnswersStep DEF Exit, GiveMutex, queueVars, Reading
  <2>4. PastOK'
    BY <2>0 DEF Exit, PastOK
  <2> QED
    BY <2>2, <2>3, <2>4
<1>3. CASE Done
  <2>0. /\ pc = "done" /\ pc' \in {"none", "receive"} /\ holder' = "none"
        /\ UNCHANGED <<reload, commands>> /\ UNCHANGED localVars /\ UNCHANGED queueVars
        /\ UNCHANGED sharedVars /\ UNCHANGED pastVars
    BY <1>3 DEF Done, Exit, GiveMutex, localVars, queueVars, sharedVars, pastVars
  <2>1. QueuesOK' /\ OthersOK'
    BY <1>0, <2>0, AnswersStep DEF queueVars, Reading
  <2> QED
    BY <2>0, <2>1, LocalsStay, PastStays
<1>4. CASE AnswerLost
  <2>0. pc' = pc /\ UNCHANGED localVars /\ UNCHANGED <<todo, asked, calls>>
    BY <1>4 DEF AnswerLost
  <2>1. answers' \in Seq(Answers)
    BY <1>0, <1>4, RemoveTyped DEF AnswerLost
  <2>2. QueuesOK'
    BY <2>0, <2>1 DEF QueuesOK, Waiting
  <2>3. PastOK'
    BY <1>4 DEF AnswerLost, PastOK
  <2> QED
    BY <1>4, <2>0, <2>2, <2>3, LocalsStay, OthersStay DEF AnswerLost
<1>5. CASE ParseFails
  <2>1. pc' = "none" /\ holder' = "none" /\ UNCHANGED localVars
        /\ UNCHANGED <<asked, calls, sharedVars, reload, commands>>
    BY <1>5 DEF ParseFails, GiveMutex
  <2>2. CASE pc = "locked" /\ todo' = Tail(todo) /\ UNCHANGED <<answers, regular>>
    <3>1. Tail(todo) \in Seq(Messages) /\ Len(Tail(todo)) <= QueueSize
      BY <2>2, TailTyped DEF QueuesOK, Waiting
    <3>2. QueuesOK' /\ OthersOK'
      BY <2>1, <2>2, <3>1 DEF QueuesOK, OthersOK, sharedVars, Waiting
    <3>3. PastOK'
      BY <1>5, <2>2 DEF ParseFails, PastOK
    <3> QED
      BY <2>1, <3>2, <3>3, LocalsStay
  <2> SUFFICES ASSUME pc \in {"count", "rows", "sceneCount"}, answers # <<>>,
                      answers' = Tail(answers), regular' = FALSE, UNCHANGED todo
               PROVE  Typed'
    BY <1>5, <2>2 DEF ParseFails
  <2>4. QueuesOK' /\ OthersOK'
    BY <1>0, <2>1, TailTyped, AnswersStep DEF Reading
  <2>3. PastOK'
    BY <1>5 DEF ParseFails, PastOK
  <2> QED
    BY <2>1, <2>3, <2>4, LocalsStay
<1> QED
  BY <1>1, <1>2, <1>3, <1>4, <1>5, <1>6

LEMMA InitTyped == ASSUME Init PROVE Typed
<1> USE DEF Init
<1>0. 0 \in Int /\ 1 \in Nat /\ 0 \in 0 .. MaxCommands
  OBVIOUS
<1>1. LocalsOK
  BY <1>0 DEF LocalsOK, Actions
<1>4. Consistent
  BY DEF Consistent
<1>2. QueuesOK
  BY DEF QueuesOK, Waiting
<1>3. OthersOK
  BY <1>0 DEF OthersOK
<1>5. PastOK
  <2>1. target = <<>> /\ ran = <<>> /\ <<>> \in Seq(Refs)
    OBVIOUS
  <2>2. byEvent = FALSE /\ undeferred = FALSE /\ regular = TRUE
    OBVIOUS
  <2> QED
    BY ONLY <2>1, <2>2 DEF PastOK
<1> QED
  BY <1>1, <1>2, <1>3, <1>4, <1>5 DEF Typed, TypeOK

LEMMA NextTyped == ASSUME Typed, [Next]_vars PROVE Typed'
<1>1. CASE UNCHANGED vars
  <2>1. /\ pc' = pc /\ UNCHANGED <<holder, reload, commands>> /\ UNCHANGED localVars
        /\ UNCHANGED queueVars /\ UNCHANGED sharedVars /\ UNCHANGED pastVars
    BY <1>1 DEF vars
  <2> QED
    BY <2>1, LocalsStay, QueuesStay, OthersStay, PastStays DEF Typed, TypeOK
<1>2. CASE Execute
  BY <1>2, LeavesTyped, BeginsTyped, AnswerTyped, MethodsTyped, ScenesTyped DEF Execute
<1> QED
  BY <1>1, <1>2, LeavesTyped, RequestsTyped, OthersTyped DEF Next

\* Every value stored by the task and by those who send to it has its type, and Script_Execute_Que
\* keeps to its size.
THEOREM TypeCorrect == Spec => []TypeOK
<1>1. Init => Typed
  BY InitTyped
<1>2. Typed /\ [Next]_vars => Typed'
  BY NextTyped
<1>3. Typed => TypeOK
  BY DEF Typed
<1> QED
  BY <1>1, <1>2, <1>3, PTL DEF Spec

-----------------------------------------------------------------------------

\* The mutex is given on every way out of the task, that of a message that cannot be parsed included:
\* the executor and the reload exclude each other.
THEOREM MutexReturned == Spec => []MutexIsReturned
<1>1. Init => MutexIsReturned
  BY DEF Init, MutexIsReturned, Inside
<1>2. MutexIsReturned /\ [Next]_vars => MutexIsReturned'
  <2> SUFFICES ASSUME MutexIsReturned, [Next]_vars PROVE MutexIsReturned'
    OBVIOUS
  <2> USE DEF MutexIsReturned, Inside
  <2>1. CASE UNCHANGED vars
    BY <2>1 DEF vars
  <2>2. CASE Execute
    <3>1. CASE Receive
      BY <3>1 DEF Receive
    <3>8. CASE Locks
      BY <3>8 DEF Locks
    <3>2. CASE Begins
      BY <3>2 DEF Begins
    <3>3. CASE CountArrives \/ RowArrives \/ CountTimesOut
      BY <3>3 DEF CountArrives, RowArrives, TakesAnswer, CountTimesOut, Loop
    <3>4. CASE Skips \/ RunsMethod \/ RunsScene \/ SceneBegins
      BY <3>4 DEF Skips, RunsMethod, RunsScene, SceneBegins, Runs, MethodStep, GoesOn, Loop
    <3>5. CASE SceneCountArrives \/ SceneRowArrives \/ SceneTimesOut
      BY <3>5 DEF SceneCountArrives, SceneRowArrives, SceneTimesOut, SceneEnds, MethodStep, GoesOn,
                  Loop
    <3>6. CASE SameScene
      BY <3>6 DEF SameScene, Runs, Exit, GiveMutex
    <3>7. CASE Done
      BY <3>7 DEF Done, Exit, GiveMutex
    <3> QED
      BY <2>2, <3>1, <3>2, <3>3, <3>4, <3>5, <3>6, <3>7, <3>8 DEF Execute
  <2>3. CASE AnswerLost \/ ParseFails
    BY <2>3 DEF AnswerLost, ParseFails, GiveMutex
  <2>4. CASE Requests
    BY <2>4 DEF Requests, SendEvent, SendScene, SendAction, TakeCall, DeviceAnswers, Send
  <2>5. CASE Others
    BY <2>5 DEF Others, SetFlag, Warps, DeferChanges, UpdateSchedule, SharedStep, ReloadLocks,
                ReloadEnds, ReloadStep
  <2> QED
    BY <2>1, <2>2, <2>3, <2>4, <2>5 DEF Next
<1> QED
  BY <1>1, <1>2, PTL DEF Spec

-----------------------------------------------------------------------------
(***************************************************************************)
(* Questions and answers keep in step while every answer comes in time and *)
(* every row runs one method: the answers that are under way are those to  *)
(* the question being worked on, and the count is the number of them.      *)
(***************************************************************************)

Taken == Len(target) - Len(answers)

RestAnswered ==
    /\ Taken \in 0 .. Len(target)
    /\ \A j \in DOMAIN answers : answers[j] = RowAnswer(target[Taken + j])

Ascending(refs) == \A j \in DOMAIN refs : \A i \in 1 .. j - 1 : refs[i][2] < refs[j][2]

\* Of the first n rows of the target those of this device ran, each once and in order.
RanOf(n) ==
    /\ \A j \in DOMAIN ran : \E i \in 1 .. n : ran[j] = target[i] /\ At(target[i]).own
    /\ \A i \in 1 .. n : At(target[i]).own => \E j \in DOMAIN ran : ran[j] = target[i]
    /\ Ascending(ran)

Asking ==
    /\ Ascending(target)
    /\ \A j \in DOMAIN target : OneMethod(target[j])

CountAsked == answers = <<Count(Len(target))>> /\ target = RowsOf(script) /\ ran = <<>>

RowsAsked == RestAnswered /\ cnt = Len(answers) /\ cnt > 0 /\ RanOf(Taken)

MethodRuns ==
    /\ RestAnswered /\ cnt = Len(answers) + 1 /\ RanOf(Taken)
    /\ k = 1 /\ Len(At(row).methods) = 1 /\ CurrentMethod.kind \in {"on", "other"}

InStep ==
    regular =>
        /\ pc \notin {"sceneCount", "sceneRows"}
        /\ pc \in {"none", "receive", "lock", "locked", "done"} => answers = <<>>
        /\ pc \in Inside \ {"locked"} => Asking
        /\ pc = "count" => CountAsked
        /\ pc = "rows" => RowsAsked
        /\ pc = "methods" => MethodRuns
        /\ pc = "done" => RanOf(Len(target))

\* What the steps of the others leave alone.
LEMMA InStepStays ==
    ASSUME InStep, UNCHANGED <<target, ran, answers, cnt, row, k, regular>>,
           \/ pc' = pc /\ script' = script
           \/ /\ pc \in {"none", "receive", "lock", "locked", "done"}
              /\ pc' \in {"none", "receive", "lock", "locked"}
    PROVE  InStep'
<1>1. CASE pc' = pc /\ script' = script
  <2>1. /\ RestAnswered' = RestAnswered /\ Taken' = Taken /\ Asking' = Asking
        /\ CountAsked' = CountAsked /\ RowsAsked' = RowsAsked
        /\ RanOf(Taken)' = RanOf(Taken) /\ RanOf(Len(target))' = RanOf(Len(target))
    BY <1>1 DEF RestAnswered, Taken, Asking, Ascending, CountAsked, RowsAsked, RanOf
  <2>2. MethodRuns' = MethodRuns
    BY <2>1 DEF MethodRuns, CurrentMethod
  <2> QED
    BY <1>1, <2>1, <2>2 DEF InStep
<1>2. CASE /\ pc \in {"none", "receive", "lock", "locked", "done"}
           /\ pc' \in {"none", "receive", "lock", "locked"}
  BY <1>2 DEF InStep, Inside
<1> QED
  BY <1>1, <1>2

\* When all answers are taken every row of the target has been.
LEMMA AllTaken ==
    ASSUME Typed, RestAnswered, RanOf(Taken), answers = <<>>
    PROVE  RanOf(Len(target))
<1>1. Taken = Len(target)
  BY DEF Typed, TypeOK, PastOK, Taken
<1> QED
  BY <1>1

\* A row of this device that comes is the next of those asked for.
LEMMA RowInStep ==
    ASSUME Typed, RestAnswered, RanOf(Taken), answers # <<>>, Asking, answers' = Tail(answers),
           UNCHANGED target
    PROVE  /\ Head(answers).kind = "row" /\ Head(answers).ref \in Refs
           /\ OneMethod(Head(answers).ref)
           /\ RestAnswered' /\ Len(answers') = Len(answers) - 1
           /\ (IF At(Head(answers).ref).own THEN ran' = Append(ran, Head(answers).ref) ELSE ran' = ran)
                  => RanOf(Taken)'
<1>0. answers \in Seq(Answers) /\ target \in Seq(Refs) /\ ran \in Seq(Refs)
  BY DEF Typed, TypeOK, QueuesOK, PastOK
<1> DEFINE n == Taken
           next == target[n + 1]
<1>1. n \in Nat /\ n + 1 \in DOMAIN target /\ Head(answers) = RowAnswer(next) /\ next \in Refs
  BY <1>0 DEF RestAnswered, Taken
<1>2. Head(answers).kind = "row" /\ Head(answers).ref = next
  BY <1>1 DEF RowAnswer
<1>3. Len(answers') = Len(answers) - 1 /\ Taken' = n + 1
  BY <1>0 DEF Taken
<1>4. RestAnswered'
  <2>1. ASSUME NEW j \in DOMAIN answers' PROVE answers'[j] = RowAnswer(target'[Taken' + j])
    <3>1. j \in 1 .. Len(answers) - 1 /\ answers'[j] = answers[j + 1] /\ j + 1 \in DOMAIN answers
      BY <1>0
    <3>2. answers[j + 1] = RowAnswer(target[Taken + (j + 1)])
      BY <3>1 DEF RestAnswered
    <3>3. Taken + (j + 1) = Taken' + j
      BY <1>1, <1>3, <3>1
    <3> QED
      BY <3>1, <3>2, <3>3
  <2>2. Taken' \in 0 .. Len(target')
    BY <1>0, <1>1, <1>3
  <2> QED
    BY <2>1, <2>2 DEF RestAnswered
<1>5. OneMethod(next)
  BY <1>1 DEF Asking
<1>6. target' = target /\ \A m \in 1 .. n + 1 : m \in 1 .. n \/ m = n + 1
  BY <1>1
<1>7. ASSUME At(next).own, ran' = Append(ran, next) PROVE RanOf(Taken)'
  <2>1. /\ DOMAIN ran' = (1 .. Len(ran)) \cup {Len(ran) + 1} /\ DOMAIN ran = 1 .. Len(ran)
        /\ (\A j \in 1 .. Len(ran) : ran'[j] = ran[j]) /\ ran'[Len(ran) + 1] = next
    BY <1>0, <1>1, <1>7
  <2>2. ASSUME NEW j \in DOMAIN ran' PROVE \E i \in 1 .. n + 1 : ran'[j] = target[i] /\ At(target[i]).own
    <3>1. CASE j \in 1 .. Len(ran)
      <4>1. PICK i \in 1 .. n : ran[j] = target[i] /\ At(target[i]).own
        BY <2>1, <3>1 DEF RanOf
      <4>2. i \in 1 .. n + 1 /\ ran'[j] = ran[j]
        BY <1>1, <2>1, <3>1
      <4> QED
        BY <4>1, <4>2
    <3>2. CASE j = Len(ran) + 1
      <4>1. n + 1 \in 1 .. n + 1
        BY <1>1
      <4> QED
        BY <1>7, <2>1, <3>2, <4>1
    <3> QED
      BY <2>1, <3>1, <3>2
  <2>3. ASSUME NEW i \in 1 .. n + 1, At(target[i]).own PROVE \E j \in DOMAIN ran' : ran'[j] = target[i]
    BY <1>1, <1>6, <2>1, <2>3 DEF RanOf
  <2>4. ASSUME NEW j \in DOMAIN ran PROVE ran[j][2] < next[2]
    <3>1. PICK i \in 1 .. n : ran[j] = target[i]
      BY DEF RanOf
    <3> QED
      BY <1>1, <3>1 DEF Asking, Ascending
  <2>5. ASSUME NEW j \in DOMAIN ran', NEW i \in 1 .. j - 1 PROVE ran'[i][2] < ran'[j][2]
    <3>1. Len(ran) \in Nat /\ j \in 1 .. Len(ran) + 1
      BY <1>0, <2>1
    <3>2. i \in DOMAIN ran /\ ran'[i] = ran[i]
      BY <2>1, <3>1
    <3>3. CASE j \in DOMAIN ran
      <4>1. ran[i][2] < ran[j][2]
        BY <3>3 DEF RanOf, Ascending
      <4> QED
        BY <2>1, <3>2, <3>3, <4>1
    <3>4. CASE j = Len(ran) + 1
      BY <2>1, <2>4, <3>2, <3>4
    <3> QED
      BY <2>1, <3>3, <3>4
  <2>6. Ascending(ran')
    BY <2>5 DEF Ascending
  <2> QED
    BY <1>3, <1>6, <2>2, <2>3, <2>6 DEF RanOf
<1>8. ASSUME ~At(next).own, ran' = ran PROVE RanOf(Taken)'
  BY <1>1, <1>3, <1>6, <1>8 DEF RanOf, Ascending
<1> QED
  BY <1>1, <1>2, <1>3, <1>4, <1>5, <1>7, <1>8

\* Of the rows of a script and of an action alone: each comes once, in its order.
LEMMA BeginsInStep == ASSUME Typed, InStep, Begins, Typed' PROVE InStep'
<1> SUFFICES ASSUME regular' PROVE InStep'
  BY DEF InStep
<1>1. /\ pc = "locked" /\ regular /\ answers = <<>> /\ ran' = <<>>
      /\ \A j \in DOMAIN target' : OneMethod(target'[j])
      /\ pc' = "rows" => action' \in Refs
  BY DEF Begins, InStep
<1>2. CASE ~Runnable'
  <2>1. pc' = "done" /\ target' = <<>> /\ answers' = <<>>
    BY <1>1, <1>2 DEF Begins
  <2>2. RanOf(Len(target))' /\ Asking'
    BY <1>1, <2>1 DEF RanOf, Asking, Ascending
  <2> QED
    BY <2>1, <2>2 DEF InStep, Inside
<1>3. CASE Runnable' /\ byAction'
  <2>1. /\ pc' = "rows" /\ cnt' = 1 /\ target' = <<action'>>
        /\ answers' = answers \o AnswerRows(<<action'>>)
    BY <1>1, <1>3 DEF Begins, RowOf
  <2>2. answers' = <<RowAnswer(action')>>
    BY <1>1, <2>1 DEF AnswerRows
  <2>3. Taken' = 0 /\ RestAnswered'
    <3>1. Len(target') = 1 /\ Len(answers') = 1 /\ DOMAIN answers' = {1}
          /\ answers'[1] = RowAnswer(action') /\ target'[1] = action'
      BY <2>1, <2>2, Single, Zenon
    <3>2. Taken' = 0
      BY <3>1 DEF Taken
    <3> QED
      BY <3>1, <3>2 DEF RestAnswered
  <2>4. RanOf(0)' /\ Asking'
    BY <1>1, <2>1 DEF RanOf, Asking, Ascending
  <2>5. RanOf(Taken)'
    BY <2>3, <2>4 DEF RanOf
  <2>6. cnt' = Len(answers') /\ cnt' > 0
    <3>1. Len(<<RowAnswer(action')>>) = 1
      OBVIOUS
    <3>2. Len(answers') = 1
      BY <3>1, <2>2, Zenon
    <3>3. cnt' = 1
      BY <2>1
    <3> QED
      BY <3>2, <3>3
  <2>7. RowsAsked'
    BY <2>3, <2>5, <2>6 DEF RowsAsked
  <2> QED
    BY <2>1, <2>4, <2>7 DEF InStep, Inside
<1>4. CASE Runnable' /\ ~byAction'
  <2>1. /\ pc' = "count" /\ target' = RowsOf(script')
        /\ answers' = Append(answers, Count(Len(Table[script'])))
    BY <1>4 DEF Begins
  <2>2. script' \in Scripts
    BY <2>1 DEF Typed, TypeOK, LocalsOK
  <2>3. Table[script'] \in Seq(Row) /\ Len(target') = Len(Table[script'])
    BY <2>1, <2>2, RowsTyped
  <2>4. answers' = <<Count(Len(target'))>>
    BY <1>1, <2>1, <2>3
  <2>5. Ascending(target')
    <3>1. \A j \in DOMAIN target' : target'[j][2] = j
      BY <2>1, <2>2, RowsTyped
    <3>2. DOMAIN target' = 1 .. Len(target') /\ Len(target') \in Nat
      BY <2>1, <2>2, RowsTyped
    <3> QED
      BY <3>1, <3>2 DEF Ascending
  <2> QED
    BY <1>1, <2>1, <2>4, <2>5 DEF InStep, Inside, Asking, CountAsked
<1> QED
  BY <1>2, <1>3, <1>4

LEMMA EmptyThen == ASSUME NEW S, NEW q \in Seq(S) PROVE <<>> \o q = q
  OBVIOUS

LEMMA CountInStep == ASSUME Typed, InStep, CountArrives PROVE InStep'
<1> SUFFICES ASSUME regular PROVE InStep'
  BY DEF InStep, CountArrives, pastVars
<1>1. /\ pc = "count" /\ CountAsked /\ Asking /\ cnt' = CountIn(Head(answers))
      /\ UNCHANGED <<script, row, k, target, ran, regular>>
  BY DEF CountArrives, InStep, Inside, pastVars
<1>2. target \in Seq(Refs) /\ script \in Scripts
  BY <1>1 DEF Typed, TypeOK, PastOK, LocalsOK, Consistent
<1>3. cnt' = Len(target) /\ Tail(answers) = <<>>
  BY <1>1, <1>2 DEF CountAsked, CountIn, Count
<1>4. Asking'
  BY <1>1 DEF Asking, Ascending
<1>5. RanOf(0) /\ RanOf(0)'
  BY <1>1 DEF CountAsked, RanOf, Ascending
<1>6. CASE cnt' > 0
  <2>1. pc' = "rows" /\ answers' = Tail(answers) \o AnswerRows(target)
    BY <1>1, <1>6 DEF CountArrives, CountAsked
  <2>2. answers' = AnswerRows(target)
    <3>1. AnswerRows(target) \in Seq(Answers)
      BY <1>2, AnswersTyped
    <3>2. <<>> \o AnswerRows(target) = AnswerRows(target)
      BY <3>1, EmptyThen
    <3> QED
      BY <1>3, <2>1, <3>2
  <2>3. Len(answers') = Len(target) /\ Taken' = 0
    BY <1>1, <1>2, <2>2 DEF AnswerRows, Taken
  <2>4. RestAnswered'
    BY <1>1, <1>2, <2>2, <2>3 DEF AnswerRows, RestAnswered
  <2>5. RowsAsked'
    BY <1>3, <1>5, <1>6, <2>3, <2>4 DEF RowsAsked, RanOf
  <2> QED
    BY <1>4, <2>1, <2>5 DEF InStep
<1>7. CASE ~(cnt' > 0)
  <2>0. Len(target) = 0
    BY <1>2, <1>3, <1>7
  <2>1. pc' = "done" /\ answers' = <<>> /\ Len(target) = 0
    BY <1>3, <1>7, <2>0 DEF CountArrives
  <2> QED
    BY <1>1, <1>4, <1>5, <2>1 DEF InStep, RanOf
<1> QED
  BY <1>6, <1>7

LEMMA RowArrivesInStep == ASSUME Typed, InStep, RowArrives PROVE InStep'
<1> SUFFICES ASSUME regular PROVE InStep'
  BY DEF InStep, RowArrives, TakesAnswer
<1> DEFINE a == Head(answers)
<1>1. /\ pc = "rows" /\ answers # <<>> /\ answers' = Tail(answers) /\ RowsAsked /\ Asking
      /\ UNCHANGED <<target, regular>>
  BY DEF RowArrives, TakesAnswer, InStep, Inside
<1>2. /\ a.kind = "row" /\ a.ref \in Refs /\ OneMethod(a.ref)
      /\ RestAnswered' /\ Len(answers') = Len(answers) - 1
      /\ (IF At(a.ref).own THEN ran' = Append(ran, a.ref) ELSE ran' = ran) => RanOf(Taken)'
  BY <1>1, RowInStep DEF RowsAsked
<1>3. Asking' /\ cnt = Len(answers) /\ Len(answers) \in Nat /\ Len(answers') \in Nat
      /\ (Len(answers') = 0 => answers' = <<>>)
  BY <1>1, TailTyped DEF Asking, Ascending, RowsAsked, Typed, TypeOK, QueuesOK
<1>4. CASE At(a.ref).own
  <2>1. Len(At(a.ref).methods) = 1 /\ At(a.ref).methods[1].kind \in {"on", "other"}
    BY <1>2, <1>4 DEF OneMethod
  <2>2. pc' = "methods" /\ row' = a.ref /\ k' = 1 /\ ran' = Append(ran, a.ref) /\ cnt' = cnt
    BY <1>2, <1>4, <2>1 DEF RowArrives
  <2>3. MethodRuns'
    BY <1>2, <1>3, <1>4, <2>1, <2>2 DEF MethodRuns, CurrentMethod
  <2> QED
    BY <1>3, <2>2, <2>3 DEF InStep
<1>5. CASE ~At(a.ref).own
  <2>1. cnt' = cnt - 1 /\ pc' = Loop(cnt') /\ UNCHANGED <<row, k, ran>>
    BY <1>2, <1>5 DEF RowArrives, NotOwn
  <2>2. RanOf(Taken)' /\ cnt' = Len(answers')
    BY <1>2, <1>3, <1>5, <2>1
  <2>3. CASE cnt' > 0
    BY <1>2, <1>3, <2>1, <2>2, <2>3 DEF Loop, InStep, RowsAsked
  <2>4. CASE ~(cnt' > 0)
    <3>1. answers' = <<>> /\ pc' = "done" /\ Taken' = Len(target)' /\ Len(target) \in Nat
      BY <1>1, <1>3, <2>1, <2>2, <2>4 DEF Loop, Taken, Typed, TypeOK, PastOK
    <3> QED
      BY <1>3, <2>2, <3>1 DEF InStep, RanOf
  <2> QED
    BY <2>3, <2>4
<1> QED
  BY <1>4, <1>5

LEMMA MethodInStep == ASSUME Typed, InStep, Skips \/ RunsMethod PROVE InStep'
<1> SUFFICES ASSUME regular PROVE InStep'
  BY DEF InStep, Skips, RunsMethod, MethodStep
<1>1. /\ pc = "methods" /\ MethodRuns /\ Asking /\ GoesOn
      /\ UNCHANGED <<target, ran, answers, regular, row>>
  BY DEF Skips, RunsMethod, Runs, MethodStep, InStep, Inside
<1>2. cnt' = cnt - 1
  BY <1>1 DEF Skips, RunsMethod, MethodRuns
<1>3. pc' = Loop(cnt') /\ cnt' = Len(answers)
  BY <1>1, <1>2 DEF GoesOn, MethodRuns, Typed, TypeOK, QueuesOK
<1>4. Asking' /\ RestAnswered' /\ RanOf(Taken)' /\ answers \in Seq(Answers)
  <2>1. Taken' = Taken
    BY <1>1 DEF Taken
  <2>2. Asking' /\ RestAnswered'
    BY <1>1, <2>1 DEF Asking, Ascending, MethodRuns, RestAnswered
  <2>3. RanOf(Taken)'
    BY <1>1, <2>1 DEF MethodRuns, RanOf, Ascending
  <2> QED
    BY <2>2, <2>3 DEF Typed, TypeOK, QueuesOK
<1>5. CASE cnt' > 0
  BY <1>1, <1>3, <1>4, <1>5 DEF Loop, InStep, RowsAsked
<1>6. CASE ~(cnt' > 0)
  <2>1. answers = <<>> /\ pc' = "done"
    BY <1>3, <1>4, <1>6 DEF Loop
  <2>2. RanOf(Len(target))
    BY <1>1, <2>1, AllTaken DEF MethodRuns
  <2>3. RanOf(Len(target))'
    BY <1>1, <2>2 DEF RanOf, Ascending
  <2> QED
    BY <1>1, <1>4, <2>1, <2>3 DEF InStep
<1> QED
  BY <1>5, <1>6

\* Every step of the executor and of the others keeps them in step.
LEMMA InStepHolds == Spec => [](Typed /\ InStep)
<1>1. Init => Typed /\ InStep
  BY InitTyped DEF Init, InStep, Inside
<1>2. Typed /\ InStep /\ [Next]_vars => Typed' /\ InStep'
  <2> SUFFICES ASSUME Typed, InStep, [Next]_vars PROVE InStep'
    BY NextTyped
  <2>1. CASE UNCHANGED vars
    BY <2>1, InStepStays DEF vars, localVars, queueVars, pastVars
  <2>2. CASE Receive \/ Locks \/ Done
    BY <2>2, InStepStays DEF Receive, Locks, Done, Exit, localVars, queueVars, pastVars
  <2>3. CASE Begins
    BY <2>3, BeginsInStep, NextTyped
  <2>4. CASE CountArrives \/ RowArrives \/ Skips \/ RunsMethod
    BY <2>4, CountInStep, RowArrivesInStep, MethodInStep
  <2>5. CASE RunsScene \/ SceneBegins \/ SameScene
    BY <2>5 DEF RunsScene, SceneBegins, SameScene, Runs, MethodStep, InStep, MethodRuns
  <2>6. CASE SceneCountArrives \/ SceneRowArrives \/ SceneTimesOut
    BY <2>6 DEF SceneCountArrives, SceneRowArrives, SceneTimesOut, MethodStep, InStep
  <2>7. CASE CountTimesOut \/ AnswerLost \/ ParseFails
    BY <2>7, InStepStays DEF CountTimesOut, AnswerLost, ParseFails, InStep, localVars
  <2>8. CASE Requests
    BY <2>8, InStepStays
       DEF Requests, SendEvent, SendScene, SendAction, TakeCall, DeviceAnswers, Send, localVars, pastVars
  <2>9. CASE Others
    BY <2>9, InStepStays
       DEF Others, SetFlag, Warps, DeferChanges, UpdateSchedule, SharedStep, ReloadLocks, ReloadEnds,
           ReloadStep, localVars, queueVars, pastVars
  <2> QED
    BY <2>1, <2>2, <2>3, <2>4, <2>5, <2>6, <2>7, <2>8, <2>9 DEF Next, Execute
<1> QED
  BY <1>1, <1>2, PTL DEF Spec

\* As long as every answer comes in time, every row runs one method and every action asked for is in
\* Action.db, what ran for a message are this device's rows of what it asked for, each once and in
\* order.
THEOREM RowsWereAsked == Spec => []RowsAreAsked
<1>1. Typed /\ InStep => RowsAreAsked
  <2> SUFFICES ASSUME Typed, InStep, regular, pc = "done" PROVE RowsAreAsked
    BY DEF RowsAreAsked
  <2>1. RanOf(Len(target)) /\ DOMAIN target = 1 .. Len(target)
    BY DEF InStep, Typed, TypeOK, PastOK
  <2>2. {ran[j] : j \in DOMAIN ran}
          = {target[j] : j \in {i \in DOMAIN target : At(target[i]).own}}
    BY <2>1 DEF RanOf
  <2> QED
    BY <2>1, <2>2 DEF RanOf, Ascending, RowsAreAsked
<1> QED
  BY <1>1, InStepHolds, PTL

\* And the answers are counted: the wait for a row ends, because there is one, and no message
\* finds an answer to an earlier one (EVENT_Actor.c:2382).  For an action that is not in Action.db
\* there is none, and the wait does not end.
THEOREM AnswersCounted == Spec => []AnswersAreCounted
<1>1. Typed /\ InStep => AnswersAreCounted
  BY DEF AnswersAreCounted, InStep, CountAsked, RowsAsked
<1> QED
  BY <1>1, InStepHolds, PTL

=============================================================================
