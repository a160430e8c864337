------------------------ MODULE DevicePathToTextProofs ------------------------
(***************************************************************************)
(* Proofs about the text conversion, for every handle database.            *)
(*                                                                         *)
(* ToStringReportsFirstFailure speaks only of returned calls, so it is not *)
(* inductive: a step that returns must know what the earlier firmware      *)
(* calls of the same call answered.  CallPhases records that for each pc   *)
(* of open_text_protocol and to_string: which answers are in, that no      *)
(* value has been returned yet, and which conversion was asked for.        *)
(***************************************************************************)
EXTENDS DevicePathToText, FiniteSetTheorems, TLAPS

CallPhases ==
  LET a == call.answers IN
  /\ call.pc # "idle" => result = NoResult /\ call.target \in {"node", "path"}
  /\ result # NoResult => call.target \in {"node", "path"}
  /\ call.pc = "locate" => a = NoAnswers
  /\ call.pc = "open" => a.locate = "SUCCESS" /\ a.open = None /\ a.convert = None
  /\ call.pc = "convert" => a.locate = "SUCCESS" /\ a.open = "SUCCESS" /\ a.convert = None

TextInv == TypeOK /\ CallPhases /\ ToStringReportsFirstFailure

CallType ==
  [pc : {"idle", "locate", "open", "convert"}, target : {None, "node", "path"},
   handle : Handles \cup {None}, answers : Answers]

\* The handle LocateHandleBuffer copies out of a successful buffer is one of
\* the database's handles.
LEMMA FirstHandleInDatabase ==
  ASSUME providers \subseteq Handles, providers # {},
         NEW b \in HandleBuffers
  PROVE  b # <<>> /\ b[1] \in Handles
<1>1. IsFiniteSet(providers)
  BY HandlesAssumption, FS_Subset
<1>2. Cardinality(providers) \in Nat /\ Cardinality(providers) # 0
  BY <1>1, FS_CardinalityType, FS_EmptySet
<1>3. 1 \in 1 .. Cardinality(providers)
  BY <1>2
<1>4. b[1] \in providers
  BY <1>3 DEF HandleBuffers
<1>5. b # <<>>
  <2>1. DOMAIN b = 1 .. Cardinality(providers)
    BY DEF HandleBuffers
  <2>2. DOMAIN << >> = {}
    OBVIOUS
  <2> QED
    BY <1>3, <2>1, <2>2
<1> QED
  BY <1>4, <1>5

\* Before the first call, to_string is idle with nothing returned.
THEOREM TextInitInv == Init => TextInv
BY DEF Init, TextInv, TypeOK, CallType, CallPhases, ToStringReportsFirstFailure,
       Returned, Idle, NoAnswers, Answers, NoResult, None, ConvertAnswers, Results

\* The first line of to_string keeps TextInv.
LEMMA StartCallInv ==
  ASSUME TextInv, NEW t \in {"node", "path"}, StartCall(t)
  PROVE  TextInv'
<1>1. call' = [pc |-> "locate", target |-> t, handle |-> None, answers |-> NoAnswers]
  BY DEF StartCall, Idle
<1>2. result' = NoResult /\ providers' = providers
  BY DEF StartCall
<1> QED
  BY <1>1, <1>2 DEF TextInv, TypeOK, CallPhases, ToStringReportsFirstFailure,
     Returned, NoAnswers, Answers, NoResult, None, ConvertAnswers, Results

\* Each outcome of locate_handle_buffer keeps TextInv.
LEMMA LocateInv ==
  ASSUME TextInv, LocateHandleBuffer
  PROVE  TextInv'
<1> USE DEF None, NoResult
<1>0. /\ call \in CallType /\ call.pc = "locate" /\ call.answers = NoAnswers
      /\ result = NoResult /\ call.target \in {"node", "path"}
      /\ providers \subseteq Handles /\ providers' = providers
  BY DEF TextInv, TypeOK, CallType, CallPhases, LocateHandleBuffer
<1>1. PICK a \in LocateAnswers :
        LET c == [call EXCEPT !.answers.locate = a.status, !.answers.seen = providers]
        IN  IF a.status # "SUCCESS" THEN
              /\ result' = WithError("CantLocateHandleBuffer", ErrorFromStatus(a.status))
              /\ call' = [c EXCEPT !.pc = "idle"]
            ELSE IF a.buffer = <<>> THEN
              /\ result' = Plain("NoHandle")
              /\ call' = [c EXCEPT !.pc = "idle"]
            ELSE
              /\ call' = [c EXCEPT !.pc = "open", !.handle = a.buffer[1]]
              /\ UNCHANGED result
  BY DEF LocateHandleBuffer
<1> DEFINE ans == [NoAnswers EXCEPT !.locate = a.status, !.seen = providers]
<1>2. /\ a.status \in {"NOT_FOUND", "OUT_OF_RESOURCES", "SUCCESS"}
      /\ a.status = "SUCCESS" => providers # {} /\ a.buffer \in HandleBuffers
  BY DEF LocateAnswers
<1>3. /\ ans \in Answers
      /\ ans.locate = a.status /\ ans.open = None /\ ans.convert = None
  BY <1>0, <1>2 DEF NoAnswers, Answers, ConvertAnswers
<1>4. [call EXCEPT !.answers.locate = a.status, !.answers.seen = providers]
        = [call EXCEPT !.answers = ans]
  BY <1>0 DEF CallType
<1>5. CASE a.status # "SUCCESS"
  <2>1. call' = [call EXCEPT !.pc = "idle", !.answers = ans]
    BY <1>1, <1>4, <1>5
  <2>2. result' = WithError("CantLocateHandleBuffer", ErrorFromStatus(a.status))
    BY <1>1, <1>5
  <2>3. call' \in CallType /\ call'.pc = "idle" /\ call'.answers = ans
         /\ call'.target = call.target
    BY <1>0, <1>3, <2>1 DEF CallType
  <2>4. result' \in Results /\ result'.kind = "CantLocateHandleBuffer"
         /\ ErrSplit(ErrorSource(result')) = <<a.status, "()">>
    BY <1>2, <1>5, <2>2 DEF Results, WithError, ErrorFromStatus, ErrorNew, ErrSplit,
       ErrorSource
  <2>5. TypeOK'
    BY <1>0, <2>3, <2>4 DEF TypeOK, CallType
  <2>6. CallPhases'
    BY <1>0, <2>3, <2>4 DEF CallPhases
  <2>7. ToStringReportsFirstFailure'
    BY <1>3, <1>5, <2>3, <2>4 DEF ToStringReportsFirstFailure
  <2> QED
    BY <2>5, <2>6, <2>7 DEF TextInv
<1>6. CASE a.status = "SUCCESS" /\ a.buffer = <<>>
  <2>1. call' = [call EXCEPT !.pc = "idle", !.answers = ans]
    BY <1>1, <1>4, <1>6
  <2>2. result' = Plain("NoHandle")
    BY <1>1, <1>6
  <2>3. call' \in CallType /\ call'.pc = "idle" /\ call'.answers = ans
         /\ call'.target = call.target
    BY <1>0, <1>3, <2>1 DEF CallType
  <2>4. result' \in Results /\ result'.kind = "NoHandle"
    BY <2>2 DEF Results, Plain, TextErrorKinds
  <2>5. TypeOK'
    BY <1>0, <2>3, <2>4 DEF TypeOK, CallType
  <2>6. CallPhases'
    BY <1>0, <2>3, <2>4 DEF CallPhases
  <2>7. ToStringReportsFirstFailure'
    BY <1>3, <1>6, <2>3, <2>4 DEF ToStringReportsFirstFailure
  <2> QED
    BY <2>5, <2>6, <2>7 DEF TextInv
<1>7. CASE a.status = "SUCCESS" /\ a.buffer # <<>>
  <2>1. a.buffer[1] \in Handles
    BY <1>0, <1>2, <1>7, FirstHandleInDatabase
  <2>2. call' = [call EXCEPT !.pc = "open", !.handle = a.buffer[1], !.answers = ans]
    BY <1>1, <1>4, <1>7
  <2>3. result' = result
    BY <1>1, <1>7
  <2> QED
    BY <1>0, <1>3, <1>7, <2>1, <2>2, <2>3
    DEF TextInv, TypeOK, CallType, CallPhases, ToStringReportsFirstFailure, Returned
<1> QED
  BY <1>5, <1>6, <1>7

\* Recording open_protocol's answer keeps the answers well typed.
LEMMA OpenAnswersType ==
  ASSUME NEW a \in Answers, NEW v \in {"SUCCESS", "UNSUPPORTED"}, NEW c \in BOOLEAN
  PROVE  [a EXCEPT !.open = v, !.supported = c] \in Answers
BY DEF Answers

\* Each outcome of open_protocol keeps TextInv.
LEMMA OpenInv ==
  ASSUME TextInv, OpenProtocol
  PROVE  TextInv'
<1> USE DEF None, NoResult
<1>0. /\ call \in CallType /\ call.pc = "open"
      /\ call.answers.locate = "SUCCESS" /\ call.answers.convert = None
      /\ result = NoResult /\ call.target \in {"node", "path"}
      /\ providers \subseteq Handles /\ providers' = providers
  BY DEF TextInv, TypeOK, CallType, CallPhases, OpenProtocol
<1> DEFINE s == OpenAnswer(call.handle)
           ans == [call.answers EXCEPT !.open = s, !.supported = call.handle \in providers]
<1>1. s \in {"SUCCESS", "UNSUPPORTED"}
  BY DEF OpenAnswer
<1>2. /\ ans \in Answers /\ ans.locate = "SUCCESS" /\ ans.open = s /\ ans.convert = None
  <2>1. call.answers \in Answers
    BY <1>0 DEF CallType
  <2>2. (call.handle \in providers) \in BOOLEAN
    OBVIOUS
  <2>3. ans \in Answers
    BY <1>1, <2>1, <2>2, OpenAnswersType
  <2>4. ans.locate = call.answers.locate
    BY <2>1, Zenon DEF Answers
  <2>5. ans.open = s
    BY <2>1, Zenon DEF Answers
  <2>6. ans.convert = call.answers.convert
    BY <2>1, Zenon DEF Answers
  <2> QED
    BY <1>0, <2>3, <2>4, <2>5, <2>6
<1>3. [call EXCEPT !.answers.open = s, !.answers.supported = call.handle \in providers]
        = [call EXCEPT !.answers = ans]
  BY <1>0 DEF CallType
<1>4. CASE s = "SUCCESS"
  <2>1. call' = [call EXCEPT !.pc = "convert", !.answers = ans] /\ result' = result
    BY <1>3, <1>4 DEF OpenProtocol
  <2>2. call' \in CallType /\ call'.pc = "convert" /\ call'.answers = ans
        /\ call'.target = call.target
    BY <1>0, <1>2, <2>1 DEF CallType
  <2> QED
    BY <1>0, <1>2, <1>4, <2>1, <2>2
    DEF TextInv, TypeOK, CallPhases, ToStringReportsFirstFailure, Returned
<1>5. CASE s # "SUCCESS"
  <2>1. /\ call' = [call EXCEPT !.pc = "idle", !.answers = ans]
        /\ result' = WithError("CantOpenProtocol", ErrorFromStatus(s))
    BY <1>3, <1>5 DEF OpenProtocol
  <2>2. call' \in CallType /\ call'.pc = "idle" /\ call'.answers = ans
        /\ call'.target = call.target
    BY <1>0, <1>2, <2>1 DEF CallType
  <2>3. result' \in Results /\ result'.kind = "CantOpenProtocol"
        /\ ErrStatus(ErrorSource(result')) = s
    BY <1>1, <1>5, <2>1 DEF Results, WithError, ErrorFromStatus, ErrorNew, ErrStatus,
       ErrorSource
  <2>4. TypeOK'
    BY <1>0, <2>2, <2>3 DEF TypeOK, CallType
  <2>5. CallPhases'
    BY <1>0, <2>2, <2>3 DEF CallPhases
  <2>6. ToStringReportsFirstFailure'
    BY <1>2, <1>5, <2>2, <2>3 DEF ToStringReportsFirstFailure
  <2> QED
    BY <2>4, <2>5, <2>6 DEF TextInv
<1> QED
  BY <1>4, <1>5

\* The conversion step, for the text the target's conversion gives.
LEMMA ConvertedInv ==
  ASSUME TextInv, NEW text,
         text = IF call.target = "node" THEN "NodeText" ELSE "PathText",
         Converted(text)
  PROVE  TextInv'
<1> USE DEF None, NoResult
<1>0. /\ call \in CallType /\ call.pc = "convert"
      /\ call.answers.locate = "SUCCESS" /\ call.answers.open = "SUCCESS"
      /\ result = NoResult /\ call.target \in {"node", "path"}
      /\ providers \subseteq Handles /\ providers' = providers
  BY DEF TextInv, TypeOK, CallType, CallPhases, Converted
<1>1. PICK s \in ConvertAnswers :
        /\ result' = IF s = "SUCCESS" THEN Ok(text) ELSE Plain("OutOfMemory")
        /\ call' = [call EXCEPT !.pc = "idle", !.answers.convert = s]
  BY DEF Converted
<1> DEFINE ans == [call.answers EXCEPT !.convert = s]
<1>2. /\ ans \in Answers /\ ans.locate = "SUCCESS" /\ ans.open = "SUCCESS"
      /\ ans.convert = s
  BY <1>0 DEF CallType, Answers
<1>3. call' \in CallType /\ call'.pc = "idle" /\ call'.answers = ans
      /\ call'.target = call.target
  BY <1>0, <1>1, <1>2 DEF CallType
<1>4. CASE s = "SUCCESS"
  <2>1. result' = Ok(text) /\ result' \in Results
    BY <1>0, <1>1, <1>4 DEF Ok, Results
  <2> QED
    BY <1>0, <1>2, <1>3, <1>4, <2>1
    DEF TextInv, TypeOK, CallType, CallPhases, ToStringReportsFirstFailure, Returned, Ok
<1>5. CASE s # "SUCCESS"
  <2>1. result' = Plain("OutOfMemory") /\ result' \in Results
    BY <1>1, <1>5 DEF Plain, Results, TextErrorKinds
  <2> QED
    BY <1>0, <1>2, <1>3, <1>5, <2>1
    DEF TextInv, TypeOK, CallType, CallPhases, ToStringReportsFirstFailure, Returned, Plain
<1> QED
  BY <1>4, <1>5

\* Install and Uninstall change the handle database only.
LEMMA FirmwareInv ==
  ASSUME TextInv, Install \/ Uninstall
  PROVE  TextInv'
<1>1. providers' \subseteq Handles /\ call' = call /\ result' = result
  BY DEF TextInv, TypeOK, Install, Uninstall
<1> QED
  BY <1>1 DEF TextInv, TypeOK, CallPhases, ToStringReportsFirstFailure, Returned

\* Every step of a call or of the firmware keeps TextInv.
THEOREM TextNextInv == TextInv /\ [Next]_vars => TextInv'
<1> SUFFICES ASSUME TextInv, [Next]_vars PROVE TextInv'
  OBVIOUS
<1>1. CASE NodeToString
  BY <1>1, StartCallInv DEF NodeToString
<1>2. CASE PathToString
  BY <1>2, StartCallInv DEF PathToString
<1>3. CASE LocateHandleBuffer
  BY <1>3, LocateInv
<1>4. CASE OpenProtocol
  BY <1>4, OpenInv
<1>5. CASE ConvertNode
  BY <1>5, ConvertedInv DEF ConvertNode
<1>6. CASE ConvertPath
  BY <1>6, ConvertedInv DEF ConvertPath
<1>7. CASE Install \/ Uninstall
  BY <1>7, FirmwareInv
<1>8. CASE UNCHANGED vars
  BY <1>8 DEF vars, TextInv, TypeOK, CallPhases, ToStringReportsFirstFailure, Returned,
     HandleBuffers
<1> QED
  BY <1>1, <1>2, <1>3, <1>4, <1>5, <1>6, <1>7, <1>8 DEF Next

(***************************************************************************)
(* Type correctness of the text conversion: the handle database, the call  *)
(* of to_string in progress and the value it returned keep their types,    *)
(* for every handle database and every order of firmware events.           *)
(***************************************************************************)
THEOREM TextTypeCorrect == Spec => []TypeOK
<1>1. TextInv => TypeOK
  BY DEF TextInv
<1> QED
  BY <1>1, TextInitInv, TextNextInv, PTL DEF Spec

(***************************************************************************)
(* Every value DevicePathNode::to_string and DevicePath::to_string return  *)
(* names the first firmware call that failed, with its status, and Ok      *)
(* carries the conversion of what the caller passed: for every handle      *)
(* database, however other images install and uninstall DevicePathToText.  *)
(***************************************************************************)
THEOREM ToStringCorrect == Spec => []ToStringReportsFirstFailure
<1>1. TextInv => ToStringReportsFirstFailure
  BY DEF TextInv
<1> QED
  BY <1>1, TextInitInv, TextNextInv, PTL DEF Spec

\* From TextInv, a step that changes a returned value is the start of the
\* next call.
LEMMA KeptStep ==
  ASSUME TextInv, [Next]_vars
  PROVE  result # NoResult /\ result' # result =>
           call.pc = "idle" /\ call'.pc = "locate" /\ result' = NoResult
<1> SUFFICES ASSUME result # NoResult, result' # result
             PROVE  call.pc = "idle" /\ call'.pc = "locate" /\ result' = NoResult
  OBVIOUS
<1>1. call.pc = "idle"
  BY DEF TextInv, CallPhases
<1>2. CASE NodeToString \/ PathToString
  BY <1>1, <1>2 DEF NodeToString, PathToString, StartCall, Idle
<1>3. CASE LocateHandleBuffer \/ OpenProtocol \/ ConvertNode \/ ConvertPath
  BY <1>1, <1>3 DEF LocateHandleBuffer, OpenProtocol, ConvertNode, ConvertPath, Converted
<1>4. CASE Install \/ Uninstall \/ UNCHANGED vars
  BY <1>4 DEF Install, Uninstall, vars
<1> QED
  BY <1>2, <1>3, <1>4 DEF Next

(***************************************************************************)
(* DevicePathNode::to_string and DevicePath::to_string never change a      *)
(* value they returned, and no firmware event does: only the next call of  *)
(* to_string, starting from idle, clears it.                               *)
(***************************************************************************)
THEOREM ReturnedKeptCorrect == Spec => ReturnedValueKept
<1>1. TextInv /\ [Next]_vars =>
        [result # NoResult /\ result' # result =>
           call.pc = "idle" /\ call'.pc = "locate" /\ result' = NoResult]_vars
  BY KeptStep
<1> QED
  BY <1>1, TextInitInv, TextNextInv, PTL DEF Spec, ReturnedValueKept


-----------------------------------------------------------------------------
(***************************************************************************)
(* ToStringRefinement.  Under the mapping CallPending, the first line of   *)
(* to_string is the abstract start, the step where a firmware call fails   *)
(* or the conversion answers is the abstract return, the two firmware      *)
(* calls that succeed are stutters, and Install and Uninstall change the   *)
(* providers.  A failed open_protocol is allowed only for a handle of the  *)
(* database that lacks the protocol, so the invariant also records that   *)
(* the handle open_text_protocol copied out of the buffer is one of the    *)
(* database's handles.                                                     *)
(***************************************************************************)
HandleCopied == call.pc \in {"open", "convert"} => call.handle \in Handles

RefInv == TextInv /\ HandleCopied

\* The first line of to_string is the abstract start of a call.
LEMMA StartRefines ==
  ASSUME TextInv, NEW t \in {"node", "path"}, StartCall(t)
  PROVE  TextCall!CallNext /\ HandleCopied'
<1>1. call.pc = "idle" /\ call'.pc = "locate" /\ call'.target = t
  BY DEF StartCall, Idle
<1>2. CallPending = None /\ CallPending' = t
  BY <1>1 DEF CallPending, None
<1>3. TextCall!CallStart(t)
  BY <1>2 DEF TextCall!CallStart, StartCall, CallPending, TextCall!None, TextCall!NoResult,
     NoResult, None
<1> QED
  BY <1>1, <1>3 DEF TextCall!CallNext, HandleCopied

\* LocateHandleBuffer either returns the abstract call, when it fails, or
\* is a stutter that copies a handle of the database.
LEMMA LocateRefines ==
  ASSUME TextInv, LocateHandleBuffer
  PROVE  [TextCall!CallNext]_TextCall!callVars /\ HandleCopied'
<1> USE DEF None, NoResult
<1>0. /\ call \in CallType /\ call.pc = "locate" /\ call.target \in {"node", "path"}
      /\ providers \subseteq Handles /\ providers' = providers
  BY DEF TextInv, TypeOK, CallType, CallPhases, LocateHandleBuffer
<1>1. PICK a \in LocateAnswers :
        LET c == [call EXCEPT !.answers.locate = a.status, !.answers.seen = providers]
        IN  IF a.status # "SUCCESS" THEN
              /\ result' = WithError("CantLocateHandleBuffer", ErrorFromStatus(a.status))
              /\ call' = [c EXCEPT !.pc = "idle"]
            ELSE IF a.buffer = <<>> THEN
              /\ result' = Plain("NoHandle")
              /\ call' = [c EXCEPT !.pc = "idle"]
            ELSE
              /\ call' = [c EXCEPT !.pc = "open", !.handle = a.buffer[1]]
              /\ UNCHANGED result
  BY DEF LocateHandleBuffer
<1>2. /\ a.status # "SUCCESS" =>
           a.status = IF providers = {} THEN "NOT_FOUND" ELSE "OUT_OF_RESOURCES"
      /\ a.status = "SUCCESS" => providers # {} /\ a.buffer \in HandleBuffers
  BY DEF LocateAnswers
<1>3. CallPending = call.target /\ CallPending # None
  BY <1>0 DEF CallPending
<1>4. CASE a.status # "SUCCESS"
  <2>1. call'.pc = "idle"
    BY <1>0, <1>1, <1>4 DEF CallType
  <2>2. result' \in TextCall!Replies(CallPending)
    BY <1>1, <1>2, <1>4 DEF TextCall!Replies, TextCall!WithError, TextCall!ErrorFromStatus,
       TextCall!ErrorNew, WithError, ErrorFromStatus, ErrorNew
  <2>3. TextCall!CallReturn
    BY <1>0, <1>3, <2>1, <2>2 DEF TextCall!CallReturn, CallPending, TextCall!None
  <2> QED
    BY <2>1, <2>3 DEF TextCall!CallNext, HandleCopied
<1>5. CASE a.status = "SUCCESS" /\ a.buffer = <<>>
  BY <1>0, <1>2, <1>5, FirstHandleInDatabase
<1>6. CASE a.status = "SUCCESS" /\ a.buffer # <<>>
  <2>1. a.buffer[1] \in Handles
    BY <1>0, <1>2, <1>6, FirstHandleInDatabase
  <2>2. /\ call'.pc = "open" /\ call'.target = call.target /\ call'.handle = a.buffer[1]
        /\ result' = result
    BY <1>0, <1>1, <1>6 DEF CallType
  <2>3. UNCHANGED TextCall!callVars
    BY <1>0, <1>3, <2>2 DEF TextCall!callVars, CallPending
  <2> QED
    BY <2>1, <2>2, <2>3 DEF HandleCopied
<1> QED
  BY <1>4, <1>5, <1>6

\* open_protocol either returns the abstract call, for a handle of the
\* database that lacks the protocol, or is a stutter.
LEMMA OpenRefines ==
  ASSUME TextInv, HandleCopied, OpenProtocol
  PROVE  [TextCall!CallNext]_TextCall!callVars /\ HandleCopied'
<1> USE DEF None, NoResult
<1>0. /\ call \in CallType /\ call.pc = "open" /\ call.target \in {"node", "path"}
      /\ call.handle \in Handles /\ providers' = providers
  BY DEF TextInv, TypeOK, CallType, CallPhases, HandleCopied, OpenProtocol
<1> DEFINE s == OpenAnswer(call.handle)
<1>1. CallPending = call.target /\ CallPending # None
  BY <1>0 DEF CallPending
<1>2. CASE s = "SUCCESS"
  <2>1. /\ call'.pc = "convert" /\ call'.target = call.target
        /\ call'.handle = call.handle /\ result' = result
    BY <1>0, <1>2 DEF OpenProtocol, CallType
  <2>2. UNCHANGED TextCall!callVars
    BY <1>0, <1>1, <2>1 DEF TextCall!callVars, CallPending
  <2> QED
    BY <1>0, <2>1, <2>2 DEF HandleCopied
<1>3. CASE s # "SUCCESS"
  <2>1. call.handle \in Handles \ providers /\ s = "UNSUPPORTED"
    BY <1>0, <1>3 DEF OpenAnswer
  <2>2. /\ call'.pc = "idle"
        /\ result' = WithError("CantOpenProtocol", ErrorFromStatus("UNSUPPORTED"))
    BY <1>0, <1>3, <2>1 DEF OpenProtocol, CallType
  <2>3. result' \in TextCall!Replies(CallPending)
    BY <2>1, <2>2 DEF TextCall!Replies, TextCall!WithError, TextCall!ErrorFromStatus,
       TextCall!ErrorNew, WithError, ErrorFromStatus, ErrorNew
  <2>4. TextCall!CallReturn
    BY <1>0, <1>1, <2>2, <2>3 DEF TextCall!CallReturn, CallPending, TextCall!None
  <2> QED
    BY <2>2, <2>4 DEF TextCall!CallNext, HandleCopied
<1> QED
  BY <1>2, <1>3

\* The conversion returns the abstract call, with the text asked for or
\* OutOfMemory.
LEMMA ConvertedRefines ==
  ASSUME TextInv, NEW text, text = TextCall!TextOf(call.target), Converted(text)
  PROVE  TextCall!CallNext /\ HandleCopied'
<1> USE DEF None, NoResult
<1>0. /\ call \in CallType /\ call.pc = "convert" /\ call.target \in {"node", "path"}
      /\ providers' = providers
  BY DEF TextInv, TypeOK, CallType, CallPhases, Converted
<1>1. PICK s \in ConvertAnswers :
        /\ result' = IF s = "SUCCESS" THEN Ok(text) ELSE Plain("OutOfMemory")
        /\ call' = [call EXCEPT !.pc = "idle", !.answers.convert = s]
  BY DEF Converted
<1>2. call'.pc = "idle"
  BY <1>0, <1>1 DEF CallType
<1>3. CallPending = call.target /\ CallPending # None
  BY <1>0 DEF CallPending
<1>4. result' \in TextCall!Replies(CallPending)
  BY <1>1, <1>3 DEF TextCall!Replies, TextCall!Ok, TextCall!Plain, Ok, Plain
<1>5. TextCall!CallReturn
  BY <1>0, <1>2, <1>3, <1>4 DEF TextCall!CallReturn, CallPending, TextCall!None
<1> QED
  BY <1>2, <1>5 DEF TextCall!CallNext, HandleCopied

\* Another image's Install or Uninstall changes the abstract providers only.
LEMMA FirmwareRefines ==
  ASSUME TextInv, HandleCopied, Install \/ Uninstall
  PROVE  TextCall!CallNext /\ HandleCopied'
<1>1. providers' \subseteq Handles /\ call' = call /\ result' = result
  BY DEF TextInv, TypeOK, Install, Uninstall
<1>2. TextCall!ProvidersChange
  BY <1>1 DEF TextCall!ProvidersChange, CallPending
<1> QED
  BY <1>1, <1>2 DEF TextCall!CallNext, HandleCopied

\* Before the first call no handle has been copied out of a buffer.
THEOREM RefInitInv == Init => RefInv
BY TextInitInv DEF Init, RefInv, HandleCopied, Idle

\* Every step of to_string is a step of the abstract call or a stutter, and
\* keeps RefInv.
LEMMA RefStep ==
  ASSUME RefInv, [Next]_vars
  PROVE  [TextCall!CallNext]_TextCall!callVars /\ RefInv'
<1>1. TextInv'
  BY TextNextInv DEF RefInv
<1>2. [TextCall!CallNext]_TextCall!callVars /\ HandleCopied'
  <2>1. CASE NodeToString
    BY <2>1, StartRefines DEF RefInv, NodeToString
  <2>2. CASE PathToString
    BY <2>2, StartRefines DEF RefInv, PathToString
  <2>3. CASE LocateHandleBuffer
    BY <2>3, LocateRefines DEF RefInv
  <2>4. CASE OpenProtocol
    BY <2>4, OpenRefines DEF RefInv
  <2>5. CASE ConvertNode
    BY <2>5, ConvertedRefines DEF RefInv, ConvertNode, TextCall!TextOf
  <2>6. CASE ConvertPath
    BY <2>6, ConvertedRefines DEF RefInv, ConvertPath, TextCall!TextOf
  <2>7. CASE Install \/ Uninstall
    BY <2>7, FirmwareRefines DEF RefInv
  <2>8. CASE UNCHANGED vars
    BY <2>8 DEF vars, TextCall!callVars, CallPending, RefInv, HandleCopied
  <2> QED
    BY <2>1, <2>2, <2>3, <2>4, <2>5, <2>6, <2>7, <2>8 DEF Next
<1> QED
  BY <1>1, <1>2 DEF RefInv

(***************************************************************************)
(* DevicePathNode::to_string and DevicePath::to_string implement the       *)
(* one-step call of DevicePathToTextCall, for every handle database and    *)
(* every order of Install and Uninstall by other images: each call returns *)
(* once a value that the handles having the protocol at that moment allow. *)
(***************************************************************************)
THEOREM ToStringRefines == Spec => ToStringRefinement
<1>1. Init => TextCall!CallInit
  BY DEF Init, TextCall!CallInit, CallPending, Idle, TextCall!None, TextCall!NoResult,
     None, NoResult
<1>2. RefInv /\ [Next]_vars => [TextCall!CallNext]_TextCall!callVars
  BY RefStep
<1>3. RefInv /\ [Next]_vars => RefInv'
  BY RefStep
<1> QED
  BY <1>1, <1>2, <1>3, RefInitInv, PTL DEF Spec, ToStringRefinement, TextCall!CallSpec

=============================================================================
