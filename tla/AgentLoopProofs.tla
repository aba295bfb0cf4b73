-------------------------- MODULE AgentLoopProofs ----------------------------
(***************************************************************************)
(* Theorems about AgentLoop, for any fragments, tools, limits and texts:   *)
(* the agent implements AnswerStream, never disagrees with LiteLLMProvider *)
(* and answers every call of the model.                                    *)
(*                                                                         *)
(* Three invariants build on each other: types, what text has reached the  *)
(* caller in each phase (TextInv), and how LiteLLM's chunks relate to the  *)
(* agent's own copy (ProviderInv).  The context has its own (ContextInv).  *)
(***************************************************************************)
EXTENDS AgentLoop, SequenceTheorems, TLAPS

USE LoopAssumption

-----------------------------------------------------------------------------
(* Types.                                                                  *)

TypeInv ==
  /\ TypeOK
  /\ phase = "calling" => ResultType(response) = "tool_call"

LEMMA ShortTextsAreSequences ==
  ASSUME NEW S PROVE Texts(S) \subseteq Seq(S)
<1>1. SUFFICES ASSUME NEW t \in Texts(S) PROVE t \in Seq(S)
  OBVIOUS
<1>2. PICK n \in 0..MaxText : t \in [1..n -> S]
  BY DEF Texts
<1> QED
  BY <1>2, SeqDef

LEMMA SomeResponsesAreResponses == SomeResponses \subseteq Responses
<1>1. SUFFICES ASSUME NEW r \in SomeResponses PROVE r \in Responses
  OBVIOUS
<1>2. r.content \in Seq(Fragments) \cup {None}
  BY ShortTextsAreSequences DEF SomeResponses
<1>3. PICK n \in 0..2 : r.calls \in [1..n -> SomeCalls]
  BY DEF SomeResponses
<1>4. SomeCalls \subseteq Calls
  BY ShortTextsAreSequences DEF SomeCalls, Calls
<1>5. r.calls \in Seq(Calls)
  BY <1>3, <1>4, SeqDef
<1> QED
  BY <1>2, <1>5 DEF SomeResponses, Responses

(* The messages the provider maps.                                         *)
Mappable == {message \in Messages : ~Unmappable(message)}

LEMMA PlainIsMappable ==
  \A role \in Roles \ {"tool"} : Plain(role) \in Mappable
BY DEF Plain, Messages, Roles, Mappable, Unmappable

LEMMA PairsAreMappable ==
  ASSUME NEW n \in Nat PROVE Pairs(n) \in Seq(Mappable)
<1>1. \A i \in 1..2 * n :
        Plain(IF i % 2 = 1 THEN "user" ELSE "assistant") \in Mappable
  BY PlainIsMappable DEF Roles
<1>2. Pairs(n) \in [1..2 * n -> Mappable]
  BY <1>1 DEF Pairs
<1>3. 2 * n \in Nat
  OBVIOUS
<1> QED
  BY <1>2, <1>3, SeqDef

(* Sequences: what Append and \o keep.                                     *)
LEMMA AppendKeepsType ==
  ASSUME NEW S, NEW s \in Seq(S), NEW e \in S
  PROVE  Append(s, e) \in Seq(S)
OBVIOUS

LEMMA SingletonIsSequence ==
  ASSUME NEW S, NEW e \in S
  PROVE  <<e>> \in Seq(S)
OBVIOUS

LEMMA PieceIsSequence ==
  ASSUME NEW S, NEW t \in {<<>>} \cup {<<e>> : e \in S}
  PROVE  t \in Seq(S)
<1>1. CASE t = <<>>
  BY <1>1, EmptySeq
<1>2. CASE t \in {<<e>> : e \in S}
  BY <1>2, SingletonIsSequence
<1> QED
  BY <1>1, <1>2

LEMMA AskedIsMappable == Init => asked \in Seq(Mappable)
<1> SUFFICES ASSUME Init PROVE asked \in Seq(Mappable)
  OBVIOUS
<1>1. PICK length \in LengthInstructions, n \in 0..MaxPairs :
        asked = <<Plain("system")>> \o length \o Pairs(n) \o <<Plain("user")>>
  BY DEF Init
<1>2. /\ <<Plain("system")>> \in Seq(Mappable)
      /\ <<Plain("user")>> \in Seq(Mappable)
  BY PlainIsMappable, SingletonIsSequence DEF Roles
<1>3. length \in Seq(Mappable)
  BY <1>2, EmptySeq DEF LengthInstructions
<1>4. Pairs(n) \in Seq(Mappable)
  BY PairsAreMappable
<1>5. <<Plain("system")>> \o length \in Seq(Mappable)
  BY <1>2, <1>3, ConcatProperties
<1>6. <<Plain("system")>> \o length \o Pairs(n) \in Seq(Mappable)
  BY <1>4, <1>5, ConcatProperties
<1> QED
  BY <1>1, <1>2, <1>6, ConcatProperties

LEMMA MappableAreMessages == Seq(Mappable) \subseteq Seq(Messages)
BY SeqDef DEF Mappable

LEMMA TypeInvInit == Init => TypeInv
<1> SUFFICES ASSUME Init PROVE TypeInv
  OBVIOUS
<1>1. asked \in Seq(Messages) /\ context \in Seq(Messages)
  BY AskedIsMappable, MappableAreMessages DEF Init
<1>2. <<>> \in Seq(Fragments)
  BY EmptySeq
<1> QED
  BY <1>1, <1>2 DEF Init, TypeInv, TypeOK, Phases

LEMMA TypeOKNext == TypeInv /\ [Next]_vars => TypeOK'
<1> SUFFICES ASSUME TypeInv, [Next]_vars PROVE TypeOK'
  OBVIOUS
<1> USE DEF TypeOK, TypeInv
<1>1. CASE Request
  BY <1>1 DEF Request, Opened, Phases, Ends, Failures, callerVars
<1>2. CASE IterationLimit
  BY <1>2 DEF IterationLimit, Phases, Ends, Failures, callerVars, providerVars
<1>3. CASE BlankChunk
  BY <1>3 DEF BlankChunk, agentVars, callerVars
<1>4. CASE TextChunk
  <2>1. CASE pieces = None
    <3>1. PICK f \in Fragments : content' = Append(content, f) /\ TextDelta(f)
      BY <1>4, <2>1 DEF TextChunk
    <3>2. /\ Append(content, f) \in Seq(Fragments)
          /\ Append(parts, f) \in Seq(Fragments)
          /\ Append(streamed, f) \in Seq(Fragments)
      BY AppendKeepsType
    <3>3. content' \in Seq(Fragments)
      BY <3>1, <3>2
    <3>4. parts' \in Seq(Fragments) /\ streamed' \in Seq(Fragments)
      BY <3>1, <3>2 DEF TextDelta
    <3>5. phase' \in Phases
      BY <3>1 DEF TextDelta, Phases, Ends, Failures
    <3>6. UNCHANGED <<provider, asked, iteration, context, response, pieces,
                      answer>> /\ choice' = "seen"
      BY <1>4, <2>1 DEF TextChunk
    <3> QED
      BY <3>3, <3>4, <3>5, <3>6
  <2>2. CASE pieces # None
    BY <1>4, <2>2 DEF TextChunk, ProviderError, Phases, Ends, Failures,
              callerVars, providerVars
  <2> QED
    BY <2>1, <2>2
<1>5. CASE BadChunk
  BY <1>5 DEF BadChunk, ProviderError, Phases, Ends, Failures, callerVars,
              providerVars
<1>6. CASE LastChunk
  <2>1. [content |-> content, calls |-> <<>>] \in Responses
    BY DEF Responses
  <2>2. pieces # None =>
          [content |-> None, calls |-> <<pieces>>] \in Responses
    BY DEF Responses
  <2> QED
    BY <1>6, <2>1, <2>2 DEF LastChunk, Respond, ProviderError, Phases, Ends,
              Failures, callerVars, providerVars
<1>7. ASSUME NEW id \in {<<>>} \cup {<<i>> : i \in Ids},
             NEW name \in {<<>>} \cup {<<n>> : n \in Names},
             CallChunk(id, name)
      PROVE  TypeOK'
  <2>1. id \in Seq(Ids) /\ name \in Seq(Names)
    BY PieceIsSequence
  <2>2. pieces' \in Calls \cup {None}
    <3> DEFINE old == IF pieces = None THEN NoPieces ELSE pieces
    <3>1. old \in Calls
      BY EmptySeq DEF NoPieces, Calls
    <3>2. old.id \o id \in Seq(Ids) /\ old.name \o name \in Seq(Names)
      <4> HIDE DEF old
      <4> QED
        BY <3>1, <2>1, ConcatProperties DEF Calls
    <3>3. CASE content = <<>>
      <4>1. pieces' = [id |-> old.id \o id, name |-> old.name \o name]
        BY <1>7, <3>3 DEF CallChunk
      <4> QED
        BY <3>2, <4>1 DEF Calls
    <3>4. CASE content # <<>>
      BY <1>7, <3>4 DEF CallChunk, ProviderError, providerVars
    <3> QED
      BY <3>3, <3>4
  <2>3. phase' \in Phases /\ choice' \in {"seen", "unseen"}
    BY <1>7 DEF CallChunk, ProviderError, Phases, Ends, Failures, agentVars,
              providerVars
  <2>4. UNCHANGED <<provider, asked, iteration, context, parts, response,
                    content, streamed, answer>>
    BY <1>7 DEF CallChunk, ProviderError, agentVars, callerVars, providerVars
  <2> QED
    BY <2>2, <2>3, <2>4
<1>8. CASE OtherText
  <2>1. PICK f \in Fragments : TextDelta(f)
    BY <1>8 DEF OtherText
  <2>2. /\ Append(parts, f) \in Seq(Fragments)
        /\ Append(streamed, f) \in Seq(Fragments)
    BY AppendKeepsType
  <2>3. parts' \in Seq(Fragments) /\ streamed' \in Seq(Fragments)
    BY <2>1, <2>2 DEF TextDelta
  <2>4. phase' \in Phases
    BY <2>1 DEF TextDelta, Phases, Ends, Failures
  <2> QED
    BY <1>8, <2>3, <2>4 DEF OtherText, providerVars
<1>9. CASE OtherResponse
  BY <1>9, SomeResponsesAreResponses DEF OtherResponse, Respond, Phases, Ends,
              Failures, providerVars, callerVars
<1>10. CASE OtherFails
  BY <1>10 DEF OtherFails, Phases, Ends, Failures, providerVars, callerVars
<1>11. CASE FinalAnswer
  BY <1>11 DEF FinalAnswer, ResultType, Responses, Phases, Ends, Failures,
              providerVars
<1>12. CASE CallsTool
  <2>1. response.calls[1] \in Calls
    BY <1>12 DEF CallsTool, ResultType, Responses
  <2>2. CallMessage(response.calls[1]) \in Messages
    BY <2>1 DEF CallMessage, Messages, Roles
  <2>3. Append(context, CallMessage(response.calls[1])) \in Seq(Messages)
    BY <2>2, AppendKeepsType
  <2>4. context' \in Seq(Messages)
    BY <1>12, <2>3 DEF CallsTool
  <2> QED
    BY <1>12, <2>4 DEF CallsTool, Phases, Ends, Failures, providerVars,
              callerVars
<1>13. CASE InvalidResponse
  BY <1>13 DEF InvalidResponse, Phases, Ends, Failures, providerVars, callerVars
<1>14. CASE Execute
  <2>1. PICK result \in Outcomes(response.calls[1]) :
          context' = Append(context, ResultMessage(response.calls[1], result))
    BY <1>14 DEF Execute
  <2>2. response.calls[1] \in Calls
    BY <1>14 DEF Execute, ResultType, Responses
  <2>3. ResultMessage(response.calls[1], result) \in Messages
    BY <2>2 DEF ResultMessage, Messages, Roles, Outcomes, Results
  <2>4. context' \in Seq(Messages)
    BY <2>1, <2>3, AppendKeepsType
  <2> QED
    BY <1>14, <2>4 DEF Execute, Phases, providerVars, callerVars
<1>15. CASE Cancel
  BY <1>15 DEF Cancel, Phases, Ends, providerVars, callerVars
<1>16. CASE Over
  BY <1>16 DEF Over, vars, agentVars, providerVars, callerVars
<1>17. CASE UNCHANGED vars
  BY <1>17 DEF vars, agentVars, providerVars, callerVars
<1> QED
  BY <1>1, <1>2, <1>3, <1>4, <1>5, <1>6, <1>7, <1>8, <1>9, <1>10, <1>11,
     <1>12, <1>13, <1>14, <1>15, <1>16, <1>17 DEF Next

LEMMA CallingNext ==
  TypeInv /\ [Next]_vars =>
    (phase = "calling" => ResultType(response) = "tool_call")'
<1> SUFFICES ASSUME TypeInv, [Next]_vars, phase' = "calling"
             PROVE  ResultType(response') = "tool_call"
  BY DEF ResultType
<1>1. CASE CallsTool
  BY <1>1 DEF CallsTool
<1>2. CASE ~CallsTool
  <2>1. UNCHANGED <<phase, response>>
    BY <1>2 DEF Next, Request, Opened, IterationLimit, BlankChunk, TextChunk,
       TextDelta, BadChunk, ProviderError, LastChunk, Respond, CallChunk,
       OtherText, OtherResponse, OtherFails, FinalAnswer, InvalidResponse,
       Execute, Cancel, Over, Reading, Other, Ended, vars, agentVars
  <2> QED
    BY <2>1 DEF TypeInv
<1> QED
  BY <1>1, <1>2

THEOREM LoopTypeInvariant == Spec => []TypeInv
<1>1. Init => TypeInv
  BY TypeInvInit
<1>2. TypeInv /\ [Next]_vars => TypeInv'
  BY TypeOKNext, CallingNext DEF TypeInv
<1> QED
  BY <1>1, <1>2, PTL DEF Spec

(* Type correctness.                                                       *)
THEOREM LoopTypeCorrect == Spec => []TypeOK
<1>1. TypeInv => TypeOK
  BY DEF TypeInv
<1> QED
  BY <1>1, LoopTypeInvariant, PTL

-----------------------------------------------------------------------------
(* Text: what the caller has received of the run so far is what this       *)
(* response has streamed, and nothing between two requests.                *)

TextInv ==
  /\ phase \in {"iterating", "calling"} => streamed = <<>>
  /\ phase = "streaming" => streamed = parts

LEMMA TextInvNext == TextInv /\ [Next]_vars => TextInv'
<1> SUFFICES ASSUME TextInv, [Next]_vars PROVE TextInv'
  OBVIOUS
<1> USE DEF TextInv
<1>1. CASE Request
  BY <1>1 DEF Request, Opened, callerVars
<1>2. CASE TextChunk
  BY <1>2 DEF TextChunk, TextDelta, Reading, ProviderError
<1>3. CASE OtherText
  BY <1>3 DEF OtherText, TextDelta, Other
<1>4. CASE CallsTool
  BY <1>4 DEF CallsTool, Ended, callerVars
<1>5. CASE Execute
  BY <1>5 DEF Execute, callerVars
<1>6. CASE LastChunk
  BY <1>6 DEF LastChunk, Reading, Respond, ProviderError, callerVars
<1>7. CASE OtherResponse
  BY <1>7 DEF OtherResponse, Other, Respond, callerVars
<1>8. CASE \E id \in {<<>>} \cup {<<i>> : i \in Ids},
              name \in {<<>>} \cup {<<n>> : n \in Names} : CallChunk(id, name)
  BY <1>8 DEF CallChunk, Reading, ProviderError, agentVars, callerVars
<1>9. CASE BlankChunk \/ Over \/ UNCHANGED vars
  BY <1>9 DEF BlankChunk, Over, vars, agentVars, callerVars
<1>10. CASE IterationLimit \/ BadChunk \/ OtherFails \/ FinalAnswer
              \/ InvalidResponse \/ Cancel
  BY <1>10 DEF IterationLimit, BadChunk, ProviderError, OtherFails, FinalAnswer,
               InvalidResponse, Cancel
<1> QED
  BY <1>1, <1>2, <1>3, <1>4, <1>5, <1>6, <1>7, <1>8, <1>9, <1>10 DEF Next

LEMMA ReceivedSoFar == Spec => []TextInv
<1>1. Init => TextInv
  BY DEF Init, TextInv
<1> QED
  BY <1>1, TextInvNext, PTL DEF Spec

-----------------------------------------------------------------------------
(* Every step of the loop is a step of AnswerStream or stutters there.     *)

LEMMA StepsAreStreamSteps ==
  TextInv /\ [Next]_vars =>
    AnswerStreamOfRun!Next \/ UNCHANGED <<streamed, answer, phase \in Ends>>
<1> SUFFICES ASSUME TextInv, [Next]_vars
    PROVE AnswerStreamOfRun!Next \/ UNCHANGED <<streamed, answer, phase \in Ends>>
  OBVIOUS
<1> USE DEF AnswerStreamOfRun!Next, AnswerStreamOfRun!Stream,
            AnswerStreamOfRun!Answer, AnswerStreamOfRun!GiveUp, Ends, Failures
<1>1. CASE Request
  BY <1>1 DEF Request, Opened, callerVars
<1>2. CASE TextChunk
  BY <1>2 DEF TextChunk, TextDelta, Reading, ProviderError, callerVars
<1>3. CASE OtherText
  BY <1>3 DEF OtherText, TextDelta, Other
<1>4. CASE CallsTool
  BY <1>4 DEF CallsTool, Ended, callerVars
<1>5. CASE Execute
  BY <1>5 DEF Execute, callerVars
<1>6. CASE LastChunk
  BY <1>6 DEF LastChunk, Reading, Respond, ProviderError, callerVars
<1>7. CASE OtherResponse
  BY <1>7 DEF OtherResponse, Other, Respond, callerVars
<1>8. CASE \E id \in {<<>>} \cup {<<i>> : i \in Ids},
              name \in {<<>>} \cup {<<n>> : n \in Names} : CallChunk(id, name)
  BY <1>8 DEF CallChunk, Reading, ProviderError, agentVars, callerVars
<1>9. CASE BlankChunk \/ Over \/ UNCHANGED vars
  BY <1>9 DEF BlankChunk, Over, vars, agentVars, callerVars
<1>10. CASE FinalAnswer
  BY <1>10 DEF FinalAnswer, Ended, TextInv
<1>11. CASE IterationLimit \/ BadChunk \/ OtherFails \/ InvalidResponse
              \/ Cancel
  BY <1>11 DEF IterationLimit, BadChunk, Reading, ProviderError, OtherFails,
               Other, InvalidResponse, Ended, Cancel, callerVars
<1> QED
  BY <1>1, <1>2, <1>3, <1>4, <1>5, <1>6, <1>7, <1>8, <1>9, <1>10, <1>11 DEF Next

(* The agent implements AnswerStream, whatever its provider yields and     *)
(* wherever it is cancelled: the answer that is saved is the text that was *)
(* streamed.                                                               *)
THEOREM AgentKeepsItsPromise == Spec => ImplementsAnswerStream
<1>1. Init => AnswerStreamOfRun!Init
  BY DEF Init, AnswerStreamOfRun!Init, Ends, Failures
<1>2. TextInv /\ [Next]_vars =>
        [AnswerStreamOfRun!Next]_<<streamed, answer,
                                   IF phase \in Ends THEN "yes" ELSE "no">>
  BY StepsAreStreamSteps
<1> QED
  BY <1>1, <1>2, ReceivedSoFar, PTL
     DEF Spec, ImplementsAnswerStream, AnswerStreamOfRun!Spec

-----------------------------------------------------------------------------
(* LiteLLMProvider and the agent.  While the provider reads, the agent's   *)
(* text is its own; the response it ends with is all text or one call.     *)

ProviderInv ==
  /\ provider = "litellm" => phase # "invalid_response"
  /\ provider = "litellm" /\ phase = "streaming" =>
       /\ parts = content
       /\ pieces # None => content = <<>>
       /\ response # None =>
            \/ response = [content |-> content, calls |-> <<>>]
            \/ /\ response = [content |-> None, calls |-> <<pieces>>]
               /\ pieces # None

LEMMA NoneIsNoResponse == None \notin Responses
BY DEF Responses, Calls

LEMMA TextIsFinal ==
  ASSUME NEW text \in Seq(Fragments)
  PROVE  ResultType([content |-> text, calls |-> <<>>]) = "final"
<1>1. text # None
  OBVIOUS
<1>2. [content |-> text, calls |-> <<>>] \in Responses
  BY EmptySeq DEF Responses
<1> QED
  BY <1>1, <1>2, NoneIsNoResponse DEF ResultType

LEMMA CallIsToolCall ==
  ASSUME NEW call \in Calls
  PROVE  ResultType([content |-> None, calls |-> <<call>>]) = "tool_call"
<1>1. [content |-> None, calls |-> <<call>>] \in Responses
  BY SingletonIsSequence DEF Responses
<1> QED
  BY <1>1, NoneIsNoResponse DEF ResultType

LEMMA ProviderInvNext ==
  TypeInv /\ ProviderInv /\ [Next]_vars => ProviderInv'
<1> SUFFICES ASSUME TypeInv, ProviderInv, [Next]_vars, provider = "litellm"
             PROVE  ProviderInv'
  <2>1. [Next]_vars => provider' = provider
    BY DEF Next, Request, Opened, IterationLimit, BlankChunk, TextChunk,
       BadChunk, LastChunk, CallChunk, OtherText, OtherResponse, OtherFails,
       FinalAnswer, CallsTool, InvalidResponse, Execute, Cancel, Over, vars
  <2> QED
    BY <2>1 DEF ProviderInv
<1> USE DEF ProviderInv
<1>1. CASE Request
  BY <1>1 DEF Request, Opened
<1>2. CASE TextChunk
  BY <1>2 DEF TextChunk, TextDelta, Reading, ProviderError
<1>3. CASE LastChunk
  BY <1>3 DEF LastChunk, Reading, Respond, ProviderError, providerVars
<1>4. CASE \E id \in {<<>>} \cup {<<i>> : i \in Ids},
              name \in {<<>>} \cup {<<n>> : n \in Names} : CallChunk(id, name)
  BY <1>4 DEF CallChunk, Reading, ProviderError, agentVars
<1>5. CASE FinalAnswer \/ CallsTool \/ InvalidResponse
  <2>1. content \in Seq(Fragments) /\ pieces \in Calls \cup {None}
    BY DEF TypeInv, TypeOK
  <2>2. phase = "streaming" /\ response # None
    BY <1>5 DEF FinalAnswer, CallsTool, InvalidResponse, Ended
  <2>3. ResultType([content |-> content, calls |-> <<>>]) = "final"
    BY <2>1, TextIsFinal
  <2>4. pieces # None =>
          ResultType([content |-> None, calls |-> <<pieces>>]) = "tool_call"
    BY <2>1, CallIsToolCall
  <2>5. CASE response = [content |-> content, calls |-> <<>>]
    <3>1. ResultType(response) = "final" /\ response.content = content
      BY <2>3, <2>5
    <3>2. phase' # "streaming" /\ phase' # "invalid_response"
      BY <1>5, <2>2, <3>1 DEF FinalAnswer, CallsTool, InvalidResponse
    <3> QED
      BY <3>2
  <2>6. CASE pieces # None
              /\ response = [content |-> None, calls |-> <<pieces>>]
    <3>1. ResultType(response) = "tool_call" /\ parts = <<>>
      BY <2>2, <2>4, <2>6
    <3>2. phase' # "streaming" /\ phase' # "invalid_response"
      BY <1>5, <3>1 DEF FinalAnswer, CallsTool, InvalidResponse
    <3> QED
      BY <3>2
  <2> QED
    BY <2>2, <2>5, <2>6
<1>6. CASE OtherText \/ OtherResponse \/ OtherFails
  BY <1>6 DEF OtherText, OtherResponse, OtherFails, Other
<1>7. CASE BlankChunk \/ Over \/ UNCHANGED vars
  BY <1>7 DEF BlankChunk, Over, vars, agentVars, providerVars
<1>8. CASE IterationLimit \/ BadChunk \/ Execute \/ Cancel
  BY <1>8 DEF IterationLimit, BadChunk, ProviderError, Execute, Cancel
<1> QED
  BY <1>1, <1>2, <1>3, <1>4, <1>5, <1>6, <1>7, <1>8 DEF Next

-----------------------------------------------------------------------------
(* The context.  It is one invariant with the length it has in each phase, *)
(* and with the call that still has no result while its tool runs.         *)

(* The k-th call of a context and its result.                              *)
CallAnswered(ctx, k) ==
  LET call == ctx[Len(asked) + 2 * k + 1]
      result == ctx[Len(asked) + 2 * k + 2]
  IN  /\ call = CallMessage(call.call) /\ call.call # None
      /\ result.role = "tool" /\ result.call = call.call
      /\ result.result \in Outcomes(call.call)

ContextInv ==
  /\ Len(context) >= Len(asked)
  /\ \A i \in 1..Len(asked) : context[i] = asked[i]
  /\ \A k \in Nat :
       Len(asked) + 2 * k + 2 <= Len(context) => CallAnswered(context, k)
  /\ phase = "iterating" => Len(context) = Len(asked) + 2 * iteration
  /\ phase = "streaming" => Len(context) = Len(asked) + 2 * (iteration - 1)
  /\ phase = "calling" =>
       /\ Len(context) = Len(asked) + 2 * iteration - 1
       /\ context[Len(context)] = CallMessage(response.calls[1])

MappableInv ==
  /\ phase # "message_error"
  /\ context \in Seq(Mappable)

LEMMA MappableInvNext ==
  TypeInv /\ MappableInv /\ [Next]_vars => MappableInv'
<1> SUFFICES ASSUME TypeInv, MappableInv, [Next]_vars PROVE MappableInv'
  OBVIOUS
<1> USE DEF MappableInv
<1>1. Mappable' = Mappable
  BY DEF Mappable, Unmappable
<1>2. CASE Request
  <2>1. \A i \in 1..Len(context) : ~Unmappable(context[i])
    BY ElementOfSeq DEF Mappable
  <2> QED
    BY <1>1, <1>2, <2>1 DEF Request, Opened, Refused
<1>3. CASE CallsTool
  <2>1. response.calls[1] \in Calls
    BY <1>3 DEF CallsTool, ResultType, Responses, TypeInv, TypeOK
  <2>2. CallMessage(response.calls[1]) \in Mappable
    BY <2>1 DEF CallMessage, Mappable, Unmappable, Messages, Roles
  <2>3. Append(context, CallMessage(response.calls[1])) \in Seq(Mappable)
    BY <2>2, AppendKeepsType
  <2> QED
    BY <1>1, <1>3, <2>3 DEF CallsTool
<1>4. CASE Execute
  <2>1. PICK result \in Outcomes(response.calls[1]) :
          context' = Append(context, ResultMessage(response.calls[1], result))
    BY <1>4 DEF Execute
  <2>2. response.calls[1] \in Calls
    BY <1>4 DEF Execute, ResultType, Responses, TypeInv, TypeOK
  <2>3. response.calls[1] # None
    BY <2>2 DEF Calls
  <2>4. result \in Results
    BY <2>1 DEF Outcomes, Results
  <2>5. ResultMessage(response.calls[1], result) \in Mappable
    BY <2>2, <2>3, <2>4
    DEF ResultMessage, Mappable, Unmappable, Messages, Roles, Results
  <2>6. Append(context, ResultMessage(response.calls[1], result))
          \in Seq(Mappable)
    BY <2>5, AppendKeepsType
  <2> QED
    BY <1>1, <1>4, <2>1, <2>6 DEF Execute
<1>5. CASE ~(Request \/ CallsTool \/ Execute)
  <2>1. UNCHANGED context /\ (phase' = phase \/ phase' # "message_error")
    BY <1>5 DEF Next, IterationLimit, BlankChunk, TextChunk, TextDelta,
       BadChunk, ProviderError, LastChunk, Respond, CallChunk, OtherText,
       OtherResponse, OtherFails, FinalAnswer, InvalidResponse, Cancel, Over,
       vars, agentVars
  <2> QED
    BY <1>1, <2>1
<1> QED
  BY <1>2, <1>3, <1>4, <1>5

(* The agent never rejects a response LiteLLMProvider accepted, and the    *)
(* provider never rejects a message the agent built.                       *)
THEOREM AgentAndProviderFit == Spec => []NeitherBlamesTheOther
<1>1. Init => ProviderInv /\ MappableInv
  BY AskedIsMappable DEF Init, ProviderInv, MappableInv
<1>2. ProviderInv /\ MappableInv => NeitherBlamesTheOther
  BY DEF ProviderInv, MappableInv, NeitherBlamesTheOther
<1> QED
  BY <1>1, <1>2, ProviderInvNext, MappableInvNext, LoopTypeInvariant, PTL
     DEF Spec

LEMMA ContextInvNext == TypeInv /\ ContextInv /\ [Next]_vars => ContextInv'
<1> SUFFICES ASSUME TypeInv, ContextInv, [Next]_vars PROVE ContextInv'
  OBVIOUS
<1>1. /\ asked \in Seq(Messages) /\ context \in Seq(Messages)
      /\ iteration \in 0..MaxIterations
      /\ Len(asked) \in Nat /\ Len(context) \in Nat
  BY LenProperties DEF TypeInv, TypeOK
<1>2. asked' = asked
  BY DEF Next, Request, IterationLimit, BlankChunk, TextChunk, BadChunk,
     LastChunk, CallChunk, OtherText, OtherResponse, OtherFails, FinalAnswer,
     CallsTool, InvalidResponse, Execute, Cancel, Over, vars
<1>3. CASE CallsTool
  <2> DEFINE message == CallMessage(response.calls[1])
  <2>1. CASE parts = <<>>
    <3>1. /\ context' = Append(context, message) /\ phase = "streaming"
          /\ phase' = "calling" /\ UNCHANGED <<iteration, response>>
      BY <1>3, <2>1 DEF CallsTool, Ended
    <3>2. message \in Messages
      BY <1>3
      DEF CallsTool, ResultType, Responses, TypeInv, TypeOK, CallMessage,
          Messages, Roles
    <3>3. /\ Len(context') = Len(context) + 1
          /\ \A i \in 1..Len(context) : context'[i] = context[i]
          /\ context'[Len(context')] = message
      <4> HIDE DEF message
      <4> QED
        BY <1>1, <3>1, <3>2, AppendProperties
    <3>4. Len(context) = Len(asked) + 2 * (iteration - 1)
      BY <3>1 DEF ContextInv
    <3> HIDE DEF message
    <3>5. \A k \in Nat : Len(asked) + 2 * k + 2 <= Len(context') =>
            CallAnswered(context', k)
      <4> TAKE k \in Nat
      <4> HAVE Len(asked) + 2 * k + 2 <= Len(context')
      <4>1. Len(asked) + 2 * k + 2 <= Len(context)
        BY <1>1, <3>3, <3>4, SMTT(40)
      <4>2. /\ Len(asked) + 2 * k + 1 \in 1..Len(context)
            /\ Len(asked) + 2 * k + 2 \in 1..Len(context)
        BY <1>1, <4>1
      <4> QED
        BY <3>3, <4>1, <4>2 DEF ContextInv, CallAnswered
    <3>6. Len(context') = Len(asked) + 2 * iteration - 1
      BY <1>1, <3>3, <3>4
    <3>7. \A i \in 1..Len(asked) : context'[i] = asked[i]
      BY <1>1, <3>3 DEF ContextInv
    <3>8. context'[Len(context')] = CallMessage(response'.calls[1])
      BY <3>1, <3>3 DEF message
    <3>9. \A k \in Nat : Len(asked') + 2 * k + 2 <= Len(context') =>
            CallAnswered(context, k)'
      BY <1>2, <3>5 DEF CallAnswered
    <3>10. Len(context') >= Len(asked')
      BY <1>1, <1>2, <3>3 DEF ContextInv
    <3> QED
      BY <1>1, <1>2, <3>1, <3>6, <3>7, <3>8, <3>9, <3>10 DEF ContextInv
  <2>2. CASE parts # <<>>
    BY <1>2, <1>3, <2>2 DEF CallsTool, ContextInv, CallAnswered
  <2> QED
    BY <2>1, <2>2
<1>4. CASE Execute
  <2> DEFINE call == response.calls[1]
  <2>1. PICK result \in Outcomes(call) :
          context' = Append(context, ResultMessage(call, result))
    BY <1>4 DEF Execute
  <2>2. call \in Calls
    BY <1>4 DEF Execute, ResultType, Responses, TypeInv, TypeOK
  <2> HIDE DEF call
  <2>3. call # None
    BY <2>2 DEF Calls
  <2>4. ResultMessage(call, result) \in Messages
    BY <2>1, <2>2 DEF ResultMessage, Messages, Roles, Outcomes, Results
  <2>5. /\ Len(context') = Len(context) + 1
        /\ \A i \in 1..Len(context) : context'[i] = context[i]
        /\ context'[Len(context')] = ResultMessage(call, result)
    BY <1>1, <2>1, <2>4, AppendProperties
  <2>6. /\ Len(context) = Len(asked) + 2 * iteration - 1
        /\ context[Len(context)] = CallMessage(call)
    BY <1>4 DEF Execute, ContextInv, call
  <2>7. \A k \in Nat : Len(asked) + 2 * k + 2 <= Len(context') =>
          CallAnswered(context', k)
    <3> TAKE k \in Nat
    <3> HAVE Len(asked) + 2 * k + 2 <= Len(context')
    <3>1. CASE k < iteration - 1
      <4>1. /\ Len(asked) + 2 * k + 2 <= Len(context)
            /\ Len(asked) + 2 * k + 1 \in 1..Len(context)
            /\ Len(asked) + 2 * k + 2 \in 1..Len(context)
        BY <1>1, <2>6, <3>1, SMTT(40)
      <4> QED
        BY <2>5, <4>1 DEF ContextInv, CallAnswered
    <3>2. CASE k = iteration - 1
      <4>1. /\ Len(asked) + 2 * k + 1 = Len(context)
            /\ Len(asked) + 2 * k + 2 = Len(context')
            /\ Len(context) \in 1..Len(context)
        BY <1>1, <2>5, <2>6, <3>2, SMTT(40)
      <4>2. /\ context'[Len(asked) + 2 * k + 1] = CallMessage(call)
            /\ context'[Len(asked) + 2 * k + 2] = ResultMessage(call, result)
        BY <2>5, <2>6, <4>1
      <4> QED
        BY SMTT(40), <2>1, <2>3, <4>2 DEF CallAnswered, CallMessage, ResultMessage
    <3> QED
      BY <1>1, <2>5, <2>6, <3>1, <3>2, SMTT(40)
  <2>8. Len(context') = Len(asked) + 2 * iteration
    BY <1>1, <2>5, <2>6
  <2>9. \A i \in 1..Len(asked) : context'[i] = asked[i]
    BY <1>1, <2>5 DEF ContextInv
  <2>10. phase' = "iterating" /\ UNCHANGED iteration
    BY <1>4 DEF Execute
  <2> QED
    BY <1>1, <1>2, <2>7, <2>8, <2>9, <2>10 DEF ContextInv, CallAnswered
<1>5. CASE Request
  <2>1. /\ phase = "iterating" /\ UNCHANGED context
        /\ iteration' = iteration + 1
        /\ phase' \in {"streaming", "provider_error", "message_error"}
    BY <1>5 DEF Request, Opened
  <2> QED
    BY <1>1, <1>2, <2>1 DEF ContextInv, CallAnswered
<1>6. CASE ~(Request \/ CallsTool \/ Execute)
  <2>1. /\ UNCHANGED <<context, iteration>>
        /\ \/ phase' = phase /\ (phase = "calling" => UNCHANGED response)
           \/ phase' \in Ends
    BY <1>6 DEF Next, IterationLimit, BlankChunk, TextChunk, TextDelta,
       BadChunk, Reading, ProviderError, LastChunk, Respond, CallChunk,
       OtherText, OtherResponse, Other, OtherFails, FinalAnswer,
       InvalidResponse, Cancel, Over, Ends, Failures, vars, agentVars
  <2> QED
    BY <1>2, <2>1 DEF ContextInv, CallAnswered, Ends, Failures
<1> QED
  BY <1>3, <1>4, <1>5, <1>6

(* Every call of the model is followed in the context by its own result,   *)
(* in the order of the calls, after the messages of the request.           *)
THEOREM EveryCallIsAnswered == Spec => []CallsAnswered
<1>1. Init => ContextInv
  <2> SUFFICES ASSUME Init PROVE ContextInv
    OBVIOUS
  <2>1. asked \in Seq(Messages)
    BY AskedIsMappable, MappableAreMessages
  <2>2. Len(asked) \in Nat
    BY <2>1, LenProperties
  <2> QED
    BY <2>2 DEF Init, ContextInv
<1>2. TypeInv /\ ContextInv => CallsAnswered
  <2> SUFFICES ASSUME TypeInv, ContextInv PROVE CallsAnswered
    OBVIOUS
  <2>1. Len(asked) \in Nat /\ Len(context) \in Nat
    BY LenProperties DEF TypeInv, TypeOK
  <2>2. ASSUME NEW k \in 0..Called - 1 PROVE CallAnswered(context, k)
    <3>1. Called \in Int /\ 2 * Called <= Len(context) - Len(asked)
      BY <2>1 DEF Called
    <3>2. k \in Nat /\ Len(asked) + 2 * k + 2 <= Len(context)
      BY <2>1, <3>1
    <3> QED
      BY <3>2 DEF ContextInv
  <2> QED
    BY <2>2 DEF ContextInv, CallsAnswered, CallAnswered
<1> QED
  BY <1>1, <1>2, ContextInvNext, LoopTypeInvariant, PTL DEF Spec
=============================================================================
