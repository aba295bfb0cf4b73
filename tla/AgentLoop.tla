----------------------------- MODULE AgentLoop -------------------------------
(***************************************************************************)
(* One run of the agent: agent/runtime.py, the tool registry of            *)
(* agent/tools.py and the stream of the LLM provider.                      *)
(*                                                                         *)
(* Two kinds of provider are modelled.  "litellm" is                       *)
(* agent/providers/litellm.py, chunk by chunk.  "other" is any             *)
(* implementation of the LLMProvider interface (the fake provider and the  *)
(* ones of the tests are such), which may yield events in any order: the   *)
(* agent's checks are against those.                                       *)
(*                                                                         *)
(* The agent and its provider are generators driven by the consumer, so a  *)
(* step is one chunk or event through both.  A text is a sequence of       *)
(* fragments, "".join of chunks their concatenation; the arguments of a    *)
(* call are left out, whether they parse and validate is a choice.         *)
(***************************************************************************)
EXTENDS Integers, Sequences

CONSTANTS
  Fragments,      (* pieces of text                                        *)
  Ids, Names,     (* pieces of a call's identifier and of its name         *)
  Tools,          (* names of the registered tools                         *)
  None,           (* Python's None                                         *)
  MaxIterations,  (* AgentConfig.max_iterations                            *)
  MaxPairs,       (* bound: answered requests in the history               *)
  MaxText         (* bound: pieces of a text                               *)

ASSUME LoopAssumption ==
  /\ MaxIterations \in Nat \ {0}
  /\ MaxPairs \in Nat
  /\ MaxText \in Nat
  /\ Tools \subseteq Seq(Names)
  /\ None \notin Seq(Fragments)
  /\ None \notin [id : Seq(Ids), name : Seq(Names)]
  /\ None \notin [content : Seq(Fragments) \cup {None},
                  calls : Seq([id : Seq(Ids), name : Seq(Names)])]

VARIABLES
  provider,   (* which implementation of LLMProvider                       *)
  asked,      (* the context before the first request                      *)
  (* The agent                                                             *)
  phase,      (* where run() stands, or how it ended                       *)
  iteration,
  context,    (* messages of the next request                              *)
  parts,      (* content_parts: text of this response                      *)
  response,   (* llm_response                                              *)
  (* LiteLLMProvider.stream                                                *)
  content,    (* its content_parts                                         *)
  pieces,     (* tool_call_parts[0], or None                               *)
  choice,     (* saw_choice                                                *)
  (* What the caller of run() got                                          *)
  streamed,   (* the AgentTextDelta of the whole run                       *)
  answer      (* the AgentResponse, or None                                *)

agentVars == <<phase, iteration, context, parts, response>>
providerVars == <<content, pieces, choice>>
callerVars == <<streamed, answer>>
vars == <<provider, asked, agentVars, providerVars, callerVars>>

Calls == [id : Seq(Ids), name : Seq(Names)]
Responses == [content : Seq(Fragments) \cup {None}, calls : Seq(Calls)]
Results == {"ok", "tool_not_found", "invalid_arguments",
            "tool_execution_failed"}
Roles == {"system", "user", "assistant", "tool"}

(* A message with what the provider maps it by: the call of an assistant   *)
(* message, the call a tool message answers and its result.                *)
Messages == [role : Roles, call : Calls \cup {None},
             result : Results \cup {"none"}]
Plain(role) == [role |-> role, call |-> None, result |-> "none"]
CallMessage(call) == [role |-> "assistant", call |-> call, result |-> "none"]
ResultMessage(call, result) ==
  [role |-> "tool", call |-> call, result |-> result]

Failures == {"invalid_response", "iteration_limit", "provider_error",
             "message_error"}
Ends == {"answered", "cancelled"} \cup Failures
Phases == {"iterating", "streaming", "calling"} \cup Ends

TypeOK ==
  /\ provider \in {"litellm", "other"}
  /\ asked \in Seq(Messages)
  /\ phase \in Phases
  /\ iteration \in 0..MaxIterations
  /\ context \in Seq(Messages)
  /\ parts \in Seq(Fragments)
  /\ response \in Responses \cup {None}
  /\ content \in Seq(Fragments)
  /\ pieces \in Calls \cup {None}
  /\ choice \in {"seen", "unseen"}
  /\ streamed \in Seq(Fragments)
  /\ answer \in Seq(Fragments) \cup {None}

(* The history holds whole pairs: append() saves a request with its answer.*)
Pairs(n) == [i \in 1..2 * n |-> Plain(IF i % 2 = 1 THEN "user"
                                                   ELSE "assistant")]

(* _length_instruction: a second system message, or nothing.               *)
LengthInstructions == {<<>>, <<Plain("system")>>}

Init ==
  /\ provider \in {"litellm", "other"}
  /\ \E length \in LengthInstructions, n \in 0..MaxPairs :
       asked = <<Plain("system")>> \o length \o Pairs(n) \o <<Plain("user")>>
  /\ context = asked
  /\ phase = "iterating"
  /\ iteration = 0
  /\ parts = <<>> /\ response = None
  /\ content = <<>> /\ pieces = None /\ choice = "unseen"
  /\ streamed = <<>> /\ answer = None

-----------------------------------------------------------------------------
(* Requests.                                                               *)

(* _map_message refuses a tool message that lacks what it answers.         *)
Unmappable(message) ==
  message.role = "tool" /\ (message.call = None \/ message.result = "none")

Refused ==
  provider = "litellm" /\ \E i \in 1..Len(context) : Unmappable(context[i])

(* acompletion may fail, after its retries.                                *)
Opened ==
  \/ Refused /\ phase' = "message_error"
  \/ ~Refused /\ phase' \in {"streaming", "provider_error"}

RequestAgain ==                    (* mutant: range counts from 0 to the limit  *)
  /\ phase = "iterating" /\ iteration <= MaxIterations
  /\ iteration' = iteration + 1
  /\ parts' = <<>> /\ response' = None
  /\ content' = <<>> /\ pieces' = None /\ choice' = "unseen"
  /\ Opened
  /\ UNCHANGED <<provider, asked, context, callerVars>>

Request ==
  /\ phase = "iterating" /\ iteration < MaxIterations
  /\ iteration' = iteration + 1
  /\ parts' = <<>> /\ response' = None
  /\ content' = <<>> /\ pieces' = None /\ choice' = "unseen"
  /\ Opened
  /\ UNCHANGED <<provider, asked, context, callerVars>>

IterationLimit ==
  /\ phase = "iterating" /\ iteration = MaxIterations
  /\ phase' = "iteration_limit"
  /\ UNCHANGED <<provider, asked, iteration, context, parts, response,
                 providerVars, callerVars>>

-----------------------------------------------------------------------------
(* What the agent does with an event of its provider.                      *)

TextDelta(f) ==
  \/ /\ response = None
     /\ parts' = Append(parts, f)
     /\ streamed' = Append(streamed, f)
     /\ UNCHANGED phase
  \/ /\ response # None
     /\ phase' = "invalid_response"
     /\ UNCHANGED <<parts, streamed>>

Respond(r) ==
  \/ /\ response = None
     /\ response' = r
     /\ UNCHANGED phase
  \/ /\ response # None
     /\ phase' = "invalid_response"
     /\ UNCHANGED response

-----------------------------------------------------------------------------
(* LiteLLMProvider.stream.  It yields its response last, so no chunk       *)
(* follows one.                                                            *)

Reading == phase = "streaming" /\ provider = "litellm" /\ response = None

ProviderError ==
  /\ phase' = "provider_error"
  /\ UNCHANGED <<iteration, context, parts, response, providerVars, callerVars>>

(* A chunk without choices changes nothing; one with a choice but neither  *)
(* text nor a call only sets saw_choice.                                   *)
BlankChunk ==
  /\ Reading
  /\ choice' = "seen"
  /\ UNCHANGED <<provider, asked, agentVars, content, pieces, callerVars>>

TextChunk ==
  /\ Reading /\ Len(content) < MaxText
  /\ \/ /\ pieces = None
        /\ choice' = "seen"
        /\ \E f \in Fragments :
             content' = Append(content, f) /\ TextDelta(f)
        /\ UNCHANGED <<iteration, context, response, pieces, answer>>
     \/ pieces # None /\ ProviderError
  /\ UNCHANGED <<provider, asked>>

NoPieces == [id |-> <<>>, name |-> <<>>]

CallChunkAfterText(id, name) ==       (* mutant: the first chunks may be text  *)
  /\ Reading
  /\ choice' = "seen"
  /\ LET old == IF pieces = None THEN NoPieces ELSE pieces
     IN  /\ Len(old.id \o id) <= MaxText
         /\ Len(old.name \o name) <= MaxText
         /\ pieces' = [id |-> old.id \o id, name |-> old.name \o name]
  /\ UNCHANGED <<provider, asked, agentVars, content, callerVars>>

CallChunk(id, name) ==
  /\ Reading
  /\ \/ /\ content = <<>>
        /\ choice' = "seen"
        /\ LET old == IF pieces = None THEN NoPieces ELSE pieces
           IN  /\ Len(old.id \o id) <= MaxText
               /\ Len(old.name \o name) <= MaxText
               /\ pieces' = [id |-> old.id \o id, name |-> old.name \o name]
        /\ UNCHANGED <<agentVars, content, callerVars>>
     \/ content # <<>> /\ ProviderError
  /\ UNCHANGED <<provider, asked>>

(* Several choices, text that is not text, text and a call in one chunk,   *)
(* a second call, or a connection that breaks or times out.                *)
BadChunk ==
  /\ Reading /\ ProviderError
  /\ UNCHANGED <<provider, asked>>

(* ToolCall needs an id and a name, and its arguments an object.           *)
Incomplete == pieces # None /\ (pieces.id = <<>> \/ pieces.name = <<>>)

LastChunk ==
  /\ Reading
  /\ \/ /\ choice = "seen" /\ pieces = None
        /\ Respond([content |-> content, calls |-> <<>>])
        /\ UNCHANGED <<iteration, context, parts, providerVars, callerVars>>
     \/ /\ pieces # None /\ ~Incomplete
        /\ Respond([content |-> None, calls |-> <<pieces>>])
        /\ UNCHANGED <<iteration, context, parts, providerVars, callerVars>>
     \/ choice = "unseen" /\ ProviderError
     \/ pieces # None /\ ProviderError    (* arguments, or Incomplete      *)
  /\ UNCHANGED <<provider, asked>>

-----------------------------------------------------------------------------
(* Any other provider.                                                     *)

Texts(S) == UNION {[1..n -> S] : n \in 0..MaxText}
SomeCalls == [id : Texts(Ids) \ {<<>>}, name : Texts(Names) \ {<<>>}]
SomeResponses ==
  [content : Texts(Fragments) \cup {None},
   calls : UNION {[1..n -> SomeCalls] : n \in 0..2}]

Other == phase = "streaming" /\ provider = "other"

OtherText ==
  /\ Other /\ Len(parts) < MaxText
  /\ \E f \in Fragments : TextDelta(f)
  /\ UNCHANGED <<provider, asked, iteration, context, response, providerVars,
                 answer>>

OtherResponse ==
  /\ Other
  /\ \E r \in SomeResponses : Respond(r)
  /\ UNCHANGED <<provider, asked, iteration, context, parts, providerVars,
                 callerVars>>

(* An event of another type, or any exception.                             *)
OtherFails ==
  /\ Other
  /\ phase' \in {"invalid_response", "provider_error"}
  /\ UNCHANGED <<provider, asked, iteration, context, parts, response,
                 providerVars, callerVars>>

-----------------------------------------------------------------------------
(* The end of a stream.                                                    *)

Ended == phase = "streaming" /\ (provider = "litellm" => response # None)

ResultType(r) ==
  CASE r # None /\ r.content # None /\ r.calls = <<>> -> "final"
    [] r # None /\ r.content = None /\ Len(r.calls) = 1 -> "tool_call"
    [] OTHER -> "invalid"

FinalAnswer ==
  /\ Ended /\ ResultType(response) = "final"
  /\ \/ /\ parts = response.content
        /\ answer' = response.content
        /\ phase' = "answered"
     \/ /\ parts # response.content
        /\ phase' = "invalid_response"
        /\ UNCHANGED answer
  /\ UNCHANGED <<provider, asked, iteration, context, parts, response,
                 providerVars, streamed>>

CallsToolAfterText ==                (* mutant: content_parts is not looked at *)
  /\ Ended /\ ResultType(response) = "tool_call"
  /\ context' = Append(context, CallMessage(response.calls[1]))
  /\ phase' = "calling"
  /\ UNCHANGED <<provider, asked, iteration, parts, response, providerVars,
                 callerVars>>

CallsTool ==
  /\ Ended /\ ResultType(response) = "tool_call"
  /\ \/ /\ parts = <<>>
        /\ context' = Append(context, CallMessage(response.calls[1]))
        /\ phase' = "calling"
     \/ /\ parts # <<>>
        /\ phase' = "invalid_response"
        /\ UNCHANGED context
  /\ UNCHANGED <<provider, asked, iteration, parts, response, providerVars,
                 callerVars>>

InvalidResponse ==
  /\ Ended /\ ResultType(response) = "invalid"
  /\ phase' = "invalid_response"
  /\ UNCHANGED <<provider, asked, iteration, context, parts, response,
                 providerVars, callerVars>>

(* ToolRegistry.execute: whatever happens in a tool is a result.           *)
Outcomes(call) ==
  IF call.name \in Tools
    THEN {"ok", "invalid_arguments", "tool_execution_failed"}
    ELSE {"tool_not_found"}

ExecuteFailureDropped ==           (* mutant: a failed tool leaves no result   *)
  /\ phase = "calling"
  /\ LET call == response.calls[1]
     IN  \E result \in Outcomes(call) :
           context' = IF result = "ok"
                        THEN Append(context, ResultMessage(call, result))
                        ELSE context
  /\ phase' = "iterating"
  /\ UNCHANGED <<provider, asked, iteration, parts, response, providerVars,
                 callerVars>>

Execute ==
  /\ phase = "calling"
  /\ LET call == response.calls[1]
     IN  \E result \in Outcomes(call) :
           context' = Append(context, ResultMessage(call, result))
  /\ phase' = "iterating"
  /\ UNCHANGED <<provider, asked, iteration, parts, response, providerVars,
                 callerVars>>

(* The run's task is cancelled while it waits: for the request, a chunk or *)
(* a tool.                                                                 *)
Cancel ==
  /\ \/ phase = "iterating" /\ iteration < MaxIterations
     \/ phase \in {"streaming", "calling"}
  /\ phase' = "cancelled"
  /\ UNCHANGED <<provider, asked, iteration, context, parts, response,
                 providerVars, callerVars>>

Over == phase \in Ends /\ UNCHANGED vars

Next ==
  \/ Request \/ IterationLimit
  \/ BlankChunk \/ TextChunk \/ BadChunk \/ LastChunk
  \/ \E id \in {<<>>} \cup {<<i>> : i \in Ids},
        name \in {<<>>} \cup {<<n>> : n \in Names} : CallChunk(id, name)
  \/ OtherText \/ OtherResponse \/ OtherFails
  \/ FinalAnswer \/ CallsTool \/ InvalidResponse
  \/ Execute \/ Cancel \/ Over

Spec == Init /\ [][Next]_vars

-----------------------------------------------------------------------------
(* Properties.                                                             *)

(* The calls in the context, in the order they were made.                  *)
Called == (Len(context) - Len(asked)) \div 2

(* Every request carries the messages it started from and then each call   *)
(* the model made, once, followed by the result of that very call; a name  *)
(* that is no tool, and only such a name, is answered tool_not_found.      *)
(* (run() appends to context around an await, in a loop over iterations.)  *)
CallsAnswered ==
  /\ Len(context) >= Len(asked)
  /\ \A i \in 1..Len(asked) : context[i] = asked[i]
  /\ \A k \in 0..Called - 1 :
       LET call == context[Len(asked) + 2 * k + 1]
           result == context[Len(asked) + 2 * k + 2]
       IN  /\ call = CallMessage(call.call) /\ call.call # None
           /\ result.role = "tool" /\ result.call = call.call
           /\ result.result \in Outcomes(call.call)
  /\ phase = "iterating" => Len(context) = Len(asked) + 2 * iteration
  /\ phase = "streaming" => Len(context) = Len(asked) + 2 * (iteration - 1)
  /\ phase = "calling" => Len(context) = Len(asked) + 2 * iteration - 1

(* Agent and LiteLLMProvider fit: the agent never rejects a response the   *)
(* provider accepted (what went wrong in a stream is an LLMProviderError), *)
(* and the provider never rejects a message the agent built.               *)
NeitherBlamesTheOther ==
  /\ provider = "litellm" => phase # "invalid_response"
  /\ phase # "message_error"

(* The run is an AnswerStream: the answer it yields, and the service       *)
(* saves, is the text streamed to the subscribers before it, with nothing  *)
(* of an earlier iteration and nothing left out.                           *)
AnswerStreamOfRun == INSTANCE AnswerStream WITH
  over <- IF phase \in Ends THEN "yes" ELSE "no"
ImplementsAnswerStream == AnswerStreamOfRun!Spec
=============================================================================
