------------------------- MODULE RconHandlerProofs --------------------------
(* Proofs about RconHandler, for every bound on the clock.                 *)
EXTENDS RconHandler, TLAPS

LEMMA RconTypeInit == Init => TypeOK
BY RconHandlerAssumption DEF Init, TypeOK, Request, NoRequest, PC, Answers, Never

\* Each step of the dialogue, as far as the types and the invariants below see.
LEMMA DialogueSteps ==
  ASSUME Dialogue
  PROVE  \/ RconInit \/ ConsoleCommand \/ Send \/ Stick
         \/ RconInitFails \/ RconAuthenticateFails
         \/ CustomCommand \/ SendFails \/ ReplyEmpty \/ ReplyArrives \/ Unstick
BY DEF Dialogue

LEMMA RconTypeNext == TypeOK /\ [Next]_vars => TypeOK'
<1> SUFFICES ASSUME TypeOK, [Next]_vars
             PROVE  TypeOK'
  OBVIOUS
<1> NoRequest \in Request
  BY DEF NoRequest, Request
<1> USE RconHandlerAssumption DEF TypeOK, PC, Answers, Never, limiter
<1>1. CASE UNCHANGED vars
  BY <1>1 DEF vars
<1>2. CASE RejectTooSoon
  BY <1>2 DEF RejectTooSoon
<1>3. ASSUME NEW r \in Request, Refuse(r)
      PROVE  TypeOK'
  BY <1>3 DEF Refuse, Pass, NextSecond
<1>4. ASSUME NEW r \in Request, Admit(r)
      PROVE  TypeOK'
  BY <1>4 DEF Admit, Pass, NextSecond
<1>5. CASE Dialogue
  <2>1. CASE RconInit \/ ConsoleCommand \/ Send \/ Stick
    BY <2>1 DEF RconInit, ConsoleCommand, Send, Stick, Proceed
  <2>2. CASE RconInitFails \/ RconAuthenticateFails
    BY <2>2 DEF RconInitFails, RconAuthenticateFails, FailAndBlock, BlockedUntil, Reply
  <2>3. CASE CustomCommand \/ SendFails \/ ReplyEmpty
    BY <2>3 DEF CustomCommand, SendFails, SendError, ReplyEmpty, Reply
  <2>4. CASE ReplyArrives \/ Unstick
    BY <2>4 DEF ReplyArrives, Unstick, SendError, Reply
  <2> QED
    BY <1>5, <2>1, <2>2, <2>3, <2>4, DialogueSteps
<1>6. CASE World
  BY <1>6 DEF World, Initialize, Execute, GoesDown, ComesUp, Tick
<1>7. CASE RunReturns
  BY <1>7 DEF RunReturns
<1>8. CASE BackendEnds
  BY <1>8 DEF BackendEnds
<1> QED
  BY <1>1, <1>2, <1>3, <1>4, <1>5, <1>6, <1>7, <1>8 DEF Next, Passes

\* Every variable stays in its range.
THEOREM RconTypeCorrect == Spec => []TypeOK
BY RconTypeInit, RconTypeNext, PTL DEF Spec
-----------------------------------------------------------------------------
(* What the limiter knows between two requests and during one, and how far *)
(* the command has come at each call.                                      *)

LimiterInv ==
  /\ pc = "idle" => nextMessageSendable >= lastPass + pause
  /\ pc # "idle" => curTime = lastPass /\ pause = 1 /\ nextMessageSendable = curTime + 1

CommandInv ==
  /\ pc \in {"init", "authenticate", "sendConsoleCommand"} => command = "none"
  /\ pc = "idle" /\ answer = "refused" => command = "none"
  /\ command = "sent" => pc = "reply" /\ server = "up"

RconInv == LimiterInv /\ CommandInv

LEMMA RconInvInit == Init => RconInv
BY DEF Init, RconInv, LimiterInv, CommandInv, Never

LEMMA RconInvNext == TypeOK /\ RconInv /\ [Next]_vars => RconInv'
<1> SUFFICES ASSUME TypeOK, RconInv, [Next]_vars
             PROVE  RconInv'
  OBVIOUS
<1> USE RconHandlerAssumption DEF TypeOK, RconInv, LimiterInv, CommandInv, Never, limiter
<1>1. CASE UNCHANGED vars
  BY <1>1 DEF vars
<1>2. CASE RejectTooSoon
  BY <1>2 DEF RejectTooSoon
<1>3. ASSUME NEW r \in Request, Refuse(r)
      PROVE  RconInv'
  BY <1>3 DEF Refuse, Pass, Ready, NextSecond
<1>4. ASSUME NEW r \in Request, Admit(r)
      PROVE  RconInv'
  BY <1>4 DEF Admit, Pass, Ready, NextSecond
<1>5. CASE Dialogue
  <2>1. CASE RconInit \/ ConsoleCommand \/ Send \/ Stick
    BY <2>1 DEF RconInit, ConsoleCommand, Authenticated, Send, Stick, Proceed
  <2>2. CASE RconInitFails \/ RconAuthenticateFails
    BY <2>2 DEF RconInitFails, RconAuthenticateFails, FailAndBlock, BlockedUntil, Reply
  <2>3. CASE CustomCommand \/ SendFails \/ ReplyEmpty
    BY <2>3 DEF CustomCommand, Authenticated, SendFails, SendError, ReplyEmpty, Reply
  <2>4. CASE ReplyArrives \/ Unstick
    BY <2>4 DEF ReplyArrives, Unstick, SendError, Reply
  <2> QED
    BY <1>5, <2>1, <2>2, <2>3, <2>4, DialogueSteps
<1>6. CASE World
  BY <1>6 DEF World, Initialize, Execute, GoesDown, ComesUp, Tick
<1>7. CASE RunReturns
  BY <1>7 DEF RunReturns
<1>8. CASE BackendEnds
  BY <1>8 DEF BackendEnds
<1> QED
  BY <1>1, <1>2, <1>3, <1>4, <1>5, <1>6, <1>7, <1>8 DEF Next, Passes

LEMMA RconInvariant == Spec => [](TypeOK /\ RconInv)
BY RconTypeInit, RconTypeNext, RconInvInit, RconInvNext, PTL DEF Spec

\* Requests that pass the limiter are one second apart, ten after a failure
\* of RCON, counted from arrival to arrival.
THEOREM LimiterPaces == Spec => Paced
<1>1. TypeOK /\ RconInv /\ [Next]_vars
        => [Passes => now >= lastPass + pause]_vars
  <2> SUFFICES ASSUME TypeOK, RconInv, Passes
               PROVE  now >= lastPass + pause
    OBVIOUS
  <2>1. pc = "idle" /\ ~TooSoon
    BY DEF Passes, Refuse, Admit, Pass, Ready
  <2> QED
    BY <2>1, RconHandlerAssumption DEF TooSoon, TypeOK, RconInv, LimiterInv, Never
<1> QED
  BY <1>1, RconInvariant, PTL DEF Spec, Paced

\* What was answered with an error from 1 to 9 was not executed.
THEOREM ErrorsMeanNotExecuted == Spec => []RefusedNotExecuted
<1>1. RconInv => RefusedNotExecuted
  BY DEF RconInv, CommandInv, RefusedNotExecuted
<1> QED
  BY <1>1, RconInvariant, PTL
=============================================================================
