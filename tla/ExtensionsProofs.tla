-------------------------- MODULE ExtensionsProofs --------------------------
(***************************************************************************)
(* Proofs about Extensions, for any extensions, configurations and size of *)
(* the shell's channel.                                                    *)
(***************************************************************************)
EXTENDS Extensions, TLAPS

USE ExtensionsAssumption

\* extensions_joined and the join that was sent go together, and only a join
\* that was sent has an answer.
JoinedOnce ==
  /\ joined \in BOOLEAN
  /\ joins = IF joined THEN 1 ELSE 0
  /\ ~joined => wanted = None

\* What is attached is what the configuration offers of what the platform
\* wanted in this session.
Granted ==
  /\ attached \subseteq offered
  /\ wanted = None => attached = {}
  /\ wanted # None => attached \subseteq wanted

Spoken == spoke \in attached \cup {Shell, None}

\* The inductive invariant.
IInv == TypeOK /\ JoinedOnce /\ Granted /\ Spoken /\ ShellNeedsConfig

LEMMA InitInv == Init => IInv
<1> SUFFICES ASSUME Init PROVE IInv
  OBVIOUS
<1>1. 0 \in 0..MaxOutput /\ 0 \in 0..MaxInput
  OBVIOUS
<1>2. offered \in SUBSET Keys
  BY DEF Init
<1>3. TypeOK
  BY <1>1 DEF Init, TypeOK
<1>4. JoinedOnce /\ Granted /\ Spoken /\ ShellNeedsConfig
  BY <1>2 DEF Init, JoinedOnce, Granted, Spoken, ShellNeedsConfig
<1> QED
  BY <1>3, <1>4 DEF IInv

\* The negotiation begins while it has not begun, and offers what it may.
LEMMA JoinKeeps ==
  ASSUME IInv, ~joined,
         NEW advertisement \in (SUBSET Keys) \cup {None},
         JoinExtensions(advertisement)
  PROVE  IInv'
<1>1. Payload(advertisement) \in SUBSET Keys
  BY DEF Payload, IInv, TypeOK
<1>2. joins' = 1 /\ joined' = TRUE /\ wanted' = None /\ spoke' = None
  BY DEF JoinExtensions, IInv, JoinedOnce
<1>3. /\ deadline' = FALSE /\ offer' \in SUBSET Keys
      /\ UNCHANGED <<offered, session, attached, shell, output, input, typing,
                     reads>>
  BY <1>1 DEF JoinExtensions, shells, tty
<1> QED
  BY <1>2, <1>3 DEF IInv, TypeOK, JoinedOnce, Granted, Spoken, ShellNeedsConfig

LEMMA NextInv == IInv /\ [Next]_vars => IInv'
<1> SUFFICES ASSUME IInv, [Next]_vars PROVE IInv'
  OBVIOUS
<1> USE DEF IInv, TypeOK, JoinedOnce, Granted, Spoken, ShellNeedsConfig, shells, tty
<1>1. CASE SessionStarts
  BY <1>1 DEF SessionStarts, NewLink
<1>2. CASE SessionEnds
  BY <1>2 DEF SessionEnds, NewLink
<1>3. CASE Joined
  <2>1. deadline' \in BOOLEAN
    BY <1>3 DEF Joined
  <2> QED
    BY <1>3, <2>1 DEF Joined, talk
<1>4. ASSUME NEW advertisement \in (SUBSET Keys) \cup {None},
             ExtensionsRequested(advertisement)
      PROVE  IInv'
  BY <1>4, JoinKeeps DEF ExtensionsRequested
<1>5. CASE DeadlinePasses
  BY <1>5, JoinKeeps DEF DeadlinePasses
<1>6. ASSUME NEW list \in SUBSET Keys, ExtensionsAttached(list)
      PROVE  IInv'
  <2>1. wanted' = list /\ attached' = list \cap offered /\ joined
    BY <1>6 DEF ExtensionsAttached, Attach
  <2>2. spoke' \in attached' \cup {Shell, None}
    BY <1>6 DEF ExtensionsAttached, Attach
  <2>3. UNCHANGED <<offered, session, deadline, joined, joins, offer, shell,
                    output, tty>>
    BY <1>6 DEF ExtensionsAttached, Attach
  <2>4. attached' \in SUBSET Keys /\ list # None
    BY <2>1
  <2>5. TypeOK'
    BY <2>1, <2>2, <2>3, <2>4
  <2>6. JoinedOnce'
    BY <2>1, <2>3
  <2>7. Granted' /\ Spoken' /\ ShellNeedsConfig'
    BY <2>1, <2>2, <2>3, <2>4
  <2> QED
    BY <2>5, <2>6, <2>7
<1>7. CASE ExtensionsRefused
  <2>1. wanted' = {} /\ attached = {} /\ joined /\ spoke' = None
    BY <1>7 DEF ExtensionsRefused
  <2> QED
    BY <1>7, <2>1 DEF ExtensionsRefused
<1>8. ASSUME NEW key \in Keys, Request(key)
      PROVE  IInv'
  BY <1>8 DEF Request, Handles, Serving, Say, talk
<1>9. CASE FlushLogs
  BY <1>9 DEF FlushLogs, Say, talk
<1>10. CASE ShellRequested
  BY <1>10 DEF ShellRequested, Handles, Serving, Say, talk
<1>11. CASE ShellWrites
  BY <1>11 DEF ShellWrites, Say, talk
<1>12. CASE ShellExits
  BY <1>12 DEF ShellExits, Say, talk
<1>13. CASE SendShellOutput
  BY <1>13 DEF SendShellOutput, Say, talk
<1>14. CASE ShellDropped
  BY <1>14 DEF ShellDropped, Say, talk
<1>15. CASE ShellInput
  BY <1>15 DEF ShellInput, Handles, Serving, Say, talk
<1>16. CASE InputTaken
  <2>1. typing' = FALSE /\ input' \in 0..MaxInput
    BY <1>16 DEF InputTaken
  <2> QED
    BY <1>16, <2>1 DEF InputTaken, Say, talk
<1>17. CASE ShellReads
  BY <1>17 DEF ShellReads, Say, talk
<1>18. CASE UNCHANGED vars
  BY <1>18 DEF vars, talk
<1> QED
  BY <1>1, <1>2, <1>3, <1>4, <1>5, <1>6, <1>7, <1>8, <1>9, <1>10, <1>11, <1>12,
     <1>13, <1>14, <1>15, <1>16, <1>17, <1>18 DEF Next

\* The state of the channel and of the shell keeps its types.
THEOREM ExtensionsTypeCorrect == Spec => []TypeOK
<1>1. IInv => TypeOK
  BY DEF IInv
<1> QED
  BY <1>1, InitInv, NextInv, PTL DEF Spec

\* One join of the extensions channel to a session, whoever begins it
\* (extensions_joined and extensions_deadline in Agent::session).
THEOREM NegotiatesOnce == Spec => []OneNegotiation
<1>1. IInv => OneNegotiation
  BY DEF IInv, JoinedOnce, Granted, OneNegotiation
<1> QED
  BY <1>1, InitInv, NextInv, PTL DEF Spec

\* Nothing but a shell's output is said for an extension that this session's
\* answer did not ask for (Extensions::attach and handle, the flush).
THEOREM SpokenIsWanted == Spec => []SpeaksWhenWanted
<1>1. IInv => SpeaksWhenWanted
  BY DEF IInv, Granted, Spoken, SpeaksWhenWanted
<1> QED
  BY <1>1, InitInv, NextInv, PTL DEF Spec

\* No shell runs on a device whose configuration does not enable it.
THEOREM ShellIsConfigured == Spec => []ShellNeedsConfig
<1>1. IInv => ShellNeedsConfig
  BY DEF IInv
<1> QED
  BY <1>1, InitInv, NextInv, PTL DEF Spec
=============================================================================
