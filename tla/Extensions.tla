----------------------------- MODULE Extensions -----------------------------
(***************************************************************************)
(* The extensions channel: its negotiation, which the platform's           *)
(* advertisement and a deadline race to begin, what is said on it, and the *)
(* shell that is served over it (src/extensions/mod.rs, src/link.rs and    *)
(* the arms of src/agent.rs for them).                                     *)
(*                                                                         *)
(* The platform may send any frame at any time, except that it answers a   *)
(* join once.  An extension is its key; that a version is the agent's own  *)
(* is part of being advertised.                                            *)
(***************************************************************************)
EXTENDS Naturals

CONSTANTS
  Keys,       \* the extensions there are
  Logging,    \* the one that is sent unasked
  Shell,      \* the one that is kept running
  None,       \* no key; an advertisement that is missing or malformed
  Offers,     \* the sets of extensions that configurations enable
  MaxOutput,  \* capacity of the channel for the shell's output
  MaxInput    \* what the pty takes of its input before somebody reads it

ASSUME ExtensionsAssumption ==
  /\ {Logging, Shell} \subseteq Keys /\ Logging # Shell
  /\ None \notin Keys /\ \A list \in SUBSET Keys : list # None
  /\ Offers \subseteq SUBSET Keys
  /\ MaxOutput \in Nat \ {0} /\ MaxInput \in Nat \ {0}

VARIABLES
  offered,     \* Extensions.offered; the configuration's
  session,     \* "down", "joining" the device topic, or "joined"
  deadline,    \* extensions_deadline is set
  joined,      \* extensions_joined
  joins,       \* joins of the extensions channel sent in this session
  offer,       \* what the last one offered
  wanted,      \* what the platform answered in this session; None before
  attached,    \* Extensions.attached
  spoke,       \* the extension the last message was sent for, just now
  shell,       \* Agent.shell: none, one that runs, one that is over
  output,      \* its output that is still to be sent
  input,       \* what is on the pty, and was not read
  typing,      \* the loop waits in Shell::input
  reads        \* what runs in shells reads what is typed, even while nobody
               \* reads its output; never changes

talk   == <<joined, joins, offer, wanted>>
tty    == <<input, typing, reads>>
shells == <<shell, output, tty>>
vars   == <<offered, session, deadline, talk, attached, spoke, shells>>

TypeOK ==
  /\ offered \in Offers
  /\ session \in {"down", "joining", "joined"}
  /\ deadline \in BOOLEAN
  /\ joined \in BOOLEAN
  /\ joins \in Nat
  /\ offer \in SUBSET Keys
  /\ wanted \in (SUBSET Keys) \cup {None}
  /\ attached \in SUBSET Keys
  /\ spoke \in Keys \cup {None}
  /\ shell \in {"none", "runs", "over"}
  /\ output \in 0..MaxOutput
  /\ input \in 0..MaxInput
  /\ typing \in BOOLEAN /\ reads \in BOOLEAN

\* Mutant: a session starts with what the last one attached.
NewLinkStillAttached ==
  /\ deadline' = FALSE /\ joined' = FALSE /\ joins' = 0
  /\ offer' = {} /\ wanted' = None /\ attached' = attached

\* A Link is made for each session.
NewLink ==
  /\ deadline' = FALSE /\ joined' = FALSE /\ joins' = 0
  /\ offer' = {} /\ wanted' = None /\ attached' = {}

Init ==
  /\ offered \in Offers
  /\ session = "down"
  /\ deadline = FALSE /\ joined = FALSE /\ joins = 0
  /\ offer = {} /\ wanted = None /\ attached = {}
  /\ spoke = None
  /\ shell = "none" /\ output = 0
  /\ input = 0 /\ typing = FALSE /\ reads \in BOOLEAN

\* The loop is in a session, and not held up in a shell's input.
Serving == session # "down" /\ ~typing

SessionStarts ==
  /\ session = "down"
  /\ session' = "joining"
  /\ NewLink
  /\ spoke' = None
  /\ UNCHANGED <<offered, shells>>

\* The socket is lost, a join or any other send is refused, the device topic
\* is closed.  The shell is the agent's, and not the session's.
SessionEnds ==
  /\ Serving
  /\ session' = "down"
  /\ NewLink
  /\ spoke' = None
  /\ UNCHANGED <<offered, shells>>
-----------------------------------------------------------------------------
(* The negotiation                                                         *)

\* Mutant: no wait begins.
JoinedWithoutWait ==
  /\ session = "joining"
  /\ session' = "joined"
  /\ spoke' = None
  /\ UNCHANGED <<offered, deadline, talk, attached, shells>>

\* The device topic is joined; the wait for an advertisement begins.
Joined ==
  /\ session = "joining"
  /\ session' = "joined"
  /\ deadline' = (deadline \/ offered # {})
  /\ spoke' = None
  /\ UNCHANGED <<offered, talk, attached, shells>>

\* The platform has it, or did not say what it has.
Offering(advertisement, key) == advertisement = None \/ key \in advertisement

\* join_payload.
Payload(advertisement) == {key \in offered : Offering(advertisement, key)}

JoinExtensions(advertisement) ==
  /\ joined' = TRUE
  /\ deadline' = FALSE
  /\ joins' = joins + 1
  /\ offer' = Payload(advertisement)
  /\ wanted' = None
  /\ spoke' = None
  /\ UNCHANGED <<offered, session, attached, shells>>

\* extensions:get.  The second one, and one that comes late, change nothing.
ExtensionsRequested(advertisement) ==
  /\ Serving
  /\ ~joined
  /\ JoinExtensions(advertisement)

\* Mutant: the deadline passes whatever came before it.
DeadlinePassesAnyway ==
  /\ Serving
  /\ deadline
  /\ JoinExtensions(None)

\* No advertisement came.
DeadlinePasses ==
  /\ Serving
  /\ deadline /\ ~joined
  /\ JoinExtensions(None)

\* Extensions::attach: whatever else the list names is ignored.
Attach(list) == attached' = list \cap offered

\* The reply to the join: what is attached is confirmed.
ExtensionsAttached(list) ==
  /\ Serving
  /\ joined /\ wanted = None
  /\ wanted' = list
  /\ Attach(list)
  /\ IF attached' = {} THEN spoke' = None ELSE spoke' \in attached'
  /\ UNCHANGED <<offered, session, deadline, joined, joins, offer, shells>>

\* It is not fatal.
ExtensionsRefused ==
  /\ Serving
  /\ joined /\ wanted = None
  /\ wanted' = {}
  /\ spoke' = None
  /\ UNCHANGED <<offered, session, deadline, joined, joins, offer, attached,
                 shells>>
-----------------------------------------------------------------------------
(* What is said on the channel                                             *)

\* Extensions::handle: an event for an extension that is not attached is dropped.
Handles(key) == Serving /\ key \in attached

Say(key) ==
  /\ spoke' = key
  /\ UNCHANGED <<offered, session, deadline, talk, attached>>

\* A request for a report, of an extension that is attached.  (A location that
\* cannot be established is not sent; neither is anything else then.)
Request(key) ==
  /\ key \notin {Logging, Shell} /\ Handles(key)
  /\ Say(key)
  /\ UNCHANGED shells

FlushLogs ==
  /\ Serving
  /\ Logging \in attached
  /\ Say(Logging)
  /\ UNCHANGED shells

\* An earlier shell is dropped, and killed, before the new one is started.
ShellRequested ==
  /\ Handles(Shell)
  /\ output' = 0 /\ input' = 0
  /\ \/ shell' = "runs" /\ Say(None)
     \/ shell' = "none" /\ Say(Shell)   \* it cannot be started
  /\ UNCHANGED <<typing, reads>>
-----------------------------------------------------------------------------
(* The shell                                                               *)

\* Shell::input is awaited in the loop.  (Input for no shell is dropped, and a
\* resize waits for nothing.)
ShellInput ==
  /\ Handles(Shell)
  /\ shell # "none"
  /\ typing' = TRUE
  /\ Say(None)
  /\ UNCHANGED <<shell, output, input, reads>>

\* Mutant: a write that failed is tried again.
InputRetried ==
  /\ typing
  /\ \/ input < MaxInput /\ input' = input + 1 /\ typing' = FALSE
     \/ shell = "over" /\ UNCHANGED <<input, typing>>
  /\ Say(None)
  /\ UNCHANGED <<shell, output, reads>>

\* The write ends when the pty has room, or when there is nobody at the other
\* end any more.
InputTaken ==
  /\ typing
  /\ typing' = FALSE
  /\ \/ input < MaxInput /\ input' = input + 1
     \/ shell = "over" /\ UNCHANGED input
  /\ Say(None)
  /\ UNCHANGED <<shell, output, reads>>

ShellReads ==
  /\ shell = "runs" /\ input > 0
  /\ input' = input - 1
  /\ Say(None)
  /\ UNCHANGED <<shell, output, typing, reads>>

\* Mutant: the reader does not wait for room.
ShellWritesAlways ==
  /\ shell = "runs"
  /\ output' = output + 1
  /\ Say(None)
  /\ UNCHANGED <<shell, tty>>

\* The reader's thread; it waits for room.
ShellWrites ==
  /\ shell = "runs" /\ output < MaxOutput
  /\ output' = output + 1
  /\ Say(None)
  /\ UNCHANGED <<shell, tty>>

\* Nothing holds the pty any more, and the reader is done.
ShellExits ==
  /\ shell = "runs"
  /\ shell' = "over"
  /\ Say(None)
  /\ UNCHANGED <<output, tty>>

\* recv_shell: output goes whenever a session is up.
SendShellOutput ==
  /\ Serving
  /\ shell # "none" /\ output > 0
  /\ output' = output - 1
  /\ Say(Shell)
  /\ UNCHANGED <<shell, tty>>

\* Mutant: a shell is let go only while its extension is attached.
ShellDroppedAttached ==
  /\ Shell \in attached /\ ~typing
  /\ shell = "over" /\ output = 0
  /\ shell' = "none" /\ input' = 0
  /\ Say(None)
  /\ UNCHANGED <<output, typing, reads>>

\* recv_shell: the channel is closed once the reader is gone.
ShellDropped ==
  /\ Serving
  /\ shell = "over" /\ output = 0
  /\ shell' = "none" /\ input' = 0
  /\ Say(None)
  /\ UNCHANGED <<output, typing, reads>>
-----------------------------------------------------------------------------
Next ==
  \/ SessionStarts \/ SessionEnds \/ Joined
  \/ \E advertisement \in (SUBSET Keys) \cup {None} :
       ExtensionsRequested(advertisement)
  \/ DeadlinePasses
  \/ \E list \in SUBSET Keys : ExtensionsAttached(list)
  \/ ExtensionsRefused
  \/ \E key \in Keys : Request(key)
  \/ FlushLogs \/ ShellRequested
  \/ ShellInput \/ InputTaken \/ ShellReads
  \/ ShellWrites \/ ShellExits \/ SendShellOutput \/ ShellDropped

Spec == Init /\ [][Next]_vars

\* Sessions come back, the loop's timer fires, select! starves no arm, and a
\* write that has room ends; shells that read do so in the end.
LiveSpec ==
  /\ Spec
  /\ WF_vars(SessionStarts)
  /\ WF_vars(DeadlinePasses)
  /\ SF_vars(SendShellOutput) /\ SF_vars(ShellDropped)
  /\ WF_vars(InputTaken) /\ WF_vars(reads /\ ShellReads)
-----------------------------------------------------------------------------
(* Properties                                                              *)

\* The advertisement, a second one and the deadline begin one negotiation
\* between them, and what is attached is its outcome.
OneNegotiation ==
  /\ joins <= 1
  /\ joins = 0 => attached = {}

\* Apart from the shell's output, nothing is said for an extension that the
\* platform did not want in this very session (Extensions::reset: "carrying it
\* across one would have the agent answering for an extension the new session
\* never attached").
SpeaksWhenWanted ==
  spoke \notin {Shell, None} => wanted # None /\ spoke \in wanted

\* A shell is started only on a device whose configuration enables it, whatever
\* the platform asks for (mod.rs, "Config and the platform both have to want
\* it").
ShellNeedsConfig == shell # "none" => Shell \in offered

\* A platform that never advertises does not cost a device its extensions.
Negotiates == (session = "joined" /\ offered # {}) ~> (joined \/ session = "down")

\* A shell that is over is let go, with its last output sent.
ShellLetGo == shell = "over" ~> shell # "over"

\* Whatever is typed, and whenever the shell exits, the loop goes on serving its
\* session, though not where what runs in the shell leaves its input unread
\* (agent.rs:694, an extension that cannot answer must not take down a session).
LoopGoesOn == (reads /\ typing) ~> ~typing
=============================================================================
