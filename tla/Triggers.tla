------------------------------ MODULE Triggers ------------------------------
(***************************************************************************)
(* The effects of a game (gcg-engine: interp/mod.rs, core.rs, game.rs):    *)
(* frames run instructions, instructions and the turn procedure emit       *)
(* events, events queue triggers, queued triggers form a batch when no     *)
(* frame is left, and the top batch starts one trigger at a time.  This is *)
(* what module Game calls "effects".                                       *)
(*                                                                         *)
(* One step is one iteration of advance, one instruction, or an answer.    *)
(* A program's instructions are nondeterministic: each may act, emit an    *)
(* event, move a card, ask, or push another card's program.                *)
(***************************************************************************)
EXTENDS Naturals, Sequences, SequencesExt, FiniteSets

CONSTANTS
  Hosts,       \* cards in play
  Bursts,      \* Shields with a Burst ability
  Commands,    \* Command cards in hand
  Owner,       \* the player of each of them
  Triggered,   \* abilities that listen to events
  Activated,   \* abilities a player activates
  Host,        \* Host[a]: the card with ability a
  Once,        \* abilities limited to once per turn
  MaxEvents,   \* bound: events of a game that queue something
  MaxInstrs,   \* bound: instructions and procedure steps of a game
  MaxMoves,    \* bound: zone changes of a card in play
  TurnLimit

Players   == {0, 1}
Cards     == Hosts \cup Bursts \cup Commands
Abilities == Triggered \cup Activated

ASSUME TriggersAssumption ==
  /\ Hosts \cap (Bursts \cup Commands) = {} /\ Bursts \cap Commands = {}
  /\ Owner \in [Cards -> Players]
  /\ Triggered \cap Activated = {} /\ Abilities \cap Cards = {} /\ Once \subseteq Abilities
  /\ Host \in [Abilities -> Hosts]
  /\ {MaxEvents, MaxInstrs, MaxMoves, TurnLimit} \subseteq Nat

NoKey == <<>>
Keys  == Once \X (0 .. MaxMoves)   \* once_key: (ability, host, zone_seq of the host)

\* A trigger: its ability, or the Burst card itself; the zone_seq of its host
\* when it was queued; the event that queued it; and, for the properties, how
\* many batches were open then.
Instance == [source : Triggered \cup Bursts, seq : 0 .. MaxMoves, event : 1 .. MaxEvents,
             level : Nat]
NoTrigger == [source |-> "none"]
Frame == [kind : {"trigger", "burst", "command", "activated", "sub"}, key : Keys \cup {NoKey},
          acted : BOOLEAN, card : Cards, trigger : Instance \cup {NoTrigger}]

VARIABLES
  turn, active,
  zone_seq,    \* of each host: a card that moves is another object
  resolving,   \* the RESOLVING zones
  unused,      \* Shields and Commands not yet destroyed or played
  pending,     \* pending_triggers
  batches,     \* the open batches, innermost last
  frames,      \* the frames, running one last
  once_used,
  asked,       \* what a pending decision is about
  over,
  events, instrs,  \* bounds: events and instructions so far
  acts         \* history: the keyed frames and activations of this turn that acted

vars == <<turn, active, zone_seq, resolving, unused, pending, batches, frames, once_used,
          asked, over, events, instrs, acts>>

Init ==
  /\ turn = 1 /\ active \in Players /\ zone_seq = [h \in Hosts |-> 0]
  /\ resolving = {} /\ unused = Bursts \cup Commands
  /\ pending = {} /\ batches = <<>> /\ frames = <<>> /\ once_used = {}
  /\ asked = "none" /\ over = FALSE /\ events = 0 /\ instrs = 0 /\ acts = {}
-----------------------------------------------------------------------------
Controller(t) == IF t.source \in Bursts THEN Owner[t.source] ELSE Owner[Host[t.source]]
KeyOf(t)      == IF t.source \in Once THEN <<t.source, t.seq>> ELSE NoKey

Running == ~over /\ asked = "none"
NoFrame == Running /\ frames = <<>>
Idle    == frames = <<>> /\ pending = {} /\ batches = <<>>
Outstanding == pending \cup UNION Range(batches)

Spend == instrs < MaxInstrs /\ instrs' = instrs + 1

\* queue_trigger for every ability of A and destroy_shields for every Burst of
\* B, in one event group: an ability listens once per group, one already used
\* this turn is not queued, and hosts that the event moved trigger from their
\* last-known information.
Queue(A, B) ==
  LET new == {[source |-> a, seq |-> zone_seq[Host[a]], event |-> events + 1,
               level |-> Len(batches)]
                : a \in {x \in A : <<x, zone_seq[Host[x]]>> \notin once_used}}
             \cup {[source |-> b, seq |-> 0, event |-> events + 1, level |-> Len(batches)]
                     : b \in B}
  IN  /\ A \cup B # {} => events < MaxEvents
      /\ events' = IF A \cup B = {} THEN events ELSE events + 1
      /\ pending' = pending \cup new

NewFrame(kind, key, card, trigger) ==
  [kind |-> kind, key |-> key, acted |-> FALSE, card |-> card, trigger |-> trigger]

-----------------------------------------------------------------------------
(* The turn procedure, when no effect is left (module Game)                *)

\* A row of the procedure emits an event, or battle damage destroys Shields.
Happens(A, B) ==
  /\ NoFrame /\ Idle /\ Spend /\ A \cup B # {}
  /\ Queue(A, B) /\ resolving' = resolving \cup B /\ unused' = unused \ B
  /\ UNCHANGED <<turn, active, zone_seq, batches, frames, once_used, asked, over, acts>>

\* play_or_activate of an activated ability: its key is used at once.
Activate(a) ==
  LET key == <<a, zone_seq[Host[a]]>> IN
  /\ NoFrame /\ Idle /\ Spend /\ key \notin once_used
  /\ frames' = <<[NewFrame("activated", NoKey, Host[a], NoTrigger) EXCEPT !.acted = TRUE]>>
  /\ once_used' = IF a \in Once THEN once_used \cup {key} ELSE once_used
  /\ acts' = IF a \in Once THEN acts \cup {<<key, instrs>>} ELSE acts
  /\ UNCHANGED <<turn, active, zone_seq, resolving, unused, pending, batches, asked, over,
                 events>>

\* A Command waits in RESOLVING while its program runs; COMMAND_PLAYED comes first.
CommandFrame(c, A) ==
  /\ c \in unused \cap Commands /\ Spend
  /\ Queue(A, {}) /\ resolving' = resolving \cup {c} /\ unused' = unused \ {c}
  /\ UNCHANGED <<turn, active, zone_seq, batches, once_used, asked, over>>
PlayCommand(c, A) ==
  /\ NoFrame /\ Idle /\ CommandFrame(c, A)
  /\ frames' = <<NewFrame("command", NoKey, c, NoTrigger)>> /\ UNCHANGED acts

NextTurn ==
  /\ NoFrame /\ Idle /\ turn < TurnLimit
  /\ turn' = turn + 1 /\ active' = 1 - active /\ once_used' = {} /\ acts' = {}
  /\ UNCHANGED <<zone_seq, resolving, unused, pending, batches, frames, asked, over, events,
                 instrs>>
-----------------------------------------------------------------------------
(* run_top_frame                                                           *)

Top == frames[Len(frames)]
Acted == [frames EXCEPT ![Len(frames)].acted = TRUE]
ActsNow == IF Top.key = NoKey THEN acts ELSE acts \cup {<<Top.key, Top.trigger.event>>}

\* An instruction that acts: it may move one card in play, destroy Shields,
\* and move the frame's own card out of RESOLVING.
Instruct(A, B, M, leave) ==
  /\ Running /\ frames # <<>> /\ Spend
  /\ \A h \in M : zone_seq[h] < MaxMoves
  /\ Queue(A, B) /\ frames' = Acted /\ acts' = ActsNow
  /\ zone_seq' = [h \in Hosts |-> IF h \in M THEN zone_seq[h] + 1 ELSE zone_seq[h]]
  /\ resolving' = (IF leave THEN resolving \ {Top.card} ELSE resolving) \cup B
  /\ unused' = unused \ B
  /\ UNCHANGED <<turn, active, batches, once_used, asked, over>>

\* h_play_card: the parent has acted and goes on when the Command has resolved.
PlayInEffect(c, A) ==
  /\ Running /\ frames # <<>> /\ CommandFrame(c, A)
  /\ frames' = Append(Acted, NewFrame("command", NoKey, c, NoTrigger)) /\ acts' = ActsNow

\* h_activate_main, and h_play_card of a Unit or a Base: another program runs
\* before the frame goes on.  The first announces it (COMMAND_PLAYED).  A Burst
\* that activates its own Main effect does so on its own card.
PushSub(A) ==
  /\ Running /\ frames # <<>> /\ Spend
  /\ Queue(A, {})
  /\ frames' = Append(Acted, NewFrame("sub", NoKey, Top.card, NoTrigger)) /\ acts' = ActsNow
  /\ UNCHANGED <<turn, active, zone_seq, resolving, unused, batches, once_used, asked, over>>

Ask ==
  /\ Running /\ frames # <<>> /\ Spend /\ asked' = "effect"
  /\ UNCHANGED <<turn, active, zone_seq, resolving, unused, pending, batches, frames,
                 once_used, over, events, acts>>
\* resume: the answer may carry out the instruction, or do nothing.
Resume(A) ==
  /\ ~over /\ asked = "effect" /\ asked' = "none"
  /\ \/ Queue(A, {}) /\ frames' = Acted /\ acts' = ActsNow
     \/ A = {} /\ UNCHANGED <<pending, events, frames, acts>>
  /\ UNCHANGED <<turn, active, zone_seq, resolving, unused, batches, once_used, over, instrs>>

Consumed(f) == IF f.key # NoKey /\ f.acted THEN once_used \cup {f.key} ELSE once_used
\* Mutant: only Commands leave RESOLVING.
LeavesCommand(f) == IF f.kind = "command" THEN resolving \ {f.card} ELSE resolving
Leaves(f) == IF f.kind \in {"command", "burst"} THEN resolving \ {f.card} ELSE resolving

\* finish_frame; COMMAND_RESOLVED is emitted by a Command still in RESOLVING.
Finish(A) ==
  /\ Running /\ frames # <<>>
  /\ A # {} => Top.kind = "command" /\ Top.card \in resolving
  /\ Queue(A, {})
  /\ frames' = Front(frames) /\ once_used' = Consumed(Top) /\ resolving' = Leaves(Top)
  /\ UNCHANGED <<turn, active, zone_seq, unused, batches, asked, over, instrs, acts>>
-----------------------------------------------------------------------------
(* Batches                                                                 *)

\* Mutant: what was left of the open batch is forgotten.
ReplacedBatch == Append(IF batches = <<>> THEN batches ELSE Front(batches), pending)
NewBatches == Append(batches, pending)
FormBatch ==
  /\ NoFrame /\ pending # {}
  /\ batches' = NewBatches /\ pending' = {}
  /\ UNCHANGED <<turn, active, zone_seq, resolving, unused, frames, once_used, asked, over,
                 events, instrs, acts>>

\* Mutant: Bursts wait their turn.
CandidatesByPlayer(batch) ==
  LET own == {t \in batch : Controller(t) = active}
  IN  IF own # {} THEN own ELSE batch
\* trigger_candidates: Bursts, then the active player's, then the others.
Candidates(batch) ==
  LET bursts == {t \in batch : t.source \in Bursts}
      own    == {t \in batch : Controller(t) = active}
  IN  IF bursts # {} THEN bursts ELSE IF own # {} THEN own ELSE batch

\* Mutant: an empty batch stays.
KeepBatch == batches' = batches
PopBatch  == batches' = Front(batches)
EmptyBatch ==
  /\ NoFrame /\ pending = {} /\ batches # <<>> /\ Last(batches) = {} /\ PopBatch
  /\ UNCHANGED <<turn, active, zone_seq, resolving, unused, pending, frames, once_used,
                 asked, over, events, instrs, acts>>

\* Mutant: the key is not looked at again when the trigger resolves.
NeverUsed(t)   == FALSE
AlreadyUsed(t) == KeyOf(t) # NoKey /\ KeyOf(t) \in once_used
FrameOf(t) == NewFrame(IF t.source \in Bursts THEN "burst" ELSE "trigger", KeyOf(t),
                       IF t.source \in Bursts THEN t.source ELSE Host[t.source], t)
\* take_from_top, then resolve_trigger.
Start(t) ==
  /\ batches' = [batches EXCEPT ![Len(batches)] = @ \ {t}]
  /\ frames' = IF AlreadyUsed(t) THEN frames ELSE <<FrameOf(t)>>

\* Candidates with the same program and host are not worth a question.
Identical(S) == \A t, u \in S : t.source = u.source
StartNextTrigger ==
  /\ NoFrame /\ pending = {} /\ batches # <<>> /\ Last(batches) # {}
  /\ LET cands == Candidates(Last(batches)) IN
       IF Identical(cands)
       THEN (\E t \in cands : \A u \in cands : t.event <= u.event /\ Start(t)) /\ UNCHANGED asked
       ELSE asked' = "order" /\ UNCHANGED <<batches, frames>>
  /\ UNCHANGED <<turn, active, zone_seq, resolving, unused, pending, once_used, over, events,
                 instrs, acts>>
Order(t) ==
  /\ ~over /\ asked = "order" /\ asked' = "none"
  /\ t \in Candidates(Last(batches)) /\ Start(t)
  /\ UNCHANGED <<turn, active, zone_seq, resolving, unused, pending, once_used, over, events,
                 instrs, acts>>

\* Rules management after an instruction ends the game: only the decision goes.
Defeat ==
  /\ ~over /\ frames # <<>> /\ over' = TRUE /\ asked' = "none"
  /\ UNCHANGED <<turn, active, zone_seq, resolving, unused, pending, batches, frames,
                 once_used, events, instrs, acts>>
\* concede drops every frame, batch and pending trigger.
Concede ==
  /\ ~over /\ asked # "none" /\ over' = TRUE /\ asked' = "none"
  /\ frames' = <<>> /\ batches' = <<>> /\ pending' = {}
  /\ UNCHANGED <<turn, active, zone_seq, resolving, unused, once_used, events, instrs, acts>>
-----------------------------------------------------------------------------
Sets(S) == {x \in SUBSET S : Cardinality(x) <= 2}  \* bound: triggers of one event

Advance ==
  \/ \E A \in Sets(Triggered), B \in SUBSET unused : B \subseteq Bursts /\ Happens(A, B)
  \/ \E A \in Sets(Triggered), B \in {{}} \cup {{b} : b \in unused \cap Bursts},
        M \in {{}} \cup {{h} : h \in Hosts}, leave \in BOOLEAN : Instruct(A, B, M, leave)
  \/ \E A \in Sets(Triggered) : Finish(A) \/ PushSub(A)
  \/ \E A \in Sets(Triggered), c \in Commands : PlayInEffect(c, A)
  \/ Ask \/ FormBatch \/ EmptyBatch \/ StartNextTrigger \/ Defeat \/ NextTurn
Answer ==
  \/ \E a \in Activated : Activate(a)
  \/ \E A \in Sets(Triggered), c \in Commands : PlayCommand(c, A)
  \/ \E A \in Sets(Triggered) : Resume(A)
  \/ \E t \in Outstanding : Order(t)
Next == Advance \/ Answer \/ Concede

\* advance is a loop, and agents answer what they are asked.
Spec == Init /\ [][Next]_vars /\ WF_vars(Advance \/ Answer)
-----------------------------------------------------------------------------
(* Properties                                                              *)

\* A once-per-turn ability of one object acts at most once in a turn, although
\* two events may have queued it before the first of them resolved
\* (queue_trigger, resolve_trigger, finish_frame, play_or_activate).
OncePerTurn == \A x, y \in acts : x[1] = y[1] => x = y

\* A queued trigger is started, or dropped because its once-per-turn ability
\* has been used; no batch is popped over it.
NoTriggerLost ==
  [][ \A t \in Outstanding \ Outstanding' :
        \/ over'
        \/ frames' # <<>> /\ frames'[Len(frames')].trigger = t
        \/ t.source \in Once /\ <<t.source, t.seq>> \in once_used ]_vars

Rank(t) == IF t.source \in Bursts THEN 0 ELSE IF Controller(t) = active THEN 1 ELSE 2

\* Triggers caused by an effect resolve before what waited for it, and among
\* simultaneous ones Bursts come first, then the active player's (rules
\* 10-1-6-5 to 10-1-6-8).
StartsInOrder ==
  [][ \A t \in Outstanding \ Outstanding', u \in Outstanding' :
        u.level < t.level \/ (u.level = t.level /\ Rank(t) <= Rank(u)) ]_vars

\* A card in RESOLVING has a Command or Burst frame, or a Burst trigger, that
\* will take it out again: none is stranded when the effects are done.
ResolvingIsOwned ==
  \A c \in resolving :
    \/ over
    \/ \E i \in DOMAIN frames : frames[i].kind \in {"command", "burst"} /\ frames[i].card = c
    \/ \E t \in Outstanding : t.source = c

\* Effects always come to an end, and the turn procedure goes on.
EffectsSettle == []<>(over \/ (Idle /\ asked = "none"))
=============================================================================
