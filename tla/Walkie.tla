-------------------------------- MODULE Walkie --------------------------------
(***************************************************************************)
(* Push-to-talk: the button and the microphone, the recorder, the flood of *)
(* a clip's chunks through the mesh, and its assembly and playback.        *)
(* WalkieTalkie of js/walkie.js, the button of js/connect.js, the ptt verb *)
(* of js/sync.js and relay of js/sync-peers.js.                            *)
(*                                                                         *)
(* The prompt for the microphone, the recorder's last event, timers and    *)
(* audio elements all report back later, each in a step of its own.        *)
(***************************************************************************)
EXTENDS Integers, Sequences, FiniteSets, FiniteSetsExt, SequencesExt

CONSTANTS
  Device,
  Meshes,        \* the meshes to consider: sets of links, as pairs, both ways
  Totals,        \* how many chunks a clip may have
  PttMemory,     \* 8192: how many chunks a device remembers to have passed on
  MaxIncoming,   \* 8: a clip more than that is not assembled
  MaxPresses,    \* bound: how often a button is pressed
  MaxCuts,       \* bound: how many links fail
  Browsers       \* the browsers to consider, by what they may do: "deny" the
                 \* microphone, "refuse" a recorder, "garble" a clip they cannot
                 \* decode; "slow" stands for a clip that takes too long

ASSUME MeshAssumption ==
  \A links \in Meshes :
    /\ links \subseteq Device \X Device
    /\ \A wire \in links : wire[1] # wire[2] /\ <<wire[2], wire[1]>> \in links
ASSUME BrowserAssumption ==
  Browsers \subseteq SUBSET {"deny", "refuse", "garble", "slow"}
ASSUME LimitsAssumption ==
  /\ {PttMemory, MaxPresses} \subseteq Nat \ {0} /\ Totals \subseteq Nat \ {0}
  /\ {MaxIncoming, MaxCuts} \subseteq Nat

VARIABLES
  quirks,   \* the browser everybody has
  held,     \* whether the button is down
  asking,   \* how many startTransmit calls wait for the microphone
  handset,  \* transmitting, stream, recorder and autoStop; 0 is null
  lit,      \* the streams whose tracks are live
  tapes,    \* the recorders that have not reported their end
  alarms,   \* the timers that are running
  wires,    \* the links that are up
  cut,      \* history: the links that failed
  air,      \* chunks under way on each link
  pttSeen,  \* the chunks each device remembers, oldest first
  incoming, \* the clips being assembled, and the parts that are there
  complete, \* walkie.seen: the clips a device made or has assembled
  speaker,  \* queue and playing
  sounding, \* audio elements, and the callbacks each has yet to make
  drawn,    \* how many streams, recorders and timers were made
  heard,    \* history: the clips each device has played, in order
  missed,   \* history: clips a device turned away or gave up
  mishaps,  \* history: what went wrong with the microphone
  garbled   \* history: the devices that met a clip they cannot decode

button == <<held, asking, handset, lit, tapes, alarms, drawn, mishaps>>
mesh == <<wires, cut, air, pttSeen>>
player == <<incoming, complete, speaker, sounding, heard, missed, garbled>>
walkieVars == <<quirks, button, mesh, player>>

NoClip == << >>
Idle == [transmitting |-> FALSE, stream |-> 0, recorder |-> 0, autoStop |-> 0]

WalkieInit ==
  /\ quirks \in Browsers
  /\ held = [d \in Device |-> FALSE]
  /\ asking = [d \in Device |-> 0]
  /\ handset = [d \in Device |-> Idle]
  /\ lit = [d \in Device |-> {}]
  /\ tapes = [d \in Device |-> {}]
  /\ alarms = [d \in Device |-> {}]
  /\ wires \in Meshes /\ cut = {}
  /\ air = [wire \in wires |-> {}]
  /\ pttSeen = [d \in Device |-> << >>]
  /\ incoming = [d \in Device |-> << >>]
  /\ complete = [d \in Device |-> {}]
  /\ speaker = [d \in Device |-> [queue |-> << >>, playing |-> NoClip]]
  /\ sounding = [d \in Device |-> {}]
  /\ drawn = [d \in Device |-> 0]
  /\ heard = [d \in Device |-> << >>]
  /\ missed = [d \in Device |-> {}]
  /\ mishaps = [d \in Device |-> {}]
  /\ garbled = {}

-----------------------------------------------------------------------------
(* The button and the microphone *)

\* What is left when the button comes up, or the timer fires: the timer is
\* cleared, the recorder told to stop, the tracks are ended.  A recorder whose
\* tracks end stops as well.
StopTransmit(d, armed) ==
  LET h == handset[d]
      Ends(tape) == tape.n = h.recorder \/ tape.stream = h.stream
  IN  /\ alarms' = [alarms EXCEPT ![d] = armed \ {h.autoStop}]
      /\ IF h.transmitting
         THEN /\ handset' = [handset EXCEPT ![d].transmitting = FALSE, ![d].stream = 0]
              /\ tapes' = [tapes EXCEPT ![d] =
                             {IF Ends(t) THEN [t EXCEPT !.ending = TRUE] ELSE t : t \in @}]
              /\ lit' = [lit EXCEPT ![d] = @ \ {h.stream}]
         ELSE UNCHANGED <<handset, tapes, lit>>

\* Mutant: the timer fires and leaves the microphone as it is.
AutoStopKeepsMic(d, n) ==
  /\ n \in alarms[d]
  /\ alarms' = [alarms EXCEPT ![d] = @ \ {n}]
  /\ handset' = [handset EXCEPT ![d].transmitting = FALSE]
  /\ UNCHANGED <<quirks, held, asking, lit, tapes, drawn, mishaps, mesh, player>>

\* Thirty seconds are up.
AutoStop(d, n) ==
  /\ n \in alarms[d]
  /\ StopTransmit(d, alarms[d] \ {n})
  /\ UNCHANGED <<quirks, held, asking, drawn, mishaps, mesh, player>>

\* A recorder, number n, on a stream; or the browser refuses to make one.
Record(d, n, stream) ==
  /\ drawn' = [drawn EXCEPT ![d] = n]
  /\ \/ /\ handset' = [handset EXCEPT ![d] = [transmitting |-> TRUE, stream |-> stream,
                                             recorder |-> n, autoStop |-> n]]
        /\ tapes' = [tapes EXCEPT ![d] = @ \cup {[n |-> n, stream |-> stream, ending |-> FALSE]}]
        /\ alarms' = [alarms EXCEPT ![d] = @ \cup {n}]
        /\ UNCHANGED mishaps
     \/ /\ "refuse" \in quirks
        /\ handset' = [handset EXCEPT ![d].stream = stream]
        /\ mishaps' = [mishaps EXCEPT ![d] = @ \cup {"refused"}]
        /\ UNCHANGED <<tapes, alarms>>

\* enable resolves: from here to the recorder nothing else runs.
Granted(d) ==
  /\ asking[d] > 0 /\ asking' = [asking EXCEPT ![d] = @ - 1]
  /\ lit' = [lit EXCEPT ![d] = @ \cup {drawn[d] + 1}]
  /\ Record(d, drawn[d] + 1, drawn[d] + 1)
  /\ UNCHANGED <<quirks, held, mesh, player>>

Denied(d) ==
  /\ asking[d] > 0 /\ "deny" \in quirks
  /\ asking' = [asking EXCEPT ![d] = @ - 1]
  /\ UNCHANGED <<quirks, held, handset, lit, tapes, alarms, drawn, mishaps, mesh, player>>

\* startTransmit, with the leave of select.canTalk; the microphone is asked for
\* unless a stream is there.
StartTransmit(d) ==
  IF handset[d].transmitting
  THEN UNCHANGED <<asking, handset, tapes, alarms, drawn, mishaps>>
  ELSE IF handset[d].stream = 0
  THEN /\ asking' = [asking EXCEPT ![d] = @ + 1]
       /\ mishaps' = [mishaps EXCEPT ![d] = IF asking[d] > 0 THEN @ \cup {"asked twice"} ELSE @]
       /\ UNCHANGED <<handset, tapes, alarms, drawn>>
  ELSE Record(d, drawn[d] + 1, handset[d].stream) /\ UNCHANGED asking

Press(d) ==
  /\ ~held[d] /\ held' = [held EXCEPT ![d] = TRUE]
  /\ StartTransmit(d)
  /\ UNCHANGED <<quirks, lit, mesh, player>>

\* Mutant: the microphone stays open for the next press.
ReleaseKeepsMic(d) ==
  /\ held[d] /\ held' = [held EXCEPT ![d] = FALSE]
  /\ handset' = [handset EXCEPT ![d].transmitting = FALSE]
  /\ alarms' = [alarms EXCEPT ![d] = @ \ {handset[d].autoStop}]
  /\ UNCHANGED <<quirks, asking, lit, tapes, drawn, mishaps, mesh, player>>

Release(d) ==
  /\ held[d] /\ held' = [held EXCEPT ![d] = FALSE]
  /\ StopTransmit(d, alarms[d])
  /\ mishaps' = [mishaps EXCEPT ![d] = IF asking[d] > 0 THEN @ \cup {"let go early"} ELSE @]
  /\ UNCHANGED <<quirks, asking, drawn, mesh, player>>

-----------------------------------------------------------------------------
(* A clip on its way *)

Neighbours(d) == {e \in Device : <<d, e>> \in wires}
Author(clip) == clip[1]

\* chunks sent to the devices of to; a link that is down takes none.
Sent(carried, d, to, chunks) ==
  [wire \in DOMAIN carried |->
     IF wire[1] = d /\ wire[2] \in to THEN carried[wire] \cup chunks ELSE carried[wire]]

\* onstop.  A clip shorter than a moment is a mis-tap; one that ends when the
\* recorder was forgotten already is lost.
OnStop(d, tape) ==
  LET clip == <<d, tape.n>>
  IN  /\ tape.ending
      /\ tapes' = [tapes EXCEPT ![d] = @ \ {tape}]
      /\ handset' = [handset EXCEPT ![d].recorder = 0]
      /\ \/ UNCHANGED <<air, complete>>
         \/ \E total \in Totals :
              /\ handset[d].recorder # 0
              /\ complete' = [complete EXCEPT ![d] = @ \cup {clip}]
              /\ air' = Sent(air, d, Neighbours(d),
                             {[clip |-> clip, seq |-> i, total |-> total] : i \in 1 .. total})
      /\ UNCHANGED <<quirks, held, asking, lit, alarms, drawn, mishaps, wires, cut, pttSeen,
                     incoming, speaker, sounding, heard, missed, garbled>>

\* Mutant: a clip is passed on once, not each chunk of it.
KeyOfClip(chunk) == <<chunk.clip>>

Key(chunk) == <<chunk.clip, chunk.seq>>

\* Mutant: a device passes on whatever reaches it.
RememberedNot(keys, key) == << >>

\* The memory of chunks, its oldest entry dropped when it is full.
Remembered(keys, key) ==
  LET all == Append(keys, key)
  IN  IF Len(all) > PttMemory THEN Tail(all) ELSE all

\* Mutant: a clip starts whether or not another is playing.
EnqueuedAtOnce(player_, clip) ==
  [queue |-> player_.queue, playing |-> clip, starts |-> TRUE]

\* #enqueue: into the queue, and out of it at once if nothing plays.
Enqueued(player_, clip) ==
  IF player_.playing = NoClip
  THEN [queue |-> Tail(Append(player_.queue, clip)),
        playing |-> Head(Append(player_.queue, clip)), starts |-> TRUE]
  ELSE [queue |-> Append(player_.queue, clip), playing |-> player_.playing, starts |-> FALSE]

Unplay(now) == [queue |-> now.queue, playing |-> now.playing]
Audio(clip) == [clip |-> clip, due |-> {}]

\* walkie.receive: clips begun too long ago are swept first, the `old' ones; a new
\* clip is turned away while too many are being assembled; the last part
\* completes one, and it is played or queued.
Receive(d, chunk, old) ==
  LET clip == chunk.clip
      kept == [c \in DOMAIN incoming[d] \ old |-> incoming[d][c]]
      here == clip \in DOMAIN kept
      parts == (IF here THEN kept[clip] ELSE {}) \cup {chunk.seq}
      full == ~here /\ Cardinality(DOMAIN kept) > MaxIncoming
      done == ~full /\ Cardinality(parts) = chunk.total
      now == Enqueued(speaker[d], clip)
  IN  IF Author(clip) = d \/ clip \in complete[d]
      THEN old = {} /\ UNCHANGED player
      ELSE /\ incoming' = [incoming EXCEPT ![d] =
                            CASE full -> kept
                              [] done -> [c \in DOMAIN kept \ {clip} |-> kept[c]]
                              [] OTHER -> [c \in DOMAIN kept \cup {clip} |->
                                             IF c = clip THEN parts ELSE kept[c]]]
           /\ missed' = [missed EXCEPT ![d] = @ \cup old \cup IF full THEN {clip} ELSE {}]
           /\ IF done
              THEN /\ complete' = [complete EXCEPT ![d] = @ \cup {clip}]
                   /\ speaker' = [speaker EXCEPT ![d] = Unplay(now)]
                   /\ sounding' = [sounding EXCEPT ![d] =
                                     IF now.starts THEN @ \cup {Audio(now.playing)} ELSE @]
                   /\ heard' = [heard EXCEPT ![d] =
                                  IF now.starts THEN Append(@, now.playing) ELSE @]
              ELSE UNCHANGED <<complete, speaker, sounding, heard>>
           /\ UNCHANGED garbled

\* The ptt verb: a chunk not seen before goes to the handset and to every other
\* neighbour, unless it is this device's own that came back.
OnPtt(wire, chunk) ==
  LET from == wire[1]  d == wire[2]
      taken == [air EXCEPT ![wire] = @ \ {chunk}]
      olds == IF "slow" \in quirks THEN SUBSET DOMAIN incoming[d] ELSE {{}}
  IN  /\ chunk \in air[wire]
      /\ IF Contains(pttSeen[d], Key(chunk))
         THEN air' = taken /\ UNCHANGED <<pttSeen, player>>
         ELSE /\ pttSeen' = [pttSeen EXCEPT ![d] = Remembered(@, Key(chunk))]
              /\ \E old \in olds : Receive(d, chunk, old)
              /\ air' = IF Author(chunk.clip) = d THEN taken
                        ELSE Sent(taken, d, Neighbours(d) \ {from}, {chunk})
      /\ UNCHANGED <<quirks, button, wires, cut>>

WireFails(wire) ==
  LET both == {wire, <<wire[2], wire[1]>>}
  IN  /\ wire \in wires /\ Cardinality(cut) < 2 * MaxCuts
      /\ wires' = wires \ both /\ cut' = cut \cup both
      /\ air' = [w \in DOMAIN air |-> IF w \in both THEN {} ELSE air[w]]
      /\ UNCHANGED <<quirks, button, pttSeen, player>>

-----------------------------------------------------------------------------
(* Playback *)

\* An audio element is done with, and #playNext: the next clip of the queue, or
\* silence.
PlayNext(d, others) ==
  IF speaker[d].queue = << >>
  THEN /\ speaker' = [speaker EXCEPT ![d].playing = NoClip]
       /\ sounding' = [sounding EXCEPT ![d] = others]
       /\ UNCHANGED heard
  ELSE LET clip == Head(speaker[d].queue)
       IN  /\ speaker' = [speaker EXCEPT ![d] = [queue |-> Tail(@.queue), playing |-> clip]]
           /\ sounding' = [sounding EXCEPT ![d] = others \cup {Audio(clip)}]
           /\ heard' = [heard EXCEPT ![d] = Append(@, clip)]

\* onended; or playback is not allowed, and the promise of play is rejected.
Ended(d, audio) ==
  /\ audio \in sounding[d] /\ audio.due = {}
  /\ PlayNext(d, sounding[d] \ {audio})
  /\ UNCHANGED <<quirks, button, mesh, incoming, complete, missed, garbled>>

\* A clip that cannot be decoded reports it twice, by onerror and by the promise,
\* and either is a `done'.
CannotDecode(d, audio) ==
  /\ "garble" \in quirks /\ audio \in sounding[d] /\ audio.due = {}
  /\ garbled' = garbled \cup {d}
  /\ PlayNext(d, (sounding[d] \ {audio}) \cup {[audio EXCEPT !.due = {"again"}]})
  /\ UNCHANGED <<quirks, button, mesh, incoming, complete, missed>>
DoneAgain(d, audio) ==
  /\ audio \in sounding[d] /\ audio.due # {}
  /\ PlayNext(d, sounding[d] \ {audio})
  /\ UNCHANGED <<quirks, button, mesh, incoming, complete, missed, garbled>>

-----------------------------------------------------------------------------

\* What happens by itself once it can: timers, events and messages.
WalkieMachine ==
  \/ \E d \in Device :
       \/ \E n \in alarms[d] : AutoStop(d, n)
       \/ \E tape \in tapes[d] : OnStop(d, tape)
       \/ \E audio \in sounding[d] : \/ Ended(d, audio) \/ CannotDecode(d, audio)
                                     \/ DoneAgain(d, audio)
  \/ \E wire \in wires : \E chunk \in air[wire] : OnPtt(wire, chunk)

WalkieNext ==
  \/ WalkieMachine
  \/ \E d \in Device :
       \/ drawn[d] + asking[d] < MaxPresses /\ Press(d)
       \/ Granted(d) \/ Denied(d) \/ Release(d)
  \/ \E wire \in wires : WireFails(wire)

WalkieSpec == WalkieInit /\ [][WalkieNext]_walkieVars

-----------------------------------------------------------------------------
(* Properties *)

\* "The microphone is only live while the button is held" (js/walkie.js): it is,
\* and one stream at most, unless the button was let go or pressed again before
\* the microphone was granted, or the browser would not record; and whatever
\* happened, a transmission has a timer running that will end it.
MicFollowsTheHand ==
  \A d \in Device :
    /\ lit[d] # {} => held[d] \/ mishaps[d] # {}
    /\ Cardinality(lit[d]) > 1 => "asked twice" \in mishaps[d]
    /\ handset[d].transmitting => handset[d].autoStop \in alarms[d]

\* The doc's words as they stand.
MicOnlyWhileHeld == \A d \in Device : lit[d] # {} => held[d]

Made(d) == {clip \in complete[d] : Author(clip) = d}
Quiet == \A d \in Device : sounding[d] = {} /\ \A wire \in DOMAIN air : air[wire] = {}

\* No clip is played twice because the flood came round again, none is left in
\* the queue with nothing playing, and two sound at once only behind one that
\* cannot be decoded.
ClipsPlayInTurn ==
  \A d \in Device :
    /\ Cardinality(ToSet(heard[d])) = Len(heard[d])
    /\ \A clip \in ToSet(heard[d]) : Author(clip) # d
    /\ speaker[d].queue # << >> => sounding[d] # {}
    /\ Cardinality({audio \in sounding[d] : audio.due = {}}) > 1 => d \in garbled

\* A clip is heard by every other device, near or at the end of a chain: no chunk
\* lost for another of its clip.  Unless a link failed, or the device turned the
\* clip away.
EverybodyHears ==
  Quiet /\ cut = {} =>
    \A d \in Device : \A e \in Device \ {d} : \A clip \in Made(e) \ missed[d] :
      Neighbours(d) # {} => clip \in ToSet(heard[d])

\* Together: every clip is heard once, and with nothing over it.
ClipsAreHeardOnce == ClipsPlayInTurn /\ EverybodyHears

\* In the end it is quiet: floods come to their end in a mesh with cycles, as long
\* as devices remember all the chunks there are; what was queued is played; and
\* the microphone is off though the button be held for good, unless a second
\* request for it overtook the first, or the browser would not record.
TheAirFallsSilent ==
  <>[] /\ \A d \in Device : sounding[d] = {}
       /\ \A wire \in DOMAIN air : air[wire] = {}
       /\ \A d \in Device : lit[d] # {} => mishaps[d] \cap {"asked twice", "refused"} # {}
=============================================================================
