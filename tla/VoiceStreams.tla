----------------------------- MODULE VoiceStreams -----------------------------
(***************************************************************************)
(* The media streams of the Twilio Voice adapter.  One instance serves all *)
(* calls; a stream's frames come in order, but each is a call of           *)
(* on_message() of its own, which runs up to the await on speech-to-text   *)
(* and goes on when that answers, after whatever other frames came.  By    *)
(* default every media frame is transcribed; with buffer_audio the frames  *)
(* pile up until the stop frame, or until the buffer is full.              *)
(* A chunk of audio is named by its number in its stream.                  *)
(***************************************************************************)
EXTENDS Naturals, FiniteSets

CONSTANTS
  VoiceStreamIds,     \* streams
  Phones,             \* callers
  MaxChunks,          \* bound: media frames of a stream
  MaxBufferChunks     \* max_buffer_bytes, in frames

ASSUME VoiceAssumption == MaxChunks \in Nat /\ MaxBufferChunks \in Nat \ {0}

VARIABLES
  buffer_audio,       \* the configuration
  stream_callers,     \* stream_callers[s]: the registered caller, NoPhone when there is none
  stream_buffers,     \* stream_buffers[s]: the chunks that wait
  hearing,            \* calls of on_message() that await speech-to-text
  voice_messages,     \* the envelopes with a transcript
  line,               \* line[s]: what Twilio sent of the stream
  spoken,             \* history: chunks sent in each stream
  dialled,            \* history: the caller its start frame named
  stopped             \* history: streams whose stop frame was understood

voice_vars == <<buffer_audio, stream_callers, stream_buffers, hearing, voice_messages,
                line, spoken, dialled, stopped>>

NoPhone == "none"

VoiceInit ==
  /\ buffer_audio \in BOOLEAN
  /\ stream_callers = [s \in VoiceStreamIds |-> NoPhone]
  /\ stream_buffers = [s \in VoiceStreamIds |-> {}]
  /\ hearing = {} /\ voice_messages = {} /\ stopped = {}
  /\ line = [s \in VoiceStreamIds |-> "new"]
  /\ spoken = [s \in VoiceStreamIds |-> 0]
  /\ dialled = [s \in VoiceStreamIds |-> NoPhone]

(* _handle_stream_start(); a frame that cannot be parsed (caller NoPhone)  *)
(* registers nothing.                                                      *)
StreamStarts(s, caller) ==
  /\ line[s] = "new"
  /\ line' = [line EXCEPT ![s] = "open"]
  /\ stream_callers' = [stream_callers EXCEPT ![s] = caller]
  /\ dialled' = [dialled EXCEPT ![s] = caller]
  /\ UNCHANGED <<buffer_audio, stream_buffers, hearing, voice_messages, spoken, stopped>>

(* What a call holds while it awaits the transcript: the buffer is taken   *)
(* and the caller looked up before.                                        *)
Hears(s, chunks, evicts) ==
  [stream |-> s, chunks |-> chunks, caller |-> stream_callers[s], evicts |-> evicts]

(* _handle_media_frame()                                                   *)
MediaArrives(s) ==
  LET chunk == spoken[s] + 1
      buffered == stream_buffers[s] \union {chunk}
      heard_now == IF ~buffer_audio THEN {chunk}
                   ELSE IF Cardinality(buffered) >= MaxBufferChunks THEN buffered ELSE {}
  IN  /\ line[s] = "open" /\ spoken[s] < MaxChunks
      /\ spoken' = [spoken EXCEPT ![s] = chunk]
      /\ stream_buffers' = [stream_buffers EXCEPT ![s] = buffered \ heard_now]
      /\ hearing' = IF heard_now = {} THEN hearing
                    ELSE hearing \union {Hears(s, heard_now, FALSE)}
      /\ UNCHANGED <<buffer_audio, stream_callers, voice_messages, line, dialled, stopped>>

(* _handle_stream_stop(): what is buffered is flushed, and the caller goes *)
(* after that; else both go now.                                           *)
StreamStops(s) ==
  LET flushes == stream_buffers[s] # {}
  IN  /\ line[s] = "open"
      /\ line' = [line EXCEPT ![s] = "over"]
      /\ stopped' = stopped \union {s}
      /\ stream_buffers' = [stream_buffers EXCEPT ![s] = {}]
      /\ hearing' = IF flushes THEN hearing \union {Hears(s, stream_buffers[s], TRUE)} ELSE hearing
      /\ stream_callers' = IF flushes THEN stream_callers
                           ELSE [stream_callers EXCEPT ![s] = NoPhone]
      /\ UNCHANGED <<buffer_audio, voice_messages, spoken, dialled>>

(* The call breaks off, or its stop frame cannot be parsed: what is        *)
(* registered and buffered stays for ever.                                 *)
StreamBreaks(s) ==
  /\ line[s] = "open"
  /\ line' = [line EXCEPT ![s] = "over"]
  /\ UNCHANGED <<buffer_audio, stream_callers, stream_buffers, hearing, voice_messages,
                 spoken, dialled, stopped>>

(* Mutant: the caller is looked up when the transcript is there.           *)
AttributedLate(h) == stream_callers[h.stream]

AttributedTo(h) == h.caller

(* Speech-to-text has answered or failed (an error keeps the recording).   *)
TranscriptReady(h) ==
  /\ h \in hearing
  /\ hearing' = hearing \ {h}
  /\ voice_messages' = voice_messages \union
       {[stream |-> h.stream, chunks |-> h.chunks, caller |-> AttributedTo(h)]}
  /\ stream_callers' = IF h.evicts THEN [stream_callers EXCEPT ![h.stream] = NoPhone]
                       ELSE stream_callers
  /\ UNCHANGED <<buffer_audio, stream_buffers, line, spoken, dialled, stopped>>

VoiceNext ==
  \/ \E s \in VoiceStreamIds :
       \/ \E caller \in Phones \union {NoPhone} : StreamStarts(s, caller)
       \/ MediaArrives(s) \/ StreamStops(s) \/ StreamBreaks(s)
  \/ \E h \in hearing : TranscriptReady(h)

VoiceSpec == VoiceInit /\ [][VoiceNext]_voice_vars
-------------------------------------------------------------------------------
ChunksOf(s) ==
  {stream_buffers[s]} \union {h.chunks : h \in {x \in hearing : x.stream = s}}
                      \union {m.chunks : m \in {x \in voice_messages : x.stream = s}}

(* Whatever calls overlap, what was said in a stream goes under the name   *)
(* its start frame gave, once and completely: each chunk is buffered, with *)
(* speech-to-text, or in one message; the buffer stays below its cap; and  *)
(* when the stop frame was dealt with nothing of the stream is kept.       *)
VoiceAttributed ==
  /\ \A x \in hearing \union voice_messages : x.caller = dialled[x.stream]
  /\ \A s \in VoiceStreamIds :
       /\ UNION ChunksOf(s) = 1..spoken[s]
       /\ \A a, b \in ChunksOf(s) : a # b => a \intersect b = {}
       /\ Cardinality(stream_buffers[s]) < MaxBufferChunks
       /\ s \in stopped /\ ~(\E h \in hearing : h.stream = s /\ h.evicts)
            => stream_callers[s] = NoPhone /\ stream_buffers[s] = {}
===============================================================================
