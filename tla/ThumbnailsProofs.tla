---------------------------- MODULE ThumbnailsProofs ----------------------------
(***************************************************************************)
(* Proofs about Thumbnails, for any number of images, requests and faults: *)
(* a thumbnail that is sent for the newest image shows it, and none is     *)
(* left of an image that was purged.                                       *)
(***************************************************************************)
EXTENDS Thumbnails, TLAPS

Decoded == {c \in Calls : call[c].pc \in {"truncate", "encode", "stamp"}}

\* The newest image has been replaced by an older one, or removed, for good.
Gone == clock \notin trashed \cup {image}

\* Nothing is dated after the newest image, and a request that writes has decoded an image.
Dated ==
    /\ \A c \in Calls : call[c].time <= clock
    /\ \A c \in Calls : call[c].pc # "idle" => call[c].time \in Images
    /\ \A c \in Decoded : call[c].image \in Images
    /\ thumb # NoFile => thumb.time <= clock

\* An image is in one place, and an older one is only back when the newest is gone.
Placed ==
    /\ image \notin trashed /\ purging \notin trashed
    /\ image # NoFile => image # purging
    /\ image \notin {NoFile, clock} => clock \notin trashed

\* Who writes has the thumbnail that is there open, unless it was removed.
Opened ==
    /\ \A c \in Calls \ Writers : ~call[c].lost
    /\ \A c \in Writers : ~call[c].lost => thumb # NoFile

\* A thumbnail that is not torn has one writer, and shows its image once encoded.
OneWriter ==
    thumb # NoFile /\ ~thumb.torn =>
        \A c \in Writers :
            /\ ~call[c].lost /\ \A d \in Writers : d = c
            /\ call[c].pc = "stamp" => thumb.shows = call[c].image

\* Who looked at the newest image has decoded it, or it is gone.
Looked == \A c \in Decoded : call[c].time = clock => call[c].image = clock \/ Gone

\* A thumbnail that nobody writes and that bears the time of the newest image shows it.
Settled ==
    thumb # NoFile /\ ~thumb.torn /\ Writers = {} /\ thumb.time = clock =>
        thumb.shows = clock \/ Gone

\* What is purged is nowhere.
Unseen ==
    /\ \A i \in purged : i <= clock
    /\ purged \cap ({image, purging} \cup trashed) = {}
    /\ \A c \in Calls : call[c].image \notin purged
    /\ PurgedUnseen

IInv ==
    /\ TypeOK /\ Dated /\ Placed /\ Opened /\ OneWriter /\ Looked /\ Settled /\ Unseen

-----------------------------------------------------------------------------
(* What the sets are.                                                      *)

\* Images are numbers, and neither of the two marks is one.
LEMMA ImageFacts ==
    /\ Images \subseteq Nat /\ NoFile \notin Images /\ Partial \notin Images
    /\ Partial # NoFile
    /\ \A i \in Images : i \in 0..MaxImages
BY ThumbnailAssumption DEF Images

LEMMA IdleCall ==
    /\ Idle \in Call /\ Idle.pc = "idle" /\ Idle.time = 0 /\ Idle.image = NoFile
    /\ Idle.lost = FALSE
BY ThumbnailAssumption DEF Idle, Call

-----------------------------------------------------------------------------
(* A step of one request.                                                  *)

\* A request that has answered, or not yet decoded, is no writer and keeps the invariant
\* as long as it leaves the thumbnail alone.
LEMMA NoWriterStep ==
    ASSUME IInv, NEW c \in Calls, NEW r \in Call, c \notin Writers,
           call' = [call EXCEPT ![c] = r], UNCHANGED <<images, thumb>>,
           faults' \in 0..MaxFaults,
           r.pc \in {"idle", "lookup", "decode", "truncate"}, ~r.lost,
           r.time <= clock, r.pc # "idle" => r.time \in Images,
           r.image \notin purged,
           r.pc = "truncate" => /\ r.image \in Images
                                /\ r.time = clock => r.image = clock \/ Gone
    PROVE  IInv'
<1>1. /\ call \in [Calls -> Call] /\ call' \in [Calls -> Call] /\ call'[c] = r
      /\ \A d \in Calls : d # c => call'[d] = call[d]
  BY DEF IInv, TypeOK
<1>2. /\ image' = image /\ trashed' = trashed /\ purging' = purging /\ clock' = clock
      /\ purged' = purged /\ thumb' = thumb /\ Gone' = Gone
  BY DEF images, Gone
<1>3. Writers' = Writers /\ c \notin Writers' BY <1>1 DEF Writers
<1>4. \A d \in Decoded' : d # c => d \in Decoded BY <1>1 DEF Decoded
<1>5. \A d \in Writers : d # c /\ d \in Calls /\ call'[d] = call[d] BY <1>1 DEF Writers
<1>6. TypeOK' BY <1>1, <1>2 DEF IInv, TypeOK
<1>7. Dated' BY <1>1, <1>2, <1>4 DEF IInv, Dated, Decoded
<1>8. Placed' BY <1>2 DEF IInv, Placed
<1>9. Opened' BY <1>1, <1>2, <1>3, <1>5 DEF IInv, Opened
<1>10. OneWriter' BY <1>2, <1>3, <1>5 DEF IInv, OneWriter
<1>11. Looked' BY <1>1, <1>2, <1>4 DEF IInv, Looked, Decoded
<1>12. Settled' BY <1>2, <1>3 DEF IInv, Settled
<1>13. Unseen' BY <1>1, <1>2 DEF IInv, Unseen, PurgedUnseen
<1> QED BY <1>6, <1>7, <1>8, <1>9, <1>10, <1>11, <1>12, <1>13 DEF IInv

LEMMA StatKeeps ==
    ASSUME IInv, NEW c \in Calls, Stat(c) PROVE IInv'
<1> DEFINE r == [Idle EXCEPT !.pc = "lookup", !.time = image]
<1>1. /\ call[c].pc = "idle" /\ image \in Images /\ image <= clock
      /\ call' = [call EXCEPT ![c] = r] /\ UNCHANGED <<images, thumb, faults>>
  BY DEF Stat, At, IInv, TypeOK
<1>2. /\ r \in Call /\ r.pc = "lookup" /\ r.time = image /\ r.image = NoFile /\ ~r.lost
  BY <1>1, IdleCall, ImageFacts DEF Idle, Call
<1>3. c \notin Writers BY <1>1 DEF Writers
<1>4. NoFile \notin purged /\ faults \in 0..MaxFaults BY ImageFacts DEF IInv, TypeOK
<1> QED BY <1>1, <1>2, <1>3, <1>4, NoWriterStep

LEMMA LookupKeeps ==
    ASSUME IInv, NEW c \in Calls, Lookup(c) PROVE IInv'
<1>1. /\ call[c].pc = "lookup" /\ UNCHANGED <<images, thumb, faults>>
      /\ \/ call' = [call EXCEPT ![c] = Idle]
         \/ call' = [call EXCEPT ![c] = [@ EXCEPT !.pc = "decode"]]
  BY DEF Lookup, At, Answer, GoTo
<1>2. c \notin Writers /\ c \notin Decoded /\ call \in [Calls -> Call] /\ call[c] \in Call
  BY <1>1 DEF Writers, Decoded, IInv, TypeOK
<1>3. NoFile \notin purged /\ faults \in 0..MaxFaults /\ clock \in Nat
  BY ImageFacts DEF IInv, TypeOK
<1>4. CASE call' = [call EXCEPT ![c] = Idle]
  <2>1. /\ Idle \in Call /\ Idle.pc = "idle" /\ Idle.time <= clock
        /\ Idle.image \notin purged /\ ~Idle.lost
    BY <1>3, IdleCall
  <2>2. UNCHANGED <<images, thumb>> /\ faults' \in 0..MaxFaults BY <1>1, <1>3
  <2> QED BY <1>2, <1>4, <2>1, <2>2, NoWriterStep
<1>5. CASE call' = [call EXCEPT ![c] = [@ EXCEPT !.pc = "decode"]]
  <2> DEFINE r == [call[c] EXCEPT !.pc = "decode"]
  <2>1. /\ r \in Call /\ r.pc = "decode" /\ r.time = call[c].time
        /\ r.image = call[c].image /\ r.lost = call[c].lost
    BY <1>2 DEF Call
  <2>2. /\ ~call[c].lost /\ call[c].time <= clock /\ call[c].time \in Images
        /\ call[c].image \notin purged
    BY <1>1, <1>2 DEF IInv, Opened, Dated, Unseen
  <2>3. call' = [call EXCEPT ![c] = r] BY <1>2, <1>5
  <2> QED BY <1>1, <1>2, <1>3, <2>1, <2>2, <2>3, NoWriterStep
<1> QED BY <1>1, <1>4, <1>5

LEMMA DecodeKeeps ==
    ASSUME IInv, NEW c \in Calls, Decode(c) PROVE IInv'
<1>1. /\ call[c].pc = "decode" /\ UNCHANGED <<images, thumb, faults>>
      /\ IF image = NoFile THEN call' = [call EXCEPT ![c] = Idle]
         ELSE call' = [call EXCEPT ![c] = [@ EXCEPT !.pc = "truncate", !.image = image]]
  BY DEF Decode, At, Answer
<1>2. c \notin Writers /\ call \in [Calls -> Call] /\ call[c] \in Call
  BY <1>1 DEF Writers, IInv, TypeOK
<1>3. NoFile \notin purged /\ faults \in 0..MaxFaults /\ clock \in Nat
  BY ImageFacts DEF IInv, TypeOK
<1>4. CASE image = NoFile
  BY <1>1, <1>2, <1>3, <1>4, IdleCall, NoWriterStep
<1>5. CASE image # NoFile
  <2> DEFINE r == [call[c] EXCEPT !.pc = "truncate", !.image = image]
  <2>1. image \in Images /\ image \notin purged BY <1>5 DEF IInv, TypeOK, Unseen
  <2>2. /\ r \in Call /\ r.pc = "truncate" /\ r.time = call[c].time
        /\ r.image = image /\ r.lost = call[c].lost
    BY <1>2, <2>1 DEF Call
  <2>3. ~call[c].lost /\ call[c].time <= clock /\ call[c].time \in Images
    BY <1>1, <1>2 DEF IInv, Opened, Dated
  <2>4. image = clock \/ Gone BY <1>5 DEF IInv, Placed, Gone
  <2>5. call' = [call EXCEPT ![c] = r] BY <1>1, <1>2, <1>5
  <2> QED BY <1>1, <1>2, <1>3, <2>1, <2>2, <2>3, <2>4, <2>5, NoWriterStep
<1> QED BY <1>4, <1>5

LEMMA TruncateKeeps ==
    ASSUME IInv, NEW c \in Calls, Truncate(c) PROVE IInv'
<1>1. /\ call[c].pc = "truncate" /\ UNCHANGED images
      /\ faults' \in {faults, faults + 1} /\ (faults' = faults \/ faults < MaxFaults)
      /\ \/ /\ thumb' = [shows |-> Partial, time |-> clock, torn |-> Writers # {}]
            /\ call' = [call EXCEPT ![c] = [@ EXCEPT !.pc = "encode"]]
         \/ call' = [call EXCEPT ![c] = Idle] /\ thumb' = thumb
  BY DEF Truncate, At, Answer, GoTo, NoFault, Fault
<1>2. /\ c \notin Writers /\ c \in Decoded /\ call \in [Calls -> Call] /\ call[c] \in Call
  BY <1>1 DEF Writers, Decoded, IInv, TypeOK
<1>3. NoFile \notin purged /\ faults' \in 0..MaxFaults /\ clock \in Images /\ clock \in Nat
  BY <1>1, ImageFacts, ThumbnailAssumption DEF IInv, TypeOK
<1>4. CASE call' = [call EXCEPT ![c] = Idle] /\ thumb' = thumb
  <2>1. /\ Idle \in Call /\ Idle.pc = "idle" /\ Idle.time <= clock
        /\ Idle.image \notin purged /\ ~Idle.lost
    BY <1>3, IdleCall
  <2> QED BY <1>1, <1>2, <1>3, <1>4, <2>1, NoWriterStep
<1>5. CASE /\ thumb' = [shows |-> Partial, time |-> clock, torn |-> Writers # {}]
           /\ call' = [call EXCEPT ![c] = [@ EXCEPT !.pc = "encode"]]
  <2>1. /\ call'[c] \in Call /\ call'[c].pc = "encode" /\ call'[c].time = call[c].time
        /\ call'[c].image = call[c].image /\ call'[c].lost = call[c].lost
        /\ \A d \in Calls : d # c => call'[d] = call[d]
        /\ call' \in [Calls -> Call]
    BY <1>2, <1>5 DEF Call
  <2>2. /\ thumb' \in Thumb /\ thumb' # NoFile /\ thumb'.shows = Partial
        /\ thumb'.time = clock /\ thumb'.torn = (Writers # {})
    <3>1. thumb' \in Thumb BY <1>3, <1>5 DEF Thumb
    <3> QED BY <1>5, <3>1, NoThumbAssumption
  <2>3. /\ image' = image /\ trashed' = trashed /\ purging' = purging /\ clock' = clock
        /\ purged' = purged /\ Gone' = Gone
    BY <1>1 DEF images, Gone
  <2>4. Writers' = Writers \cup {c} /\ Decoded' = Decoded
    BY <1>2, <2>1 DEF Writers, Decoded
  <2>5. \A d \in Writers : d \in Calls /\ d # c /\ call'[d] = call[d]
    BY <1>2, <2>1 DEF Writers
  <2>6. TypeOK' BY <1>3, <2>1, <2>2, <2>3 DEF IInv, TypeOK
  <2>7. Dated' BY <1>3, <2>1, <2>2, <2>3, <2>4 DEF IInv, Dated, Decoded
  <2>8. Placed' BY <2>3 DEF IInv, Placed
  <2>9. Opened' BY <1>2, <2>1, <2>2, <2>4, <2>5 DEF IInv, Opened
  <2>10. OneWriter' BY <1>2, <2>1, <2>2, <2>4, <2>5 DEF IInv, OneWriter, Opened
  <2>11. Looked' BY <2>1, <2>3, <2>4 DEF IInv, Looked, Decoded
  <2>12. Settled' BY <2>4 DEF Settled
  <2>13. Unseen' BY <2>1, <2>2, <2>3, ImageFacts DEF IInv, Unseen, PurgedUnseen, TypeOK
  <2> QED BY <2>6, <2>7, <2>8, <2>9, <2>10, <2>11, <2>12, <2>13 DEF IInv
<1> QED BY <1>1, <1>4, <1>5

\* Who gives up while writing leaves a torn thumbnail, or none.
LEMMA GivenUp ==
    ASSUME IInv, NEW c \in Calls, faults' \in 0..MaxFaults,
           image' = image, trashed' = trashed, purging' = purging, clock' = clock,
           purged' = purged, call' = [call EXCEPT ![c] = Idle],
           \/ thumb' = thumb /\ (thumb = NoFile \/ thumb.torn)
           \/ thumb \in Thumb /\ thumb # NoFile /\ thumb' = [thumb EXCEPT !.torn = TRUE]
    PROVE  IInv'
<1>1. /\ call \in [Calls -> Call] /\ call' \in [Calls -> Call] /\ call'[c] = Idle
      /\ \A d \in Calls : d # c => call'[d] = call[d]
  BY IdleCall DEF IInv, TypeOK
<1>2. /\ thumb' \in Thumb \cup {NoFile} /\ (thumb' = NoFile <=> thumb = NoFile)
      /\ thumb' # NoFile =>
            thumb'.torn /\ thumb'.time = thumb.time /\ thumb'.shows = thumb.shows
  <2>1. CASE thumb' = thumb /\ (thumb = NoFile \/ thumb.torn) BY <2>1 DEF IInv, TypeOK
  <2>2. CASE thumb \in Thumb /\ thumb # NoFile /\ thumb' = [thumb EXCEPT !.torn = TRUE]
    <3>1. thumb' \in Thumb BY <2>2 DEF Thumb
    <3> QED BY <2>2, <3>1, NoThumbAssumption DEF Thumb
  <2> QED BY <2>1, <2>2
<1>3. Gone' = Gone /\ clock \in Nat /\ NoFile \notin purged
  BY ImageFacts DEF Gone, IInv, TypeOK
<1>4. Writers' = Writers \ {c} /\ Decoded' = Decoded \ {c}
  BY <1>1, IdleCall DEF Writers, Decoded
<1>5. TypeOK' BY <1>1, <1>2 DEF IInv, TypeOK
<1>6. Dated' BY <1>1, <1>2, <1>3, <1>4, IdleCall DEF IInv, Dated, Decoded
<1>7. Placed' BY DEF IInv, Placed
<1>8. Opened' BY <1>1, <1>2, <1>4, IdleCall DEF IInv, Opened, Writers
<1>9. OneWriter' /\ Settled' BY <1>2 DEF OneWriter, Settled
<1>10. Looked' BY <1>1, <1>3, <1>4 DEF IInv, Looked, Decoded
<1>11. Unseen' BY <1>1, <1>2, <1>3, IdleCall DEF IInv, Unseen, PurgedUnseen
<1> QED BY <1>5, <1>6, <1>7, <1>8, <1>9, <1>10, <1>11 DEF IInv

LEMMA EncodeKeeps ==
    ASSUME IInv, NEW c \in Calls, Encode(c) PROVE IInv'
<1>1. /\ call[c].pc = "encode" /\ UNCHANGED images
      /\ faults' \in {faults, faults + 1} /\ (faults' = faults \/ faults < MaxFaults)
      /\ \/ /\ \/ thumb' = IF call[c].lost THEN thumb
                           ELSE [thumb EXCEPT !.shows = call[c].image, !.time = clock]
               \/ ~call[c].lost /\ thumb.torn /\ thumb' = [thumb EXCEPT !.time = clock]
            /\ call' = [call EXCEPT ![c] = [@ EXCEPT !.pc = "stamp"]]
         \/ /\ thumb' = IF call[c].lost THEN thumb ELSE [thumb EXCEPT !.torn = TRUE]
            /\ call' = [call EXCEPT ![c] = Idle]
  BY DEF Encode, At, Answer, GoTo, NoFault, Fault
<1>2. /\ c \in Writers /\ c \in Decoded /\ call \in [Calls -> Call] /\ call[c] \in Call
      /\ ~call[c].lost => thumb \in Thumb
  BY <1>1 DEF Writers, Decoded, IInv, TypeOK, Opened
<1>3. NoFile \notin purged /\ faults' \in 0..MaxFaults /\ clock \in Images /\ clock \in Nat
  BY <1>1, ImageFacts, ThumbnailAssumption DEF IInv, TypeOK
<1>4. call[c].image \in Images /\ call[c].image \notin purged
  BY <1>2 DEF IInv, Dated, Unseen
<1>5. /\ image' = image /\ trashed' = trashed /\ purging' = purging /\ clock' = clock
      /\ purged' = purged /\ Gone' = Gone
  BY <1>1 DEF images, Gone
<1>6. Placed' BY <1>5 DEF IInv, Placed
<1>7. CASE /\ \/ thumb' = IF call[c].lost THEN thumb
                         ELSE [thumb EXCEPT !.shows = call[c].image, !.time = clock]
              \/ ~call[c].lost /\ thumb.torn /\ thumb' = [thumb EXCEPT !.time = clock]
           /\ call' = [call EXCEPT ![c] = [@ EXCEPT !.pc = "stamp"]]
  <2>1. /\ call'[c] \in Call /\ call'[c].pc = "stamp" /\ call'[c].time = call[c].time
        /\ call'[c].image = call[c].image /\ call'[c].lost = call[c].lost
        /\ \A d \in Calls : d # c => call'[d] = call[d]
        /\ call' \in [Calls -> Call]
    BY <1>2, <1>7 DEF Call
  <2>2. Writers' = Writers /\ Decoded' = Decoded
    BY <1>2, <2>1 DEF Writers, Decoded
  <2>3. CASE call[c].lost /\ thumb' = thumb
    <3>1. TypeOK' BY <1>3, <1>5, <2>1, <2>3 DEF IInv, TypeOK
    <3>2. Dated' BY <1>5, <2>1, <2>2, <2>3 DEF IInv, Dated, Decoded
    <3>3. Opened'
      <4>1. \A d \in Calls : d # c => call'[d] = call[d] BY <2>1
      <4>2. call'[c].lost /\ c \in Writers BY <1>2, <2>1, <2>3
      <4> QED BY <2>2, <2>3, <4>1, <4>2 DEF IInv, Opened, Writers
    <3>4. OneWriter' BY <1>2, <2>1, <2>2, <2>3 DEF IInv, OneWriter
    <3>5. Looked' BY <1>5, <2>1, <2>2 DEF IInv, Looked, Decoded
    <3>6. Settled' BY <1>2, <2>2 DEF Settled
    <3>7. Unseen' BY <1>5, <2>1, <2>3 DEF IInv, Unseen, PurgedUnseen
    <3> QED BY <1>6, <3>1, <3>2, <3>3, <3>4, <3>5, <3>6, <3>7 DEF IInv
  <2>4. CASE /\ ~call[c].lost
             /\ \/ thumb' = [thumb EXCEPT !.shows = call[c].image, !.time = clock]
                \/ thumb.torn /\ thumb' = [thumb EXCEPT !.time = clock]
    <3>0. /\ thumb \in Thumb /\ thumb # NoFile /\ thumb' \in Thumb /\ thumb' # NoFile
          /\ thumb'.time = clock /\ thumb'.torn = thumb.torn
          /\ \/ thumb'.shows = call[c].image
             \/ thumb'.torn /\ thumb'.shows = thumb.shows
      <4>1. thumb \in Thumb /\ thumb # NoFile BY <1>2, <2>4, NoThumbAssumption
      <4>2. CASE thumb' = [thumb EXCEPT !.shows = call[c].image, !.time = clock]
        <5>1. thumb' = [shows |-> call[c].image, time |-> clock, torn |-> thumb.torn]
          BY <4>1, <4>2 DEF Thumb
        <5>2. thumb' \in Thumb BY <1>3, <1>4, <4>1, <5>1 DEF Thumb
        <5> QED BY <4>1, <5>1, <5>2, NoThumbAssumption
      <4>3. CASE thumb.torn /\ thumb' = [thumb EXCEPT !.time = clock]
        <5>1. thumb' = [shows |-> thumb.shows, time |-> clock, torn |-> thumb.torn]
          BY <4>1, <4>3 DEF Thumb
        <5>2. thumb' \in Thumb BY <1>3, <4>1, <5>1 DEF Thumb
        <5> QED BY <4>1, <4>3, <5>1, <5>2, NoThumbAssumption
      <4> QED BY <2>4, <4>2, <4>3
    <3>1. TypeOK' BY <1>3, <1>5, <2>1, <3>0 DEF IInv, TypeOK
    <3>2. Dated' BY <1>3, <1>5, <2>1, <2>2, <3>0 DEF IInv, Dated, Decoded
    <3>3. Opened' BY <1>2, <2>1, <2>2, <3>0 DEF IInv, Opened
    <3>4. OneWriter' BY <1>2, <2>1, <2>2, <3>0 DEF IInv, OneWriter
    <3>5. Looked' BY <1>5, <2>1, <2>2 DEF IInv, Looked, Decoded
    <3>6. Settled' BY <1>2, <2>2 DEF Settled
    <3>7. Unseen' BY <1>4, <1>5, <2>1, <3>0 DEF IInv, Unseen, PurgedUnseen
    <3> QED BY <1>6, <3>1, <3>2, <3>3, <3>4, <3>5, <3>6, <3>7 DEF IInv
  <2> QED BY <1>7, <2>3, <2>4
<1>8. CASE /\ thumb' = IF call[c].lost THEN thumb ELSE [thumb EXCEPT !.torn = TRUE]
           /\ call' = [call EXCEPT ![c] = Idle]
  <2>1. \/ thumb' = thumb /\ (thumb = NoFile \/ thumb.torn)
        \/ thumb \in Thumb /\ thumb # NoFile /\ thumb' = [thumb EXCEPT !.torn = TRUE]
    BY <1>2, <1>8 DEF IInv, TypeOK, Opened, OneWriter
  <2> QED BY <1>2, <1>3, <1>5, <1>8, <2>1, GivenUp
<1> QED BY <1>1, <1>7, <1>8

LEMMA StampKeeps ==
    ASSUME IInv, NEW c \in Calls, Stamp(c) PROVE IInv'
<1>1. /\ call[c].pc = "stamp" /\ UNCHANGED images /\ call' = [call EXCEPT ![c] = Idle]
      /\ faults' \in {faults, faults + 1} /\ (faults' = faults \/ faults < MaxFaults)
      /\ \/ thumb' = IF thumb = NoFile THEN thumb ELSE [thumb EXCEPT !.time = call[c].time]
         \/ thumb' = IF thumb = NoFile THEN thumb ELSE [thumb EXCEPT !.torn = TRUE]
  BY DEF Stamp, At, Answer, NoFault, Fault, Stamped
<1>2. /\ c \in Writers /\ c \in Decoded /\ call \in [Calls -> Call] /\ call[c] \in Call
      /\ thumb # NoFile => thumb \in Thumb
  BY <1>1 DEF Writers, Decoded, IInv, TypeOK
<1>3. NoFile \notin purged /\ faults' \in 0..MaxFaults /\ clock \in Images /\ clock \in Nat
  BY <1>1, ImageFacts, ThumbnailAssumption DEF IInv, TypeOK
<1>4. /\ image' = image /\ trashed' = trashed /\ purging' = purging /\ clock' = clock
      /\ purged' = purged /\ Gone' = Gone
  BY <1>1 DEF images, Gone
<1>5. CASE \/ thumb = NoFile /\ thumb' = thumb
           \/ thumb # NoFile /\ thumb' = [thumb EXCEPT !.torn = TRUE]
  BY <1>1, <1>2, <1>3, <1>4, <1>5, GivenUp
<1>6. CASE thumb # NoFile /\ thumb' = [thumb EXCEPT !.time = call[c].time]
  <2>1. call[c].time \in Images /\ call[c].time <= clock BY <1>1, <1>2 DEF IInv, Dated
  <2>2. thumb' = [shows |-> thumb.shows, time |-> call[c].time, torn |-> thumb.torn]
    BY <1>2, <1>6 DEF Thumb
  <2>3. thumb' \in Thumb /\ thumb' # NoFile
    <3>1. thumb' \in Thumb BY <1>2, <1>6, <2>1, <2>2 DEF Thumb
    <3> QED BY <3>1, NoThumbAssumption
  <2>4. /\ call' \in [Calls -> Call] /\ call'[c] = Idle
        /\ \A d \in Calls : d # c => call'[d] = call[d]
    BY <1>1, <1>2, IdleCall
  <2>5. Writers' = Writers \ {c} /\ Decoded' = Decoded \ {c}
    BY <2>4, IdleCall DEF Writers, Decoded
  <2>6. TypeOK' BY <1>3, <1>4, <2>3, <2>4 DEF IInv, TypeOK
  <2>7. Dated' BY <1>3, <1>4, <2>1, <2>2, <2>4, <2>5, IdleCall DEF IInv, Dated, Decoded
  <2>8. Placed' BY <1>4 DEF IInv, Placed
  <2>9. Opened' BY <2>3, <2>4, <2>5, IdleCall DEF IInv, Opened, Writers
  <2>10. OneWriter'
    <3> SUFFICES ASSUME ~thumb'.torn, NEW d \in Writers' PROVE FALSE BY DEF OneWriter
    <3>1. d \in Writers /\ d # c /\ ~thumb.torn BY <2>2, <2>5
    <3> QED BY <1>2, <1>6, <3>1 DEF IInv, OneWriter
  <2>11. Looked' BY <1>4, <2>4, <2>5 DEF IInv, Looked, Decoded
  <2>12. Settled'
    <3> SUFFICES ASSUME ~thumb'.torn, thumb'.time = clock
                 PROVE  thumb'.shows = clock \/ Gone
      BY <1>4 DEF Settled
    <3>1. thumb.shows = call[c].image /\ call[c].time = clock
      BY <1>1, <1>2, <1>6, <2>2 DEF IInv, OneWriter
    <3> QED BY <1>2, <2>2, <3>1 DEF IInv, Looked
  <2>13. Unseen' BY <1>3, <1>4, <1>6, <2>2, <2>4, IdleCall DEF IInv, Unseen, PurgedUnseen
  <2> QED BY <2>6, <2>7, <2>8, <2>9, <2>10, <2>11, <2>12, <2>13 DEF IInv
<1> QED BY <1>1, <1>5, <1>6

-----------------------------------------------------------------------------
(* What the other operations do.                                           *)

\* Another image is newer than every thumbnail.
LEMMA ReplaceKeeps ==
    ASSUME IInv, Replace PROVE IInv'
<1>1. /\ clock' = clock + 1 /\ clock' \in Images /\ image' = clock'
      /\ trashed' = trashed /\ purging' = purging /\ thumb' = thumb /\ call' = call
      /\ faults' = faults /\ purged' = purged
  BY DEF Replace
<1>2. /\ clock \in Nat /\ clock < clock' /\ NoFile # clock'
      /\ trashed \subseteq Images /\ Images \subseteq Nat
  BY <1>1, ImageFacts DEF IInv, TypeOK
<1>3. \A i \in Images : i <= clock => i <= clock' /\ i # clock'
  BY <1>1, <1>2
<1>4. Writers' = Writers /\ Decoded' = Decoded BY <1>1 DEF Writers, Decoded
<1>5. clock' \notin trashed /\ clock' # purging /\ clock' \notin purged
  BY <1>1, <1>2, <1>3 DEF IInv, TypeOK, Unseen
<1>6. TypeOK' BY <1>1, <1>2, <1>3 DEF IInv, TypeOK
<1>7. \A d \in Calls : call[d].time \in Nat /\ call[d].time < clock'
  BY <1>1, <1>2 DEF IInv, TypeOK, Call, Dated
<1>8. thumb # NoFile => thumb.time \in Nat /\ thumb.time < clock'
  <2> SUFFICES ASSUME thumb # NoFile PROVE thumb.time \in Nat /\ thumb.time < clock' OBVIOUS
  <2>1. thumb \in Thumb BY DEF IInv, TypeOK
  <2>2. thumb.time \in Nat /\ thumb.time <= clock BY <1>2, <2>1 DEF Thumb, IInv, Dated
  <2> QED BY <1>1, <1>2, <2>2
<1>9. Dated' BY <1>1, <1>2, <1>4, <1>7, <1>8 DEF IInv, Dated
<1>10. Placed' BY <1>1, <1>5 DEF IInv, Placed
<1>11. Opened' /\ OneWriter' BY <1>1, <1>4 DEF IInv, Opened, OneWriter
<1>12. Looked' BY <1>1, <1>2, <1>4, <1>7 DEF Looked, Decoded
<1>13. Settled' BY <1>1, <1>2, <1>8 DEF Settled
<1>14. Unseen' BY <1>1, <1>2, <1>3, <1>5 DEF IInv, TypeOK, Unseen, PurgedUnseen
<1> QED BY <1>6, <1>9, <1>10, <1>11, <1>12, <1>13, <1>14 DEF IInv

\* Moving the images about changes nothing for the requests, unless it brings back the
\* newest one after it was gone.
LEMMA MovedKeeps ==
    ASSUME IInv, TypeOK', Placed', Unseen', Gone => Gone', UNCHANGED <<clock, thumb, call>>
    PROVE  IInv'
<1>1. Writers' = Writers /\ Decoded' = Decoded BY DEF Writers, Decoded
<1>2. Dated' /\ Opened' /\ OneWriter' BY <1>1 DEF IInv, Dated, Opened, OneWriter
<1>3. Looked' /\ Settled' BY <1>1 DEF IInv, Looked, Settled
<1> QED BY <1>2, <1>3 DEF IInv

LEMMA SoftDeleteKeeps ==
    ASSUME IInv, SoftDelete PROVE IInv'
<1>1. /\ image \in Images /\ trashed' = trashed \cup {image} /\ image' = NoFile
      /\ UNCHANGED <<purging, clock, thumb, call, faults, purged>>
      /\ NoFile \notin Images
  BY ImageFacts DEF SoftDelete, IInv, TypeOK
<1>2. TypeOK' BY <1>1 DEF IInv, TypeOK
<1>3. Placed' BY <1>1 DEF IInv, TypeOK, Placed
<1>4. Unseen' BY <1>1 DEF IInv, TypeOK, Unseen, PurgedUnseen
<1>5. Gone => Gone' BY <1>1 DEF IInv, TypeOK, Gone
<1> QED BY <1>1, <1>2, <1>3, <1>4, <1>5, MovedKeeps

LEMMA RestoreKeeps ==
    ASSUME IInv, Restore PROVE IInv'
<1>1. PICK i \in trashed :
        /\ image = NoFile /\ \A j \in trashed : j <= i
        /\ image' = i /\ trashed' = trashed \ {i}
        /\ UNCHANGED <<purging, clock, thumb, call, faults, purged>>
  BY DEF Restore
<1>2. i \in Images /\ i <= clock /\ i \in Nat /\ clock \in Nat /\ i # NoFile
  BY ImageFacts DEF IInv, TypeOK
<1>3. TypeOK' BY <1>1, <1>2 DEF IInv, TypeOK
<1>4. clock \in trashed => i = clock BY <1>1, <1>2
<1>5. Placed' BY <1>1, <1>4 DEF IInv, TypeOK, Placed
<1>6. Unseen' BY <1>1 DEF IInv, TypeOK, Unseen, PurgedUnseen
<1>7. Gone => Gone' BY <1>1, <1>2 DEF IInv, TypeOK, Gone
<1> QED BY <1>1, <1>3, <1>5, <1>6, <1>7, MovedKeeps

LEMMA PurgeKeeps ==
    ASSUME IInv, Purge PROVE IInv'
<1>1. PICK i \in trashed :
        /\ purging = NoFile /\ purging' = i /\ trashed' = trashed \ {i}
        /\ UNCHANGED <<image, clock, thumb, call, faults, purged>>
  BY DEF Purge
<1>2. i \in Images BY DEF IInv, TypeOK
<1>3. TypeOK' BY <1>1, <1>2 DEF IInv, TypeOK
<1>4. Placed' BY <1>1 DEF IInv, TypeOK, Placed
<1>5. Unseen' BY <1>1 DEF IInv, TypeOK, Unseen, PurgedUnseen
<1>6. Gone => Gone' BY <1>1 DEF IInv, TypeOK, Gone
<1> QED BY <1>1, <1>3, <1>4, <1>5, <1>6, MovedKeeps

LEMMA PurgeThumbnailKeeps ==
    ASSUME IInv, PurgeThumbnail PROVE IInv'
<1>1. /\ purging \in Images /\ purging' = NoFile
      /\ UNCHANGED <<image, trashed, clock>>
      /\ faults' \in {faults, faults + 1} /\ (faults' = faults \/ faults < MaxFaults)
      /\ \/ /\ thumb' = NoFile
            /\ call' = [c \in Calls |-> [call[c] EXCEPT !.lost = @ \/ c \in Writers]]
            /\ purged' = IF \E c \in Calls : call[c].image = purging THEN purged
                         ELSE purged \cup {purging}
         \/ UNCHANGED <<thumb, call, purged>>
  BY DEF PurgeThumbnail, NoFault, Fault, Unlinked, IInv, TypeOK
<1>2. /\ NoFile \notin Images /\ faults' \in 0..MaxFaults /\ purged \subseteq Images
      /\ trashed \subseteq Images /\ (Gone => Gone')
  BY <1>1, ImageFacts, ThumbnailAssumption DEF IInv, TypeOK, Gone
<1>3. Placed' BY <1>1, <1>2 DEF IInv, TypeOK, Placed
<1>4. CASE UNCHANGED <<thumb, call, purged>>
  <2>1. TypeOK' BY <1>1, <1>2, <1>4 DEF IInv, TypeOK
  <2>2. Unseen' BY <1>1, <1>2, <1>4 DEF IInv, TypeOK, Unseen, PurgedUnseen
  <2> QED BY <1>1, <1>2, <1>3, <1>4, <2>1, <2>2, MovedKeeps
<1>5. CASE /\ thumb' = NoFile
           /\ call' = [c \in Calls |-> [call[c] EXCEPT !.lost = @ \/ c \in Writers]]
           /\ purged' = IF \E c \in Calls : call[c].image = purging THEN purged
                        ELSE purged \cup {purging}
  <2>1. ASSUME NEW c \in Calls
        PROVE  /\ call'[c] \in Call /\ call'[c].pc = call[c].pc /\ call'[c].time = call[c].time
               /\ call'[c].image = call[c].image
               /\ call'[c].lost <=> call[c].lost \/ c \in Writers
    <3>1. call[c] \in Call /\ call'[c] = [call[c] EXCEPT !.lost = @ \/ c \in Writers]
      BY <1>5 DEF IInv, TypeOK
    <3> QED BY <3>1 DEF Call
  <2>2. call' \in [Calls -> Call] BY <1>5, <2>1
  <2>3. Writers' = Writers /\ Decoded' = Decoded /\ Decoded \subseteq Calls
        /\ Writers \subseteq Calls
    BY <2>1 DEF Writers, Decoded
  <2>4. purged' \subseteq purged \cup {purging} /\ \A c \in Calls : call[c].image \notin purged'
    BY <1>5 DEF IInv, Unseen
  <2>5. TypeOK' BY <1>1, <1>2, <1>5, <2>2, <2>4 DEF IInv, TypeOK
  <2>6. Dated' BY <1>1, <1>5, <2>1, <2>3 DEF IInv, Dated
  <2>7. Opened' BY <1>5, <2>1, <2>3 DEF IInv, Opened
  <2>8. OneWriter' /\ Settled' BY <1>5 DEF OneWriter, Settled
  <2>9. Looked' BY <1>1, <1>2, <2>1, <2>3 DEF IInv, Looked
  <2>10. Unseen'
    <3>1. purging <= clock /\ \A i \in purged : i <= clock BY <1>1, <1>2 DEF IInv, TypeOK, Unseen
    <3>2. \A i \in purged' : i <= clock' BY <1>1, <2>4, <3>1
    <3>3. purging # image /\ purging \notin trashed BY <1>1, <1>2 DEF IInv, Placed
    <3>4. purged' \cap ({image, NoFile} \cup trashed) = {}
      BY <1>1, <1>2, <2>4, <3>3 DEF IInv, Unseen
    <3>5. \A c \in Calls : call'[c].image \notin purged' BY <2>1, <2>4
    <3> QED BY <1>1, <1>5, <3>2, <3>4, <3>5 DEF Unseen, PurgedUnseen
  <2> QED BY <1>3, <2>5, <2>6, <2>7, <2>8, <2>9, <2>10 DEF IInv
<1> QED BY <1>1, <1>4, <1>5

\* After a crash nobody writes, and what was being written is torn.
LEMMA CrashKeeps ==
    ASSUME IInv, Crash PROVE IInv'
<1>1. /\ faults' \in 0..MaxFaults
      /\ thumb' = IF thumb = NoFile THEN thumb
                  ELSE [thumb EXCEPT !.torn = @ \/ Writers # {}]
      /\ call' = [c \in Calls |-> Idle] /\ purging' = NoFile
      /\ UNCHANGED <<image, trashed, clock, purged>>
  BY ThumbnailAssumption DEF Crash, Fault, IInv, TypeOK
<1>2. /\ NoFile \notin Images /\ purged \subseteq Images /\ trashed \subseteq Images
      /\ clock \in Nat /\ Gone' = Gone
  BY <1>1, ImageFacts DEF IInv, TypeOK, Gone
<1>3. /\ thumb' \in Thumb \cup {NoFile}
      /\ thumb' # NoFile => /\ thumb # NoFile /\ thumb'.time = thumb.time
                            /\ thumb'.shows = thumb.shows
                            /\ ~thumb'.torn => ~thumb.torn /\ Writers = {}
  <2>1. CASE thumb = NoFile BY <1>1, <2>1
  <2>2. CASE thumb # NoFile
    <3>1. thumb \in Thumb /\ thumb' = [thumb EXCEPT !.torn = @ \/ Writers # {}]
      BY <1>1, <2>2 DEF IInv, TypeOK
    <3>2. /\ thumb' \in Thumb /\ thumb'.time = thumb.time /\ thumb'.shows = thumb.shows
          /\ thumb'.torn <=> thumb.torn \/ Writers # {}
      BY <3>1 DEF Thumb
    <3> QED BY <2>2, <3>2
  <2> QED BY <2>1, <2>2
<1>4. Writers' = {} /\ Decoded' = {} BY <1>1, IdleCall DEF Writers, Decoded
<1>5. \A c \in Calls : call'[c] = Idle BY <1>1
<1>6. TypeOK' BY <1>1, <1>3, IdleCall DEF IInv, TypeOK
<1>7. Dated' BY <1>1, <1>2, <1>3, <1>4, <1>5, IdleCall DEF IInv, Dated
<1>8. Placed' BY <1>1, <1>2 DEF IInv, TypeOK, Placed
<1>9. Opened' /\ OneWriter' /\ Looked' BY <1>4, <1>5, IdleCall DEF Opened, OneWriter, Looked
<1>10. Settled' BY <1>1, <1>2, <1>3 DEF IInv, Settled
<1>11. Unseen' BY <1>1, <1>2, <1>3, <1>5, IdleCall DEF IInv, TypeOK, Unseen, PurgedUnseen
<1> QED BY <1>6, <1>7, <1>8, <1>9, <1>10, <1>11 DEF IInv

-----------------------------------------------------------------------------
(* The theorems                                                            *)

LEMMA InitInvariant ==
    ASSUME Init PROVE IInv
<1>1. /\ image \in {NoFile, 1} /\ clock = 1 /\ trashed = {} /\ purging = NoFile
      /\ thumb = NoFile /\ faults = 0 /\ purged = {}
      /\ call = [c \in Calls |-> Idle] /\ \A c \in Calls : call[c] = Idle
  BY DEF Init
<1>2. 1 \in Images /\ NoFile \notin Images BY ThumbnailAssumption DEF Images
<1>3. Writers = {} /\ Decoded = {} BY <1>1, IdleCall DEF Writers, Decoded
<1>4. TypeOK BY <1>1, <1>2, IdleCall, ThumbnailAssumption DEF TypeOK
<1>5. Dated /\ Opened BY <1>1, <1>3, IdleCall DEF Dated, Opened
<1>6. Placed BY <1>1 DEF Placed
<1>7. OneWriter /\ Looked /\ Settled BY <1>1, <1>3 DEF OneWriter, Looked, Settled
<1>8. Unseen BY <1>1 DEF Unseen, PurgedUnseen
<1> QED BY <1>4, <1>5, <1>6, <1>7, <1>8 DEF IInv

LEMMA StutterInvariant ==
    ASSUME IInv, UNCHANGED vars PROVE IInv'
<1>1. Writers' = Writers /\ Decoded' = Decoded /\ Gone' = Gone BY DEF vars, Writers, Decoded, Gone
<1>2. TypeOK' /\ Dated' /\ Placed' BY <1>1 DEF vars, IInv, TypeOK, Dated, Placed
<1>3. Opened' /\ OneWriter' /\ Looked' /\ Settled'
  BY <1>1 DEF vars, IInv, Opened, OneWriter, Looked, Settled
<1>4. Unseen' BY DEF vars, IInv, Unseen, PurgedUnseen
<1> QED BY <1>2, <1>3, <1>4 DEF IInv

LEMMA NextInvariant ==
    ASSUME IInv, [Next]_vars PROVE IInv'
BY StutterInvariant, StatKeeps, LookupKeeps, DecodeKeeps, TruncateKeeps, EncodeKeeps,
   StampKeeps, ReplaceKeeps, SoftDeleteKeeps, RestoreKeeps, PurgeKeeps, PurgeThumbnailKeeps,
   CrashKeeps
DEF Next

\* IInv is inductive.
THEOREM Invariant == Spec => []IInv
<1>1. Init => IInv BY InitInvariant
<1>2. IInv /\ [Next]_vars => IInv' BY NextInvariant
<1> QED BY <1>1, <1>2, PTL DEF Spec

\* Every variable keeps its type, and no image is stored before its time.
THEOREM TypeCorrect == Spec => []TypeOK
BY Invariant, PTL DEF IInv

\* Whatever the requests do at once, a thumbnail good enough to be sent for the newest
\* image shows it, unless it is being written or was torn.
THEOREM FreshThumbnails == Spec => []FreshShows
<1>1. IInv => FreshShows
  <2> SUFFICES ASSUME IInv, image = clock, thumb # NoFile, thumb.time >= image,
                      ~thumb.torn, Writers = {}
               PROVE  thumb.shows = image
    BY DEF FreshShows, Fresh
  <2>1. thumb.time \in Nat /\ clock \in Nat /\ thumb.time <= clock
    <3>1. thumb \in Thumb /\ clock \in Nat BY ImageFacts DEF IInv, TypeOK
    <3> QED BY <3>1, ImageFacts DEF Thumb, IInv, Dated
  <2>2. thumb.time = clock /\ ~Gone BY <2>1 DEF Gone
  <2> QED BY <2>2 DEF IInv, Settled
<1> QED BY <1>1, Invariant, PTL

\* Of an image that was purged no thumbnail is left or comes back.
THEOREM PurgedNotSeen == Spec => []PurgedUnseen
BY Invariant, PTL DEF IInv, Unseen

=============================================================================
