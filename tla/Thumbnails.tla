------------------------------ MODULE Thumbnails ------------------------------
(***************************************************************************)
(* The thumbnail cache (internal/service/file_service.go, GetThumbnail;    *)
(* trash_service.go, removeThumbnailsForPath), for one path and one size.  *)
(*                                                                         *)
(* A thumbnail is a file named after the path and the size.  It is good    *)
(* when it is not older than the image.  Requests hold no lock: each looks *)
(* at the image, looks at the thumbnail, reads the image, writes the       *)
(* thumbnail in place and at last gives it the time the image had when it  *)
(* was first looked at.  Meanwhile the image is replaced, moved to the     *)
(* trash, restored or purged by the operations of the other modules, which *)
(* are reduced to what they do at this path.                               *)
(***************************************************************************)
EXTENDS Integers, FiniteSets

CONSTANTS
    MaxImages,  \* bound on the images ever stored at the path
    MaxFaults,  \* bound on file-system calls that fail, and kills of the process
    Calls,      \* request goroutines; one that has answered serves again
    NoFile, Partial

Images == 1..MaxImages

ASSUME ThumbnailAssumption ==
    /\ MaxImages \in Nat \ {0} /\ MaxFaults \in Nat
    /\ NoFile \notin Images /\ Partial \notin Images \cup {NoFile}

VARIABLES
    image,   \* the image at the path: an image is named by the time it was stored
    trashed, \* the images of this path that are in the trash
    purging, \* the one whose data is removed from it and whose thumbnail is not yet
    clock,   \* the time of the last image stored
    thumb,   \* the thumbnail file, or NoFile
    call,    \* request -> where it is
    faults,  \* the failures so far
    purged   \* history: images purged while no request had them in hand

vars == <<image, trashed, purging, clock, thumb, call, faults, purged>>

\* shows: the image drawn.  torn, history: two requests wrote it at once, or one failed.
Thumb == [shows : Images \cup {Partial}, time : Images, torn : BOOLEAN]

ASSUME NoThumbAssumption == NoFile \notin Thumb

\* time: the time of the image when it was looked at.  image: the image decoded.  lost:
\* the open thumbnail has been removed.
Call == [pc : {"idle", "lookup", "decode", "truncate", "encode", "stamp"},
         time : 0..MaxImages, image : Images \cup {NoFile}, lost : BOOLEAN]
Idle == [pc |-> "idle", time |-> 0, image |-> NoFile, lost |-> FALSE]

Init ==
    /\ image \in {NoFile, 1} /\ clock = 1
    /\ trashed = {} /\ purging = NoFile /\ thumb = NoFile
    /\ call = [c \in Calls |-> Idle]
    /\ faults = 0 /\ purged = {}

At(c, pc) == call[c].pc = pc
GoTo(c, pc) == call' = [call EXCEPT ![c] = [@ EXCEPT !.pc = pc]]
Answer(c) == call' = [call EXCEPT ![c] = Idle]
Fault == faults < MaxFaults /\ faults' = faults + 1
NoFault == UNCHANGED faults
images == <<image, trashed, purging, clock, purged>>

Writers == {c \in Calls : call[c].pc \in {"encode", "stamp"}}

-----------------------------------------------------------------------------
(* GetThumbnail.  A request that finds no image, or one that cannot be     *)
(* decoded, is refused, and changes nothing.                               *)

\* os.Stat of the image
Stat(c) ==
    /\ At(c, "idle")
    /\ image # NoFile
    /\ call' = [call EXCEPT ![c] = [Idle EXCEPT !.pc = "lookup", !.time = image]]
    /\ UNCHANGED <<images, thumb, faults>>

Fresh(time) == thumb # NoFile /\ thumb.time >= time

\* A thumbnail that is not older than the image is sent as it is.
Lookup(c) ==
    /\ At(c, "lookup")
    /\ IF Fresh(call[c].time) THEN Answer(c) ELSE GoTo(c, "decode")
    /\ UNCHANGED <<images, thumb, faults>>

\* The image is opened and decoded, or a frame of it is extracted by ffmpeg into a
\* file of its own: it need not be the image that was looked at.
Decode(c) ==
    /\ At(c, "decode")
    /\ IF image = NoFile THEN Answer(c)
       ELSE call' = [call EXCEPT ![c] = [@ EXCEPT !.pc = "truncate", !.image = image]]
    /\ UNCHANGED <<images, thumb, faults>>

\* os.OpenFile with O_TRUNC: the thumbnail is new, and empty.
Truncate(c) ==
    /\ At(c, "truncate")
    /\ \/ /\ NoFault
          /\ thumb' = [shows |-> Partial, time |-> clock, torn |-> Writers # {}]
          /\ GoTo(c, "encode")
       \/ Fault /\ Answer(c) /\ UNCHANGED thumb
    /\ UNCHANGED images

\* jpeg.Encode or io.Copy, at this time.  Of two at once the one that ends last may or
\* may not prevail.  An error leaves the file as it is.
Encode(c) ==
    /\ At(c, "encode")
    /\ \/ /\ NoFault
          /\ \/ thumb' = IF call[c].lost THEN thumb
                         ELSE [thumb EXCEPT !.shows = call[c].image, !.time = clock]
             \/ ~call[c].lost /\ thumb.torn /\ thumb' = [thumb EXCEPT !.time = clock]
          /\ GoTo(c, "stamp")
       \/ /\ Fault
          /\ thumb' = IF call[c].lost THEN thumb ELSE [thumb EXCEPT !.torn = TRUE]
          /\ Answer(c)
    /\ UNCHANGED images

MutStamped(c) == clock   \* the time of writing
MutRounded(c) == call[c].time - 1   \* the time in whole seconds
Stamped(c) == call[c].time

\* os.Chtimes by name, whose error is dropped; then the thumbnail is opened and sent.
Stamp(c) ==
    /\ At(c, "stamp")
    /\ \/ /\ NoFault
          /\ thumb' = IF thumb = NoFile THEN thumb ELSE [thumb EXCEPT !.time = Stamped(c)]
       \/ /\ Fault
          /\ thumb' = IF thumb = NoFile THEN thumb ELSE [thumb EXCEPT !.torn = TRUE]
    /\ Answer(c)
    /\ UNCHANGED images

-----------------------------------------------------------------------------
(* What the other operations do at this path                               *)

\* An upload, a copy or a move brings another image: the moment it is whole counts.
Replace ==
    /\ clock + 1 \in Images
    /\ clock' = clock + 1
    /\ image' = clock'
    /\ UNCHANGED <<trashed, purging, thumb, call, faults, purged>>

SoftDelete ==
    /\ image # NoFile
    /\ trashed' = trashed \cup {image} /\ image' = NoFile
    /\ UNCHANGED <<purging, clock, thumb, call, faults, purged>>

\* RestoreLatest: the image deleted last, which is the newest, comes back with its time.
Restore ==
    \E i \in trashed :
        /\ image = NoFile /\ \A j \in trashed : j <= i
        /\ image' = i /\ trashed' = trashed \ {i}
        /\ UNCHANGED <<purging, clock, thumb, call, faults, purged>>

\* PermanentDelete, or EmptyTrash for each in turn: the data first,
Purge ==
    \E i \in trashed :
        /\ purging = NoFile
        /\ purging' = i /\ trashed' = trashed \ {i}
        /\ UNCHANGED <<image, clock, thumb, call, faults, purged>>

MutUnlinked == thumb   \* it is left to grow old
Unlinked == NoFile

\* then the thumbnail, whichever image it shows by now.  When it cannot be removed, a
\* second try finds no data, and so no thumbnail to remove.
PurgeThumbnail ==
    /\ purging # NoFile
    /\ purging' = NoFile
    /\ \/ /\ NoFault
          /\ thumb' = Unlinked
          /\ call' = [c \in Calls |-> [call[c] EXCEPT !.lost = @ \/ c \in Writers]]
          /\ purged' = IF \E c \in Calls : call[c].image = purging THEN purged
                       ELSE purged \cup {purging}
       \/ Fault /\ UNCHANGED <<thumb, call, purged>>
    /\ UNCHANGED <<image, trashed, clock>>

\* The process is killed: a thumbnail that is being written stays as it is.
Crash ==
    /\ Fault
    /\ thumb' = IF thumb = NoFile THEN thumb ELSE [thumb EXCEPT !.torn = @ \/ Writers # {}]
    /\ call' = [c \in Calls |-> Idle]
    /\ purging' = NoFile
    /\ UNCHANGED <<image, trashed, clock, purged>>

Next ==
    \/ \E c \in Calls : Stat(c) \/ Lookup(c) \/ Decode(c) \/ Truncate(c) \/ Encode(c) \/ Stamp(c)
    \/ Replace \/ SoftDelete \/ Restore \/ Purge \/ PurgeThumbnail \/ Crash

Spec == Init /\ [][Next]_vars

-----------------------------------------------------------------------------
(* Properties                                                              *)

\* Every variable keeps its type, and no image is stored before its time.
TypeOK ==
    /\ image \in Images \cup {NoFile} /\ trashed \subseteq Images
    /\ purging \in Images \cup {NoFile} /\ clock \in Images
    /\ thumb \in Thumb \cup {NoFile}
    /\ call \in [Calls -> Call] /\ faults \in 0..MaxFaults /\ purged \subseteq Images
    /\ \A i \in {image, purging} \cup trashed : i # NoFile => i <= clock

\* A thumbnail that would be sent for the newest image of the path shows that image,
\* however long ago the requests that wrote it had looked: unless one is still writing,
\* or two wrote it at once, or one failed half way.  An older image that is restored
\* over the thumbnail of a newer one is not so lucky.
FreshShows ==
    image = clock /\ Fresh(image) =>
        thumb.shows = image \/ thumb.torn \/ Writers # {}

\* Of an image that is purged no thumbnail is left, unless a request had it in hand.
PurgedUnseen == thumb # NoFile => thumb.shows \notin purged

=============================================================================
