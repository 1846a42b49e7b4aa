----------------------------- MODULE ImageStorage -----------------------------
(***************************************************************************)
(* lib/image_object_storage.go as SelfAvatarUpdate of module/self uses it: *)
(* an upload stores the image as it came, then scales it to each of the    *)
(* configured sizes and stores those, and at the end the handler sets      *)
(* is_avatar_exist.  All of it is about one user, whose uid is the file    *)
(* name; object stores have no transactions and nothing is taken back      *)
(* when a later step fails.                                                *)
(***************************************************************************)
EXTENDS FiniteSets

CONSTANTS
  Images,    \* the images a user uploads
  Sizes,     \* the keys of ProcessedImages
  Source,    \* the image as it came
  Requests,  \* uploads of this user at the same time
  None

Variants == Sizes \cup {Source}

ASSUME ConstantsAssumption ==
  /\ IsFiniteSet(Sizes)
  /\ Source \notin Sizes
  /\ None \notin Images

VARIABLES
  stored,         \* stored[v]: the image found at the key of variant v, or None
  isAvatarExist,  \* is_avatar_exist of the user
  pc,             \* what request r does next
  image,          \* image[r]: the image r uploads
  todo,           \* todo[r]: the sizes r has not stored yet
  overlapping,    \* history: uploads that were storing when another one was
  mixed           \* history: an upload failed half-way or overlapped another one, and
                  \* none has gone through undisturbed since

vars == <<stored, isAvatarExist, pc, image, todo, overlapping, mixed>>

TypeOK ==
  /\ stored \in [Variants -> Images \cup {None}]
  /\ isAvatarExist \in BOOLEAN
  /\ pc \in [Requests -> {"idle", "source", "decode", "sizes", "flag"}]
  /\ image \in [Requests -> Images \cup {None}]
  /\ todo \in [Requests -> SUBSET Sizes]
  /\ overlapping \subseteq Requests
  /\ mixed \in BOOLEAN

Init ==
  /\ stored = [v \in Variants |-> None]
  /\ isAvatarExist = FALSE
  /\ pc = [r \in Requests |-> "idle"]
  /\ image = [r \in Requests |-> None]
  /\ todo = [r \in Requests |-> {}]
  /\ overlapping = {} /\ mixed = FALSE

Goto(r, label) == pc' = [pc EXCEPT ![r] = label]
Leave(r) ==
  /\ Goto(r, "idle")
  /\ image' = [image EXCEPT ![r] = None]
  /\ todo' = [todo EXCEPT ![r] = {}]

\* The uploads that have stored something and not everything yet.
Storing == {r \in Requests: pc[r] \in {"decode", "sizes"}}

\* r stores its first variant: from now on it overlaps the uploads in Storing.
Overlap(r) == overlapping' = IF Storing = {} THEN overlapping ELSE overlapping \cup Storing \cup {r}

----------------------------------------------------------------------------
\* Update: the request is small enough, its body is read, and
\* ValidateImageDimensions finds the header in order within its time limit.
\* Refusals change nothing.
Validate(r, i) ==
  /\ pc[r] = "idle"
  /\ Goto(r, "source")
  /\ image' = [image EXCEPT ![r] = i]
  /\ UNCHANGED <<stored, isAvatarExist, todo, overlapping, mixed>>

\* The image as it came is stored before it is decoded.
UploadSource(r) ==
  /\ pc[r] = "source"
  /\ stored' = [stored EXCEPT ![Source] = image[r]]
  /\ Overlap(r)
  /\ Goto(r, "decode")
  /\ UNCHANGED <<isAvatarExist, image, todo, mixed>>

\* The object store answers with an error, before or after it took the image.
UploadSourceFails(r) ==
  /\ pc[r] = "source"
  /\ \/ UNCHANGED <<stored, overlapping, mixed>>
     \/ /\ stored' = [stored EXCEPT ![Source] = image[r]]
        /\ overlapping' = overlapping \cup Storing
        /\ mixed' = TRUE
  /\ Leave(r)
  /\ UNCHANGED isAvatarExist

\* DecodeImageWithTimeout.
Decode(r) ==
  /\ pc[r] = "decode"
  /\ Goto(r, "sizes")
  /\ todo' = [todo EXCEPT ![r] = Sizes]
  /\ UNCHANGED <<stored, isAvatarExist, image, overlapping, mixed>>

\* Faulty variant: a size that cannot be made is passed over.
PassOverSize(r, v) ==
  /\ pc[r] = "sizes" /\ v \in todo[r]
  /\ todo' = [todo EXCEPT ![r] = @ \ {v}]
  /\ UNCHANGED <<stored, isAvatarExist, pc, image, overlapping, mixed>>

\* One turn of the loop over ProcessedImages, a map, whose order is random: scale,
\* encode, store.
StoreSize(r, v) ==
  /\ pc[r] = "sizes" /\ v \in todo[r]
  /\ stored' = [stored EXCEPT ![v] = image[r]]
  /\ todo' = [todo EXCEPT ![r] = @ \ {v}]
  /\ UNCHANGED <<isAvatarExist, pc, image, overlapping, mixed>>

\* Update returns without an error.
Stored(r) ==
  /\ pc[r] = "sizes" /\ todo[r] = {}
  /\ Goto(r, "flag")
  /\ mixed' = (r \in overlapping)
  /\ overlapping' = overlapping \ {r}
  /\ UNCHANGED <<stored, isAvatarExist, image, todo>>

\* Faulty variant: SelfAvatarUpdate does not look at the error of Update.
FailAndFlag(r) ==
  /\ pc[r] \in {"decode", "sizes"}
  /\ \/ UNCHANGED stored
     \/ \E v \in todo[r]: stored' = [stored EXCEPT ![v] = image[r]]
  /\ isAvatarExist' = TRUE
  /\ mixed' = TRUE
  /\ overlapping' = overlapping \ {r}
  /\ Leave(r)

\* The decoder or the scaler fails or runs out of time, a store is not configured,
\* an upload fails (before or after the store took it), or the process dies.
Fail(r) ==
  /\ pc[r] \in {"decode", "sizes"}
  /\ \/ UNCHANGED stored
     \/ \E v \in todo[r]: stored' = [stored EXCEPT ![v] = image[r]]
  /\ mixed' = TRUE
  /\ overlapping' = overlapping \ {r}
  /\ Leave(r)
  /\ UNCHANGED isAvatarExist

\* SelfAvatarUpdate sets the flag.  An error of that update is dropped, the answer
\* is 200.
SetFlag(r) ==
  /\ pc[r] = "flag"
  /\ isAvatarExist' \in {TRUE, isAvatarExist}
  /\ Leave(r)
  /\ UNCHANGED <<stored, overlapping, mixed>>

Next == \E r \in Requests:
  \/ \E i \in Images: Validate(r, i)
  \/ UploadSource(r) \/ UploadSourceFails(r)
  \/ Decode(r) \/ Stored(r) \/ Fail(r) \/ SetFlag(r)
  \/ \E v \in Sizes: StoreSize(r, v)

Spec == Init /\ [][Next]_vars

(***************************************************************************)
(* Properties.                                                             *)
(***************************************************************************)
\* When no upload is storing, all sizes show one image, unless the last uploads
\* failed half-way or overlapped; one upload that goes through alone repairs it.
OneImageUnlessMixed ==
  Storing = {} /\ ~mixed => \A v \in Variants: stored[v] = stored[Source]

\* A user who has an avatar can download it in every size, whatever failed: the
\* flag is set after the last size and nothing ever removes one.
AvatarIsComplete == isAvatarExist => \A v \in Variants: stored[v] # None
===============================================================================
