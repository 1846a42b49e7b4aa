-------------------------- MODULE ImageStorageProofs --------------------------
(***************************************************************************)
(* Proofs about ImageStorage for any number of images, sizes and uploads:  *)
(* who has an avatar has it in every size, and the sizes show one image    *)
(* unless uploads failed half-way or overlapped.                           *)
(***************************************************************************)
EXTENDS ImageStorage, TLAPS

ImagesAreChosen == \A r \in Requests: pc[r] # "idle" => image[r] \in Images

\* An upload leaves an image behind at every key it has passed.
PassedKeysAreFilled ==
  \A r \in Requests:
    /\ pc[r] \in {"decode", "sizes", "flag"} => stored[Source] # None
    /\ pc[r] = "sizes" => \A v \in Sizes \ todo[r]: stored[v] # None
    /\ pc[r] = "flag" => \A v \in Sizes: stored[v] # None

\* Two uploads that are storing know of it.
OverlapIsNoted == \A r, q \in Storing: r # q => r \in overlapping

\* What an undisturbed upload has stored is still its own.
UndisturbedIsWhole ==
  \A r \in Storing \ overlapping:
    /\ stored[Source] = image[r]
    /\ pc[r] = "sizes" => \A v \in Sizes \ todo[r]: stored[v] = image[r]

ImageInv ==
  /\ TypeOK /\ ImagesAreChosen /\ PassedKeysAreFilled /\ OverlapIsNoted
  /\ UndisturbedIsWhole /\ AvatarIsComplete /\ OneImageUnlessMixed

LEMMA InitImages == Init => ImageInv
BY ConstantsAssumption DEF Init, ImageInv, TypeOK, ImagesAreChosen, PassedKeysAreFilled,
   OverlapIsNoted, UndisturbedIsWhole, AvatarIsComplete, OneImageUnlessMixed, Storing, Variants

LEMMA ValidateKeeps ==
  ASSUME ImageInv, NEW r \in Requests, NEW i \in Images, Validate(r, i)
  PROVE ImageInv'
<1> USE ConstantsAssumption DEF ImageInv, TypeOK, ImagesAreChosen, Variants, Validate, Goto
<1>1. TypeOK'
  OBVIOUS
<1>2. ImagesAreChosen'
  OBVIOUS
<1>3. PassedKeysAreFilled' /\ AvatarIsComplete'
  BY DEF PassedKeysAreFilled, AvatarIsComplete
<1>4. OverlapIsNoted'
  BY DEF OverlapIsNoted, Storing
<1>5. UndisturbedIsWhole'
  BY DEF UndisturbedIsWhole, OverlapIsNoted, Storing
<1>6. OneImageUnlessMixed'
  BY DEF OneImageUnlessMixed, UndisturbedIsWhole, OverlapIsNoted, Storing
<1> QED
  BY <1>1, <1>2, <1>3, <1>4, <1>5, <1>6 DEF ImageInv

LEMMA UploadSourceKeeps ==
  ASSUME ImageInv, NEW r \in Requests, UploadSource(r)
  PROVE ImageInv'
<1> USE ConstantsAssumption DEF ImageInv, TypeOK, ImagesAreChosen, Variants, UploadSource,
       Overlap, Goto
<1>1. TypeOK'
  <2>1. image[r] \in Images
    OBVIOUS
  <2>2. stored' \in [Variants -> Images \cup {None}]
    BY <2>1
  <2>3. overlapping' \subseteq Requests
    BY DEF Storing
  <2>4. pc' \in [Requests -> {"idle", "source", "decode", "sizes", "flag"}]
    OBVIOUS
  <2> QED
    BY <2>2, <2>3, <2>4
<1>2. ImagesAreChosen'
  OBVIOUS
<1>3. PassedKeysAreFilled' /\ AvatarIsComplete'
  BY DEF PassedKeysAreFilled, AvatarIsComplete
<1>4. OverlapIsNoted'
  BY DEF OverlapIsNoted, Storing
<1>5. UndisturbedIsWhole'
  BY DEF UndisturbedIsWhole, OverlapIsNoted, Storing
<1>6. OneImageUnlessMixed'
  BY DEF OneImageUnlessMixed, UndisturbedIsWhole, OverlapIsNoted, Storing
<1> QED
  BY <1>1, <1>2, <1>3, <1>4, <1>5, <1>6 DEF ImageInv

LEMMA UploadSourceFailsKeeps ==
  ASSUME ImageInv, NEW r \in Requests, UploadSourceFails(r)
  PROVE ImageInv'
<1> USE ConstantsAssumption DEF ImageInv, TypeOK, ImagesAreChosen, Variants, UploadSourceFails,
       Leave, Goto
<1>1. TypeOK'
  <2>1. image[r] \in Images
    OBVIOUS
  <2>2. stored' \in [Variants -> Images \cup {None}]
    BY <2>1
  <2>3. overlapping' \subseteq Requests
    BY DEF Storing
  <2>4. pc' \in [Requests -> {"idle", "source", "decode", "sizes", "flag"}]
    OBVIOUS
  <2> QED
    BY <2>2, <2>3, <2>4
<1>2. ImagesAreChosen'
  OBVIOUS
<1>3. PassedKeysAreFilled' /\ AvatarIsComplete'
  BY DEF PassedKeysAreFilled, AvatarIsComplete
<1>4. OverlapIsNoted'
  BY DEF OverlapIsNoted, Storing
<1>5. UndisturbedIsWhole'
  BY DEF UndisturbedIsWhole, OverlapIsNoted, Storing
<1>6. OneImageUnlessMixed'
  BY DEF OneImageUnlessMixed, UndisturbedIsWhole, OverlapIsNoted, Storing
<1> QED
  BY <1>1, <1>2, <1>3, <1>4, <1>5, <1>6 DEF ImageInv

LEMMA DecodeKeeps ==
  ASSUME ImageInv, NEW r \in Requests, Decode(r)
  PROVE ImageInv'
<1> USE ConstantsAssumption DEF ImageInv, TypeOK, ImagesAreChosen, Variants, Decode, Goto
<1>1. TypeOK'
  OBVIOUS
<1>2. ImagesAreChosen'
  OBVIOUS
<1>3. PassedKeysAreFilled' /\ AvatarIsComplete'
  BY DEF PassedKeysAreFilled, AvatarIsComplete
<1>4. OverlapIsNoted'
  BY DEF OverlapIsNoted, Storing
<1>5. UndisturbedIsWhole'
  BY DEF UndisturbedIsWhole, OverlapIsNoted, Storing
<1>6. OneImageUnlessMixed'
  BY DEF OneImageUnlessMixed, UndisturbedIsWhole, OverlapIsNoted, Storing
<1> QED
  BY <1>1, <1>2, <1>3, <1>4, <1>5, <1>6 DEF ImageInv

LEMMA StoreSizeKeeps ==
  ASSUME ImageInv, NEW r \in Requests, NEW v \in Sizes, StoreSize(r, v)
  PROVE ImageInv'
<1> USE ConstantsAssumption DEF ImageInv, TypeOK, ImagesAreChosen, Variants, StoreSize, Goto
<1>1. TypeOK'
  OBVIOUS
<1>2. ImagesAreChosen'
  OBVIOUS
<1>3. PassedKeysAreFilled' /\ AvatarIsComplete'
  BY DEF PassedKeysAreFilled, AvatarIsComplete
<1>4. OverlapIsNoted'
  BY DEF OverlapIsNoted, Storing
<1>5. UndisturbedIsWhole'
  BY DEF UndisturbedIsWhole, OverlapIsNoted, Storing
<1>6. OneImageUnlessMixed'
  BY DEF OneImageUnlessMixed, UndisturbedIsWhole, OverlapIsNoted, Storing
<1> QED
  BY <1>1, <1>2, <1>3, <1>4, <1>5, <1>6 DEF ImageInv

LEMMA StoredKeeps ==
  ASSUME ImageInv, NEW r \in Requests, Stored(r)
  PROVE ImageInv'
<1> USE ConstantsAssumption DEF ImageInv, TypeOK, ImagesAreChosen, Variants, Stored, Goto
<1>1. TypeOK'
  OBVIOUS
<1>2. ImagesAreChosen'
  OBVIOUS
<1>3. PassedKeysAreFilled' /\ AvatarIsComplete'
  BY DEF PassedKeysAreFilled, AvatarIsComplete
<1>4. OverlapIsNoted'
  BY DEF OverlapIsNoted, Storing
<1>5. UndisturbedIsWhole'
  BY DEF UndisturbedIsWhole, OverlapIsNoted, Storing
<1>6. OneImageUnlessMixed'
  BY DEF OneImageUnlessMixed, UndisturbedIsWhole, OverlapIsNoted, Storing
<1> QED
  BY <1>1, <1>2, <1>3, <1>4, <1>5, <1>6 DEF ImageInv

LEMMA FailKeeps ==
  ASSUME ImageInv, NEW r \in Requests, Fail(r)
  PROVE ImageInv'
<1> USE ConstantsAssumption DEF ImageInv, TypeOK, ImagesAreChosen, Variants, Fail, Leave, Goto
<1>1. TypeOK'
  OBVIOUS
<1>2. ImagesAreChosen'
  OBVIOUS
<1>3. PassedKeysAreFilled' /\ AvatarIsComplete'
  BY DEF PassedKeysAreFilled, AvatarIsComplete
<1>4. OverlapIsNoted'
  BY DEF OverlapIsNoted, Storing
<1>5. UndisturbedIsWhole'
  BY DEF UndisturbedIsWhole, OverlapIsNoted, Storing
<1>6. OneImageUnlessMixed'
  BY DEF OneImageUnlessMixed, UndisturbedIsWhole, OverlapIsNoted, Storing
<1> QED
  BY <1>1, <1>2, <1>3, <1>4, <1>5, <1>6 DEF ImageInv

LEMMA SetFlagKeeps ==
  ASSUME ImageInv, NEW r \in Requests, SetFlag(r)
  PROVE ImageInv'
<1> USE ConstantsAssumption DEF ImageInv, TypeOK, ImagesAreChosen, Variants, SetFlag, Leave, Goto
<1>1. TypeOK'
  OBVIOUS
<1>2. ImagesAreChosen'
  OBVIOUS
<1>3. PassedKeysAreFilled' /\ AvatarIsComplete'
  BY DEF PassedKeysAreFilled, AvatarIsComplete
<1>4. OverlapIsNoted'
  BY DEF OverlapIsNoted, Storing
<1>5. UndisturbedIsWhole'
  BY DEF UndisturbedIsWhole, OverlapIsNoted, Storing
<1>6. OneImageUnlessMixed'
  BY DEF OneImageUnlessMixed, UndisturbedIsWhole, OverlapIsNoted, Storing
<1> QED
  BY <1>1, <1>2, <1>3, <1>4, <1>5, <1>6 DEF ImageInv

LEMMA NextKeepsImages == ImageInv /\ [Next]_vars => ImageInv'
<1> SUFFICES ASSUME ImageInv, [Next]_vars PROVE ImageInv'
  OBVIOUS
<1>1. CASE UNCHANGED vars
  BY <1>1, Zenon DEF vars, ImageInv, TypeOK, ImagesAreChosen, PassedKeysAreFilled, OverlapIsNoted,
     UndisturbedIsWhole, AvatarIsComplete, OneImageUnlessMixed, Storing
<1>2. CASE Next
  BY <1>2, ValidateKeeps, UploadSourceKeeps, UploadSourceFailsKeeps, DecodeKeeps, StoreSizeKeeps,
     StoredKeeps, FailKeeps, SetFlagKeeps DEF Next
<1> QED
  BY <1>1, <1>2

\* The uploads and the stored images keep their types.
THEOREM TypeCorrect == Spec => []TypeOK
<1>1. ImageInv => TypeOK
  BY DEF ImageInv
<1> QED
  BY <1>1, InitImages, NextKeepsImages, PTL DEF Spec

\* A user with is_avatar_exist can download every size, whatever uploads failed or
\* overlapped: SelfAvatarUpdate sets the flag after the last size.
THEOREM AvatarsAreComplete == Spec => []AvatarIsComplete
<1>1. ImageInv => AvatarIsComplete
  BY DEF ImageInv
<1> QED
  BY <1>1, InitImages, NextKeepsImages, PTL DEF Spec

\* With no upload under way, the source and all sizes show one image, unless the
\* last ones failed half-way or overlapped.
THEOREM SizesShowOneImage == Spec => []OneImageUnlessMixed
<1>1. ImageInv => OneImageUnlessMixed
  BY DEF ImageInv
<1> QED
  BY <1>1, InitImages, NextKeepsImages, PTL DEF Spec
===============================================================================
