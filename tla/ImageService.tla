---------------------------- MODULE ImageService ----------------------------
(***************************************************************************)
(* ProCRI's ImageService (procri/pkg/imageservice): which images kubelet   *)
(* was told are pulled.  No image is ever fetched: an entry of the store   *)
(* per image name lists the tags and the digests it was pulled under.      *)
(*                                                                         *)
(* Requests run concurrently and take no lock.  PullImage and RemoveImage  *)
(* read an entry, change the copy and write it back, in two accesses of    *)
(* the store.  ImageStatus and ListImages only read: they are operators.   *)
(*                                                                         *)
(* Abstracted: credentials; the sha256 under which an entry is filed, by   *)
(* the name itself; the order of a list of strings, by the number of times *)
(* each string occurs in it.                                               *)
(***************************************************************************)
EXTENDS Naturals

CONSTANTS
  Rpc,         \* requests that can be in flight at once
  Part,        \* the strings that the parts of a reference are
  Ref,         \* image references kubelet may send
  Nil,         \* the empty string, and Go's nil
  StoreFails   \* whether a write or an erase of the store may fail

\* host:port/path:tag or host/path@digest, with "" for a part that is absent.
Reference ==
  [host: Part, port: BOOLEAN, path: Part, tag: Part, digest: Part]

ASSUME PartAssumption == "latest" \in Part
ASSUME RefAssumption == Ref \subseteq Reference /\ Nil \notin Reference
ASSUME StoreFailsAssumption == StoreFails \in BOOLEAN

\* An operator Wrong_X is no part of the specification: it is X with a plausible
\* bug, and a property that is listed for it fails when it takes X's place.

-----------------------------------------------------------------------------
(***************************************************************************)
(* getImageNameTagAndDigest.  A reference that has a digest is cut at "@"; *)
(* any other is cut at its first ":", which is the one before the port if  *)
(* there is one.  A tag or digest is kept as the whole reference.          *)
(***************************************************************************)
imageName(ref) ==
  IF ref.digest # "" THEN [ref EXCEPT !.digest = ""]
  ELSE IF ref.port THEN [ref EXCEPT !.port = FALSE, !.path = "", !.tag = ""]
  ELSE [ref EXCEPT !.tag = ""]

imageTag(ref) ==
  IF ref.digest # "" THEN Nil
  ELSE IF ref.port \/ ref.tag # "" THEN ref
  ELSE [ref EXCEPT !.tag = "latest"]

Wrong_imageDigest(ref) == IF ref.digest # "" THEN [ref EXCEPT !.tag = ""] ELSE Nil
imageDigest(ref) == IF ref.digest # "" THEN ref ELSE Nil

Name == {imageName(ref) : ref \in Ref}
Item == {imageTag(ref) : ref \in Ref} \cup {imageDigest(ref) : ref \in Ref} \cup {Nil}

\* The lists of strings, as how often each string occurs.
Slice == [Item -> Nat]
empty == [i \in Item |-> 0]
only(item) == [empty EXCEPT ![item] = 1]

Wrong_addToSliceWithoutDuplicate(item, slice) == [slice EXCEPT ![item] = @ + 1]
addToSliceWithoutDuplicate(item, slice) ==
  IF item = Nil \/ slice[item] > 0 THEN slice ELSE [slice EXCEPT ![item] = @ + 1]

removeFromSlice(item, slice) == [slice EXCEPT ![item] = 0]

-----------------------------------------------------------------------------
Image == [Image: Ref, Tags: Slice, Digests: Slice]
ListedImage == [Id: Ref \cup Item, RepoTags: SUBSET Item, RepoDigests: SUBSET Item]
ASSUME NilAssumption == Nil \notin Image /\ Nil \notin ListedImage
Ops == {"none", "PullImage", "RemoveImage"}
Pcs == {"idle", "put", "delete", "ok", "error"}
Call == [op: Ops, pc: Pcs, ref: Ref \cup {Nil}, img: Image \cup {Nil}]
NoCall == [op |-> "none", pc |-> "idle", ref |-> Nil, img |-> Nil]

VARIABLES
  images,   \* the store's entries by name, Nil when absent
  calls     \* the requests in flight

vars == <<images, calls>>

Init ==
  /\ images = [n \in Name |-> Nil]
  /\ calls = [r \in Rpc |-> NoCall]

\* The entry as it is read: a list of one empty string is taken for empty.
Wrong_unblank(slice) == IF \E i \in Item : slice = only(i) THEN empty ELSE slice
unblank(slice) == IF slice = only(Nil) THEN empty ELSE slice

getImage(n) ==
  IF images[n] = Nil THEN Nil
  ELSE [images[n] EXCEPT !.Tags = unblank(@), !.Digests = unblank(@)]

Arrive(r, op, ref, pc, img) ==
  /\ calls[r].pc = "idle"
  /\ calls' = [calls EXCEPT ![r] = [op |-> op, pc |-> pc, ref |-> ref, img |-> img]]

Finish(r, pc) == calls' = [calls EXCEPT ![r].pc = pc]

(***************************************************************************)
(* PullImage: adds the tag or the digest to the entry it read, or makes a  *)
(* new entry for this reference.                                           *)
(***************************************************************************)
Wrong_pulled(ref, img) ==
  [Image |-> ref, Tags |-> addToSliceWithoutDuplicate(imageTag(ref), empty),
   Digests |-> addToSliceWithoutDuplicate(imageDigest(ref), empty)]

pulled(ref, img) ==
  LET old == IF img # Nil THEN img ELSE [Image |-> ref, Tags |-> empty, Digests |-> empty]
  IN [old EXCEPT !.Tags = addToSliceWithoutDuplicate(imageTag(ref), @),
                 !.Digests = addToSliceWithoutDuplicate(imageDigest(ref), @)]

PullImage(r, ref) ==
  /\ Arrive(r, "PullImage", ref, "put", pulled(ref, getImage(imageName(ref))))
  /\ UNCHANGED images

(***************************************************************************)
(* RemoveImage: erases the entry if the tag is its only tag, or the digest *)
(* its only digest; otherwise takes them off the lists.  Removing what is  *)
(* not there is no error.                                                  *)
(***************************************************************************)
Wrong_isLast(ref, img) == img.Tags = only(imageTag(ref))

isLast(ref, img) ==
  img.Tags = only(imageTag(ref)) \/ img.Digests = only(imageDigest(ref))

RemoveImage(r, ref) ==
  LET img == getImage(imageName(ref)) IN
  /\ \/ img = Nil /\ Arrive(r, "RemoveImage", ref, "ok", Nil)
     \/ /\ img # Nil /\ isLast(ref, img)
        /\ Arrive(r, "RemoveImage", ref, "delete", Nil)
     \/ /\ img # Nil /\ ~isLast(ref, img)
        /\ Arrive(r, "RemoveImage", ref, "put",
                  [img EXCEPT !.Tags = removeFromSlice(imageTag(ref), @),
                              !.Digests = removeFromSlice(imageDigest(ref), @)])
  /\ UNCHANGED images

\* putImage: a failure fails the request.
PutImage(r) ==
  /\ calls[r].pc = "put"
  /\ \/ /\ images' = [images EXCEPT ![imageName(calls[r].ref)] = calls[r].img]
        /\ Finish(r, "ok")
     \/ StoreFails /\ Finish(r, "error") /\ UNCHANGED images

\* deleteImage: its caller does not look at whether it failed.
Wrong_DeleteImage(r) ==
  /\ calls[r].pc = "delete"
  /\ images' = [images EXCEPT ![imageName(calls[r].ref)] = [Tags |-> empty, Digests |-> empty]]
  /\ Finish(r, "ok")

DeleteImage(r) ==
  /\ calls[r].pc = "delete"
  /\ \/ images' = [images EXCEPT ![imageName(calls[r].ref)] = Nil]
     \/ StoreFails /\ UNCHANGED images
  /\ Finish(r, "ok")

Reply(r) ==
  /\ calls[r].pc \in {"ok", "error"}
  /\ calls' = [calls EXCEPT ![r] = NoCall]
  /\ UNCHANGED images

Next ==
  \E r \in Rpc :
    \/ \E ref \in Ref : PullImage(r, ref) \/ RemoveImage(r, ref)
    \/ PutImage(r) \/ DeleteImage(r) \/ Reply(r)

Spec == Init /\ [][Next]_vars

-----------------------------------------------------------------------------
(***************************************************************************)
(* The queries.                                                            *)
(***************************************************************************)
listed(slice) == {i \in Item : slice[i] > 0}

ImageStatus(ref) ==
  LET img == getImage(imageName(ref)) IN
  IF img = Nil THEN Nil
  ELSE [Id |-> ref, RepoTags |-> listed(img.Tags), RepoDigests |-> listed(img.Digests)]

listedImages == {getImage(n) : n \in Name} \ {Nil}

\* A filter (Nil for none) is compared with the reference pulled first.
ListImages(filter) ==
  {[Id |-> img.Image, RepoTags |-> listed(img.Tags), RepoDigests |-> listed(img.Digests)] :
     img \in {img \in listedImages : filter \in {Nil, img.Image}}}

-----------------------------------------------------------------------------
(***************************************************************************)
(* Properties of every interleaving of any number of requests.             *)
(***************************************************************************)

\* The entries and the calls hold values of their types.
TypeOK ==
  /\ images \in [Name -> Image \cup {Nil}]
  /\ calls \in [Rpc -> Call]

present == {n \in Name : images[n] # Nil}

\* No tag and no digest is ever listed twice, whatever stale copies the
\* requests in flight write back.
NoDuplicates ==
  \A n \in present, i \in Item : images[n].Tags[i] <= 1 /\ images[n].Digests[i] <= 1

\* No entry is left without a tag and without a digest, which no RemoveImage
\* could erase any more: the last one goes together with its entry.
NeverEmpty ==
  \A n \in present : listed(images[n].Tags) \cup listed(images[n].Digests) # {}

\* Whatever ListImages reports, an id, a tag or a digest, can be handed back:
\* ImageStatus finds the same entry by it, and RemoveImage the same tag or
\* digest.  A filter by the id finds this entry and no other.
ListedIsFound ==
  \A image \in ListImages(Nil) :
    /\ ListImages(image.Id) = {image}
    /\ \A i \in {image.Id} \cup image.RepoTags \cup image.RepoDigests :
         ImageStatus(i) = [image EXCEPT !.Id = i]
    /\ \A i \in image.RepoTags : imageTag(i) = i
    /\ \A i \in image.RepoDigests : imageDigest(i) = i

held == UNION {listed(img.Tags) \cup listed(img.Digests) : img \in listedImages}

\* imageservice.go:155: a reference has a status exactly as long as something of
\* its repository is held, be it under another tag or digest.
StatusMeansHeld ==
  \A ref \in Ref :
    ImageStatus(ref) # Nil <=> \E i \in held : imageName(i) = imageName(ref)

-----------------------------------------------------------------------------
(***************************************************************************)
(* What a client with one request in flight at a time can rely on; Rpc is  *)
(* a singleton wherever these are checked.                                 *)
(***************************************************************************)
canonical(ref) == IF ref.digest # "" THEN imageDigest(ref) ELSE imageTag(ref)

Returned(r, op, pc) == calls[r].op = op /\ calls[r].pc = pc

\* When PullImage has succeeded, the image is held under the reference it
\* was pulled by, whatever the entry looked like before.
PulledIsHeld ==
  \A r \in Rpc : Returned(r, "PullImage", "ok") => canonical(calls[r].ref) \in held

\* When RemoveImage has succeeded, no image is held under that reference.
RemovedIsGone ==
  \A r \in Rpc : Returned(r, "RemoveImage", "ok") => canonical(calls[r].ref) \notin held

\* A client that is answered may rely on the answer: what it has pulled is
\* there and what it has removed is not, whatever the form of the reference.
AnswerIsTrue == PulledIsHeld /\ RemovedIsGone

Store == INSTANCE ImageStore
  WITH Item <- Item \ {Nil},
       Family <- {{i \in Item \ {Nil} : imageName(i) = n} : n \in Name}

\* Every step of the service is a pull or a removal of one reference: no pull
\* loses what another reference holds, and a removal takes nothing away from
\* another repository.
ImplementsImageStore == Store!Spec
=============================================================================
