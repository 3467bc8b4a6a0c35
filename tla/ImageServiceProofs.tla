------------------------- MODULE ImageServiceProofs -------------------------
(***************************************************************************)
(* The entries of the ImageService are well formed whatever the requests   *)
(* do to each other: every image that a request holds and has yet to write *)
(* is well formed by itself, so it does not matter which write is last.    *)
(***************************************************************************)
EXTENDS ImageService, TLAPS

\* A list that names no item twice.
Distinct(slice) == \A i \in Item : slice[i] <= 1

\* A list of tags, or of digests, of the entry n.
TagsOf(n, slice) ==
  \A i \in Item : slice[i] > 0 => i # Nil /\ imageName(i) = n /\ imageTag(i) = i
DigestsOf(n, slice) ==
  \A i \in Item : slice[i] > 0 => i # Nil /\ imageName(i) = n /\ imageDigest(i) = i

\* An image that can be the entry n: of its types, and all that is claimed.
Entry(n, img) ==
  /\ img \in Image /\ imageName(img.Image) = n
  /\ Distinct(img.Tags) /\ Distinct(img.Digests)
  /\ TagsOf(n, img.Tags) /\ DigestsOf(n, img.Digests)
  /\ \E i \in Item : img.Tags[i] > 0 \/ img.Digests[i] > 0

EntriesInv ==
  /\ images \in [Name -> Image \cup {Nil}]
  /\ \A n \in Name : images[n] # Nil => Entry(n, images[n])

CallsInv ==
  /\ calls \in [Rpc -> Call]
  /\ \A r \in Rpc :
       /\ calls[r].pc \in {"put", "delete"} => calls[r].ref \in Ref
       /\ calls[r].pc = "put" => Entry(imageName(calls[r].ref), calls[r].img)

Inv == EntriesInv /\ CallsInv

-----------------------------------------------------------------------------
\* A tag is its own tag and has the name of the reference it comes from.
LEMMA TagStays ==
  ASSUME NEW ref \in Ref
  PROVE  /\ imageTag(ref) \in Item /\ imageDigest(ref) \in Item /\ imageName(ref) \in Name
         /\ imageTag(ref) # Nil =>
              imageName(imageTag(ref)) = imageName(ref) /\ imageTag(imageTag(ref)) = imageTag(ref)
  BY RefAssumption DEF Item, Name, imageTag, imageDigest, imageName, Reference

\* The same of a digest; and a reference has exactly one of the two.
LEMMA DigestStays ==
  ASSUME NEW ref \in Ref
  PROVE  /\ imageDigest(ref) # Nil =>
              imageName(imageDigest(ref)) = imageName(ref) /\ imageDigest(imageDigest(ref)) = imageDigest(ref)
         /\ imageTag(ref) = Nil <=> imageDigest(ref) # Nil
<1>1. ref # Nil /\ [ref EXCEPT !.tag = "latest"] # Nil
  <2>1. ref \in Reference /\ Nil \notin Reference
    BY RefAssumption
  <2>2. [ref EXCEPT !.tag = "latest"] \in Reference
    BY <2>1, PartAssumption DEF Reference
  <2> QED
    BY <2>1, <2>2
<1>2. CASE ref.digest # ""
  BY <1>1, <1>2 DEF imageTag, imageDigest
<1>3. CASE ref.digest = ""
  BY <1>1, <1>3 DEF imageTag, imageDigest
<1> QED
  BY <1>2, <1>3

\* An entry has no list of one empty string, so it is read as it is.
LEMMA ReadIsEntry ==
  ASSUME EntriesInv, NEW n \in Name, images[n] # Nil
  PROVE  getImage(n) = images[n] /\ Entry(n, getImage(n))
<1> DEFINE img == images[n]
<1>1. Entry(n, img)
  BY DEF EntriesInv
<1>2. Nil \in Item
  BY DEF Item
<1>3. img.Tags[Nil] = 0 /\ img.Digests[Nil] = 0 /\ img.Tags \in Slice /\ img.Digests \in Slice
  BY <1>1, <1>2 DEF Entry, TagsOf, DigestsOf, Image, Slice
<1>4. only(Nil)[Nil] = 1
  BY <1>2 DEF only, empty
<1>5. unblank(img.Tags) = img.Tags /\ unblank(img.Digests) = img.Digests
  BY <1>3, <1>4 DEF unblank
<1>6. getImage(n) = [img EXCEPT !.Tags = unblank(@), !.Digests = unblank(@)]
  BY DEF getImage
<1>7. getImage(n) = img
  BY <1>1, <1>5, <1>6 DEF Entry, Image
<1> QED
  BY <1>1, <1>7

\* addToSliceWithoutDuplicate adds its item, once, and loses nothing.
LEMMA Added ==
  ASSUME NEW slice \in Slice, Distinct(slice), NEW item \in Item
  PROVE  LET new == addToSliceWithoutDuplicate(item, slice) IN
         /\ new \in Slice /\ Distinct(new)
         /\ \A i \in Item : new[i] > 0 <=> slice[i] > 0 \/ (i = item /\ item # Nil)
  BY DEF addToSliceWithoutDuplicate, Slice, Distinct

\* What PullImage writes is an entry.
LEMMA PulledIsEntry ==
  ASSUME NEW ref \in Ref, NEW old, old = Nil \/ Entry(imageName(ref), old)
  PROVE  Entry(imageName(ref), pulled(ref, old))
<1> DEFINE n == imageName(ref)
           base == IF old # Nil THEN old
                   ELSE [Image |-> ref, Tags |-> empty, Digests |-> empty]
           tags == addToSliceWithoutDuplicate(imageTag(ref), base.Tags)
           digests == addToSliceWithoutDuplicate(imageDigest(ref), base.Digests)
<1>1. empty \in Slice /\ Distinct(empty) /\ TagsOf(n, empty) /\ DigestsOf(n, empty)
  BY DEF empty, Slice, Distinct, TagsOf, DigestsOf
<1>2. /\ base \in Image /\ imageName(base.Image) = n
      /\ Distinct(base.Tags) /\ Distinct(base.Digests)
      /\ TagsOf(n, base.Tags) /\ DigestsOf(n, base.Digests)
  BY <1>1 DEF Entry, Image
<1>3. base.Tags \in Slice /\ base.Digests \in Slice
  BY <1>2 DEF Image
<1>4. /\ tags \in Slice /\ Distinct(tags)
      /\ \A i \in Item : tags[i] > 0 <=> base.Tags[i] > 0 \/ (i = imageTag(ref) /\ imageTag(ref) # Nil)
  BY <1>2, <1>3, TagStays, Added
<1>5. /\ digests \in Slice /\ Distinct(digests)
      /\ \A i \in Item : digests[i] > 0
           <=> base.Digests[i] > 0 \/ (i = imageDigest(ref) /\ imageDigest(ref) # Nil)
  BY <1>2, <1>3, TagStays, Added
<1>6. TagsOf(n, tags)
  BY <1>2, <1>4, TagStays DEF TagsOf
<1>7. DigestsOf(n, digests)
  BY <1>2, <1>5, DigestStays DEF DigestsOf
<1>8. \E i \in Item : tags[i] > 0 \/ digests[i] > 0
  BY <1>4, <1>5, TagStays, DigestStays
<1>9. pulled(ref, old) = [base EXCEPT !.Tags = tags, !.Digests = digests]
  BY DEF pulled
<1>10. /\ pulled(ref, old) \in Image
       /\ pulled(ref, old).Image = base.Image
       /\ pulled(ref, old).Tags = tags /\ pulled(ref, old).Digests = digests
  BY <1>2, <1>4, <1>5, <1>9 DEF Image
<1> QED
  BY <1>2, <1>4, <1>5, <1>6, <1>7, <1>8, <1>10 DEF Entry

\* What RemoveImage writes back, when it does not erase, is an entry: only
\* the last tag or the last digest would have emptied it.
LEMMA TrimmedIsEntry ==
  ASSUME NEW ref \in Ref, NEW img, Entry(imageName(ref), img), ~isLast(ref, img)
  PROVE  Entry(imageName(ref), [img EXCEPT !.Tags = removeFromSlice(imageTag(ref), @),
                                           !.Digests = removeFromSlice(imageDigest(ref), @)])
<1> DEFINE n == imageName(ref)
           tags == [img.Tags EXCEPT ![imageTag(ref)] = 0]
           digests == [img.Digests EXCEPT ![imageDigest(ref)] = 0]
           new == [img EXCEPT !.Tags = tags, !.Digests = digests]
<1>1. img \in Image /\ img.Tags \in Slice /\ img.Digests \in Slice
  BY DEF Entry, Image
<1>2. imageTag(ref) \in Item /\ imageDigest(ref) \in Item
  BY TagStays
<1>3. /\ tags \in Slice
      /\ \A i \in Item : tags[i] = IF i = imageTag(ref) THEN 0 ELSE img.Tags[i]
  BY <1>1, <1>2 DEF Slice
<1>4. /\ digests \in Slice
      /\ \A i \in Item : digests[i] = IF i = imageDigest(ref) THEN 0 ELSE img.Digests[i]
  BY <1>1, <1>2 DEF Slice
<1>5. new \in Image /\ new.Image = img.Image /\ new.Tags = tags /\ new.Digests = digests
  BY <1>1, <1>3, <1>4 DEF Image
<1>6. Distinct(tags) /\ TagsOf(n, tags)
  BY <1>3 DEF Entry, Distinct, TagsOf
<1>7. Distinct(digests) /\ DigestsOf(n, digests)
  BY <1>4 DEF Entry, Distinct, DigestsOf
<1>8. \E i \in Item : tags[i] > 0 \/ digests[i] > 0
  <2> SUFFICES ASSUME \A i \in Item : tags[i] = 0 /\ digests[i] = 0
               PROVE  FALSE
    BY <1>3, <1>4 DEF Slice
  <2>1. \A i \in Item : i # imageTag(ref) => img.Tags[i] = 0
    BY <1>3
  <2>2. \A i \in Item : i # imageDigest(ref) => img.Digests[i] = 0
    BY <1>4
  <2>3. img.Tags[imageTag(ref)] <= 1 /\ img.Digests[imageDigest(ref)] <= 1
    BY <1>2 DEF Entry, Distinct
  <2>4. img.Tags # only(imageTag(ref)) /\ img.Digests # only(imageDigest(ref))
    BY DEF isLast
  <2>5. img.Tags[imageTag(ref)] = 0
    <3> SUFFICES ASSUME img.Tags[imageTag(ref)] # 0 PROVE FALSE
      OBVIOUS
    <3>1. img.Tags[imageTag(ref)] = 1
      BY <1>1, <1>2, <2>3 DEF Slice
    <3>2. \A i \in Item : img.Tags[i] = only(imageTag(ref))[i]
      BY <3>1, <2>1, <1>2 DEF only, empty
    <3>3. img.Tags = only(imageTag(ref))
      BY <3>2, <1>1 DEF Slice, only, empty
    <3> QED
      BY <3>3, <2>4
  <2>6. img.Digests[imageDigest(ref)] = 0
    <3> SUFFICES ASSUME img.Digests[imageDigest(ref)] # 0 PROVE FALSE
      OBVIOUS
    <3>1. img.Digests[imageDigest(ref)] = 1
      BY <1>1, <1>2, <2>3 DEF Slice
    <3>2. \A i \in Item : img.Digests[i] = only(imageDigest(ref))[i]
      BY <3>1, <2>2, <1>2 DEF only, empty
    <3>3. img.Digests = only(imageDigest(ref))
      BY <3>2, <1>1 DEF Slice, only, empty
    <3> QED
      BY <3>3, <2>4
  <2> QED
    BY <2>1, <2>2, <2>5, <2>6 DEF Entry
<1> QED
  BY <1>5, <1>6, <1>7, <1>8 DEF Entry, removeFromSlice

-----------------------------------------------------------------------------
\* The store starts without an entry.
LEMMA InvInit == Init => Inv
<1> SUFFICES ASSUME Init PROVE Inv
  OBVIOUS
<1>1. NoCall \in Call
  BY DEF NoCall, Call, Ops, Pcs
<1> QED
  BY <1>1 DEF Init, Inv, EntriesInv, CallsInv, NoCall

\* A request that arrives with an entry to write, or with none.
LEMMA ArriveStep ==
  ASSUME Inv, NEW r \in Rpc, NEW op \in Ops, NEW ref \in Ref, NEW pc \in Pcs,
         NEW img \in Image \cup {Nil},
         pc = "put" => Entry(imageName(ref), img),
         Arrive(r, op, ref, pc, img), UNCHANGED images
  PROVE  Inv'
<1>1. EntriesInv'
  BY DEF Inv, EntriesInv
<1> DEFINE new == [op |-> op, pc |-> pc, ref |-> ref, img |-> img]
<1>2. new \in Call
  BY DEF Call
<1>3. calls' \in [Rpc -> Call] /\ calls'[r] = new /\ \A s \in Rpc \ {r} : calls'[s] = calls[s]
  BY <1>2 DEF Arrive, Inv, CallsInv
<1>4. CallsInv'
  BY <1>3 DEF Inv, CallsInv
<1> QED
  BY <1>1, <1>4 DEF Inv

\* A request that goes on to its answer.
LEMMA FinishStep ==
  ASSUME Inv, NEW r \in Rpc, NEW pc \in {"ok", "error"}, Finish(r, pc)
  PROVE  CallsInv'
<1>1. calls' = [calls EXCEPT ![r] = [@ EXCEPT !.pc = pc]]
  BY DEF Finish
<1>2. calls \in [Rpc -> Call] /\ pc \in Pcs
  BY DEF Inv, CallsInv, Pcs
<1>3. [calls[r] EXCEPT !.pc = pc] \in Call /\ [calls[r] EXCEPT !.pc = pc].pc = pc
  BY <1>2 DEF Call
<1>4. /\ calls' \in [Rpc -> Call] /\ calls'[r].pc = pc
      /\ \A s \in Rpc \ {r} : calls'[s] = calls[s]
  BY <1>1, <1>2, <1>3
<1> QED
  BY <1>2, <1>4 DEF Inv, CallsInv

\* Every step keeps every entry, stored or about to be, well formed.
LEMMA InvStep == Inv /\ [Next]_vars => Inv'
<1> SUFFICES ASSUME Inv, [Next]_vars
             PROVE  Inv'
  OBVIOUS
<1>1. ASSUME NEW r \in Rpc, NEW ref \in Ref, PullImage(r, ref)
      PROVE  Inv'
  <2> DEFINE old == getImage(imageName(ref))
             img == pulled(ref, old)
  <2>1. imageName(ref) \in Name
    BY TagStays
  <2>2. old = Nil \/ Entry(imageName(ref), old)
    BY <2>1, ReadIsEntry DEF Inv, getImage
  <2>3. Entry(imageName(ref), img)
    BY <2>2, PulledIsEntry
  <2>4. img \in Image /\ "put" \in Pcs /\ "PullImage" \in Ops
    BY <2>3 DEF Entry, Pcs, Ops
  <2> QED
    BY <1>1, <2>3, <2>4, ArriveStep DEF PullImage
<1>2. ASSUME NEW r \in Rpc, NEW ref \in Ref, RemoveImage(r, ref)
      PROVE  Inv'
  <2> DEFINE img == getImage(imageName(ref))
             new == [img EXCEPT !.Tags = removeFromSlice(imageTag(ref), @),
                                !.Digests = removeFromSlice(imageDigest(ref), @)]
  <2>1. imageName(ref) \in Name
    BY TagStays
  <2>2. img # Nil => Entry(imageName(ref), img)
    BY <2>1, ReadIsEntry DEF Inv, getImage
  <2>3. {"ok", "delete", "put"} \subseteq Pcs /\ "RemoveImage" \in Ops
    BY DEF Pcs, Ops
  <2>4. CASE Arrive(r, "RemoveImage", ref, "ok", Nil)
    BY <1>2, <2>3, <2>4, ArriveStep DEF RemoveImage
  <2>5. CASE Arrive(r, "RemoveImage", ref, "delete", Nil)
    BY <1>2, <2>3, <2>5, ArriveStep DEF RemoveImage
  <2>6. CASE img # Nil /\ ~isLast(ref, img) /\ Arrive(r, "RemoveImage", ref, "put", new)
    <3>1. Entry(imageName(ref), new)
      BY <2>2, <2>6, TrimmedIsEntry
    <3>2. new \in Image
      BY <3>1 DEF Entry
    <3> QED
      BY <1>2, <2>3, <2>6, <3>1, <3>2, ArriveStep DEF RemoveImage
  <2> QED
    BY <1>2, <2>4, <2>5, <2>6 DEF RemoveImage
<1>3. ASSUME NEW r \in Rpc, PutImage(r)
      PROVE  Inv'
  <2> DEFINE n == imageName(calls[r].ref)
  <2>1. n \in Name /\ Entry(n, calls[r].img) /\ calls[r].img \in Image
    BY <1>3, TagStays DEF PutImage, Inv, CallsInv, Entry
  <2>2. images' = [images EXCEPT ![n] = calls[r].img] \/ images' = images
    BY <1>3 DEF PutImage
  <2>3. EntriesInv'
    BY <2>1, <2>2 DEF Inv, EntriesInv
  <2>4. CallsInv'
    BY <1>3, FinishStep DEF PutImage
  <2> QED
    BY <2>3, <2>4 DEF Inv
<1>4. ASSUME NEW r \in Rpc, DeleteImage(r)
      PROVE  Inv'
  <2> DEFINE n == imageName(calls[r].ref)
  <2>1. images' = [images EXCEPT ![n] = Nil] \/ images' = images
    BY <1>4 DEF DeleteImage
  <2>2. EntriesInv'
    BY <2>1 DEF Inv, EntriesInv
  <2>3. CallsInv'
    BY <1>4, FinishStep DEF DeleteImage
  <2> QED
    BY <2>2, <2>3 DEF Inv
<1>5. ASSUME NEW r \in Rpc, Reply(r)
      PROVE  Inv'
  <2>1. NoCall \in Call /\ NoCall.pc = "idle"
    BY DEF NoCall, Call, Ops, Pcs
  <2>2. CallsInv'
    BY <1>5, <2>1 DEF Reply, Inv, CallsInv
  <2> QED
    BY <1>5, <2>2 DEF Reply, Inv, EntriesInv
<1>6. CASE UNCHANGED vars
  BY <1>6 DEF vars, Inv, EntriesInv, CallsInv
<1> QED
  BY <1>1, <1>2, <1>3, <1>4, <1>5, <1>6 DEF Next

\* Inv is an invariant of the service.
LEMMA InvCorrect == Spec => []Inv
  BY InvInit, InvStep, PTL DEF Spec

-----------------------------------------------------------------------------
\* TypeOK: the entries and the calls hold values of their types, for any sets
\* of requests and references.
THEOREM TypeCorrect == Spec => []TypeOK
<1>1. Inv => TypeOK
  BY DEF Inv, EntriesInv, CallsInv, TypeOK
<1> QED
  BY <1>1, InvCorrect, PTL

\* NoDuplicates: no interleaving of pulls and removals lists a tag or a digest
\* twice.
THEOREM NoDuplicatesCorrect == Spec => []NoDuplicates
<1>1. Inv => NoDuplicates
  BY DEF Inv, EntriesInv, Entry, Distinct, NoDuplicates, present
<1> QED
  BY <1>1, InvCorrect, PTL

\* NeverEmpty: no interleaving of pulls and removals, and no failing write,
\* leaves an entry without a tag and a digest.
THEOREM NeverEmptyCorrect == Spec => []NeverEmpty
<1>1. Inv => NeverEmpty
  BY DEF Inv, EntriesInv, Entry, NeverEmpty, present, listed
<1> QED
  BY <1>1, InvCorrect, PTL

\* ListedIsFound: every id, tag and digest that ListImages reports leads
\* RemoveImage and ImageStatus back to its entry, for references of any form.
THEOREM ListedIsFoundCorrect == Spec => []ListedIsFound
<1>1. ASSUME Inv PROVE ListedIsFound
  <2> SUFFICES ASSUME NEW image \in ListImages(Nil)
               PROVE  /\ ListImages(image.Id) = {image}
                      /\ \A i \in {image.Id} \cup image.RepoTags \cup image.RepoDigests :
                           ImageStatus(i) = [image EXCEPT !.Id = i]
                      /\ \A i \in image.RepoTags : imageTag(i) = i
                      /\ \A i \in image.RepoDigests : imageDigest(i) = i
    BY DEF ListedIsFound
  <2>1. PICK n \in Name : /\ getImage(n) # Nil
                          /\ image = [Id |-> getImage(n).Image,
                                      RepoTags |-> listed(getImage(n).Tags),
                                      RepoDigests |-> listed(getImage(n).Digests)]
    BY DEF ListImages, listedImages
  <2> DEFINE img == getImage(n)
             other(m) == [Id |-> getImage(m).Image, RepoTags |-> listed(getImage(m).Tags),
                          RepoDigests |-> listed(getImage(m).Digests)]
  <2>2. Entry(n, img)
    BY <1>1, <2>1, ReadIsEntry DEF Inv, getImage
  <2>3. /\ \A i \in image.RepoTags : imageName(i) = n /\ imageTag(i) = i
        /\ \A i \in image.RepoDigests : imageName(i) = n /\ imageDigest(i) = i
    BY <2>1, <2>2 DEF Entry, TagsOf, DigestsOf, listed
  <2>4. imageName(image.Id) = n
    BY <2>1, <2>2 DEF Entry
  <2>5. ASSUME NEW i, imageName(i) = n
        PROVE  ImageStatus(i) = [image EXCEPT !.Id = i]
    <3>1. ImageStatus(i) = [Id |-> i, RepoTags |-> listed(img.Tags),
                            RepoDigests |-> listed(img.Digests)]
      BY <2>1, <2>5 DEF ImageStatus
    <3> QED
      BY <2>1, <3>1
  <2>6. ASSUME NEW m \in Name, getImage(m) # Nil, image.Id \in {Nil, getImage(m).Image}
        PROVE  m = n
    <3>1. Entry(m, getImage(m))
      BY <1>1, <2>6, ReadIsEntry DEF Inv, getImage
    <3>2. getImage(m).Image \in Ref /\ image.Id \in Ref
      BY <3>1, <2>1, <2>2 DEF Entry, Image
    <3>3. image.Id # Nil
      BY <3>2, RefAssumption
    <3> QED
      BY <2>4, <2>6, <3>1, <3>3 DEF Entry
  <2>7. ListImages(image.Id) = {other(m) : m \in {m \in Name : getImage(m) # Nil
                                                  /\ image.Id \in {Nil, getImage(m).Image}}}
    BY DEF ListImages, listedImages
  <2>8. image.Id = img.Image /\ image = other(n) /\ img # Nil
    BY <2>1
  <2>9. ListImages(image.Id) = {image}
    BY <2>6, <2>7, <2>8
  <2> QED
    BY <2>3, <2>4, <2>5, <2>9
<1> QED
  BY <1>1, InvCorrect, PTL

\* StatusMeansHeld: in every interleaving, a reference has a status exactly as
\* long as something of its repository is held.
THEOREM StatusMeansHeldCorrect == Spec => []StatusMeansHeld
<1>1. ASSUME Inv PROVE StatusMeansHeld
  <2> SUFFICES ASSUME NEW ref \in Ref
               PROVE  ImageStatus(ref) # Nil <=> \E i \in held : imageName(i) = imageName(ref)
    BY DEF StatusMeansHeld
  <2> DEFINE n == imageName(ref)
  <2>1. n \in Name
    BY TagStays
  <2>2. ASSUME NEW m \in Name, getImage(m) # Nil
        PROVE  /\ Entry(m, getImage(m))
               /\ \A i \in listed(getImage(m).Tags) \cup listed(getImage(m).Digests) :
                    i \in Item /\ imageName(i) = m
    <3>1. Entry(m, getImage(m))
      BY <1>1, <2>2, ReadIsEntry DEF Inv, getImage
    <3> QED
      BY <3>1 DEF Entry, TagsOf, DigestsOf, listed
  <2>3. ASSUME getImage(n) # Nil
        PROVE  /\ ImageStatus(ref) # Nil
               /\ \E i \in held : imageName(i) = n
    <3>1. Entry(n, getImage(n))
      BY <2>1, <2>2, <2>3
    <3>2. PICK i \in Item : i \in listed(getImage(n).Tags) \cup listed(getImage(n).Digests)
      BY <3>1 DEF Entry, listed
    <3>3. i \in held /\ imageName(i) = n
      BY <2>1, <2>2, <2>3, <3>2 DEF held, listedImages
    <3>4. ImageStatus(ref) = [Id |-> ref, RepoTags |-> listed(getImage(n).Tags),
                              RepoDigests |-> listed(getImage(n).Digests)]
      BY <2>3 DEF ImageStatus
    <3>5. listed(getImage(n).Tags) \in SUBSET Item /\ listed(getImage(n).Digests) \in SUBSET Item
      BY DEF listed
    <3>6. ImageStatus(ref) \in ListedImage
      BY <3>4, <3>5 DEF ListedImage
    <3> QED
      BY <3>3, <3>6, NilAssumption
  <2>4. ASSUME getImage(n) = Nil
        PROVE  /\ ImageStatus(ref) = Nil
               /\ ~\E i \in held : imageName(i) = n
    <3>1. ASSUME NEW i \in held PROVE imageName(i) # n
      <4>1. PICK m \in Name : getImage(m) # Nil
                              /\ i \in listed(getImage(m).Tags) \cup listed(getImage(m).Digests)
        BY <3>1 DEF held, listedImages
      <4> QED
        BY <2>2, <2>4, <4>1
    <3> QED
      BY <2>4, <3>1 DEF ImageStatus
  <2> QED
    BY <2>3, <2>4
<1> QED
  BY <1>1, InvCorrect, PTL

-----------------------------------------------------------------------------
(***************************************************************************)
(* One client at a time: what a request read is still there when it writes.*)
(***************************************************************************)
OneClient == (\A r, s \in Rpc : r = s) /\ StoreFails = FALSE

\* The image lists the tag or digest of the reference.
Lists(img, ref) ==
  IF ref.digest # "" THEN img.Digests[imageDigest(ref)] > 0 ELSE img.Tags[imageTag(ref)] > 0

\* The image a request is about to write, and the entry it has written, list the
\* reference after a pull and do not after a removal.
SerialInv ==
  \A r \in Rpc :
    LET c == calls[r]
        img == images[imageName(c.ref)]
    IN /\ c.pc \in {"put", "delete", "ok"} => c.ref \in Ref
       /\ c.pc = "delete" => c.op = "RemoveImage"
       /\ c.pc = "put" /\ c.op = "PullImage" => Lists(c.img, c.ref)
       /\ c.pc = "put" /\ c.op = "RemoveImage" => ~Lists(c.img, c.ref)
       /\ c.pc = "ok" /\ c.op = "PullImage" => img # Nil /\ Lists(img, c.ref)
       /\ c.pc = "ok" /\ c.op = "RemoveImage" => img = Nil \/ ~Lists(img, c.ref)

\* A pull of the entry it read lists its reference.
LEMMA PulledLists ==
  ASSUME NEW ref \in Ref, NEW old, old = Nil \/ Entry(imageName(ref), old)
  PROVE  Lists(pulled(ref, old), ref)
<1> DEFINE base == IF old # Nil THEN old
                   ELSE [Image |-> ref, Tags |-> empty, Digests |-> empty]
           tags == addToSliceWithoutDuplicate(imageTag(ref), base.Tags)
           digests == addToSliceWithoutDuplicate(imageDigest(ref), base.Digests)
<1>1. empty \in Slice /\ Distinct(empty)
  BY DEF empty, Slice, Distinct
<1>2. /\ base \in Image /\ base.Tags \in Slice /\ base.Digests \in Slice
      /\ Distinct(base.Tags) /\ Distinct(base.Digests)
  BY <1>1 DEF Entry, Image
<1>3. \A i \in Item : tags[i] > 0 <=> base.Tags[i] > 0 \/ (i = imageTag(ref) /\ imageTag(ref) # Nil)
  BY <1>2, TagStays, Added
<1>4. \A i \in Item :
        digests[i] > 0 <=> base.Digests[i] > 0 \/ (i = imageDigest(ref) /\ imageDigest(ref) # Nil)
  BY <1>2, TagStays, Added
<1>5. pulled(ref, old) = [base EXCEPT !.Tags = tags, !.Digests = digests]
  BY DEF pulled
<1>6. pulled(ref, old).Tags = tags /\ pulled(ref, old).Digests = digests
  BY <1>2, <1>5 DEF Image
<1>7. CASE ref.digest # ""
  <2>1. imageDigest(ref) = ref /\ ref # Nil
    BY <1>7, RefAssumption DEF imageDigest
  <2> QED
    BY <1>4, <1>6, <1>7, <2>1, TagStays DEF Lists
<1>8. CASE ref.digest = ""
  <2>1. imageTag(ref) # Nil
    BY <1>8, DigestStays DEF imageDigest
  <2> QED
    BY <1>3, <1>6, <1>8, <2>1, TagStays DEF Lists
<1> QED
  BY <1>7, <1>8

\* What a removal writes back does not list its reference.
LEMMA TrimmedListsNot ==
  ASSUME NEW ref \in Ref, NEW img, Entry(imageName(ref), img)
  PROVE  ~Lists([img EXCEPT !.Tags = removeFromSlice(imageTag(ref), @),
                            !.Digests = removeFromSlice(imageDigest(ref), @)], ref)
<1> DEFINE tags == [img.Tags EXCEPT ![imageTag(ref)] = 0]
           digests == [img.Digests EXCEPT ![imageDigest(ref)] = 0]
           new == [img EXCEPT !.Tags = tags, !.Digests = digests]
<1>1. img \in Image /\ img.Tags \in Slice /\ img.Digests \in Slice
  BY DEF Entry, Image
<1>2. tags[imageTag(ref)] = 0 /\ digests[imageDigest(ref)] = 0
  BY <1>1, TagStays DEF Slice
<1>3. new.Tags[imageTag(ref)] = 0 /\ new.Digests[imageDigest(ref)] = 0
  BY <1>1, <1>2 DEF Image
<1>4. new = [img EXCEPT !.Tags = removeFromSlice(imageTag(ref), @),
                       !.Digests = removeFromSlice(imageDigest(ref), @)]
  BY DEF removeFromSlice
<1> HIDE DEF new
<1>5. ~Lists(new, ref)
  BY <1>3 DEF Lists
<1> QED
  BY <1>4, <1>5

\* Nothing is done before the first request.
LEMMA SerialInit == Init => SerialInv
<1>1. NoCall.pc = "idle"
  BY DEF NoCall
<1>2. Init => \A r \in Rpc : calls[r].pc = "idle"
  BY <1>1 DEF Init
<1> QED
  BY <1>2 DEF SerialInv

\* No step of the one request in flight makes SerialInv false.
LEMMA SerialStep ==
  ASSUME OneClient, Inv, SerialInv, [Next]_vars
  PROVE  SerialInv'
<1>0. calls \in [Rpc -> Call] /\ \A r, s \in Rpc : r = s
  BY DEF Inv, CallsInv, OneClient
<1>1. ASSUME NEW r \in Rpc, NEW ref \in Ref, PullImage(r, ref)
      PROVE  SerialInv'
  <2> DEFINE old == getImage(imageName(ref))
             img == pulled(ref, old)
  <2>1. old = Nil \/ Entry(imageName(ref), old)
    BY TagStays, ReadIsEntry DEF Inv, getImage
  <2>2. Lists(img, ref)
    BY <2>1, PulledLists
  <2>3. calls'[r] = [op |-> "PullImage", pc |-> "put", ref |-> ref, img |-> img]
    BY <1>0, <1>1 DEF PullImage, Arrive
  <2> HIDE DEF img
  <2> QED
    BY <1>0, <2>2, <2>3 DEF SerialInv
<1>2. ASSUME NEW r \in Rpc, NEW ref \in Ref, RemoveImage(r, ref)
      PROVE  SerialInv'
  <2> DEFINE img == getImage(imageName(ref))
             new == [img EXCEPT !.Tags = removeFromSlice(imageTag(ref), @),
                                !.Digests = removeFromSlice(imageDigest(ref), @)]
  <2>1. imageName(ref) \in Name
    BY TagStays
  <2>2. images[imageName(ref)] # Nil => img # Nil /\ Entry(imageName(ref), img)
    BY <2>1, ReadIsEntry DEF Inv, getImage
  <2>3. UNCHANGED images
    BY <1>2 DEF RemoveImage
  <2>4. CASE img = Nil /\ Arrive(r, "RemoveImage", ref, "ok", Nil)
    <3>1. calls'[r] = [op |-> "RemoveImage", pc |-> "ok", ref |-> ref, img |-> Nil]
      BY <1>0, <2>4 DEF Arrive
    <3>2. images'[imageName(ref)] = Nil
      BY <2>2, <2>3, <2>4
    <3> QED
      BY <1>0, <3>1, <3>2 DEF SerialInv
  <2>5. CASE Arrive(r, "RemoveImage", ref, "delete", Nil)
    <3>1. calls'[r] = [op |-> "RemoveImage", pc |-> "delete", ref |-> ref, img |-> Nil]
      BY <1>0, <2>5 DEF Arrive
    <3> QED
      BY <1>0, <3>1 DEF SerialInv
  <2>6. CASE img # Nil /\ Arrive(r, "RemoveImage", ref, "put", new)
    <3>1. images[imageName(ref)] # Nil
      BY <2>6 DEF getImage
    <3>2. ~Lists(new, ref)
      BY <2>2, <3>1, TrimmedListsNot
    <3>3. calls'[r] = [op |-> "RemoveImage", pc |-> "put", ref |-> ref, img |-> new]
      BY <1>0, <2>6 DEF Arrive
    <3> HIDE DEF new
    <3> QED
      BY <1>0, <3>2, <3>3 DEF SerialInv
  <2> QED
    BY <1>2, <2>4, <2>5, <2>6 DEF RemoveImage
<1>3. ASSUME NEW r \in Rpc, PutImage(r)
      PROVE  SerialInv'
  <2> DEFINE n == imageName(calls[r].ref)
  <2>1. calls[r].ref \in Ref /\ Entry(n, calls[r].img)
    BY <1>3 DEF PutImage, Inv, CallsInv
  <2>2. n \in Name /\ calls[r].img # Nil
    BY <2>1, TagStays, NilAssumption DEF Entry
  <2>3. images' = [images EXCEPT ![n] = calls[r].img] /\ calls' = [calls EXCEPT ![r].pc = "ok"]
    BY <1>3 DEF PutImage, OneClient, Finish
  <2>4. images'[n] = calls[r].img
    BY <2>2, <2>3 DEF Inv, EntriesInv
  <2>5. /\ calls'[r].pc = "ok" /\ calls'[r].op = calls[r].op /\ calls'[r].ref = calls[r].ref
    BY <1>0, <2>3 DEF Call
  <2> QED
    BY <1>0, <1>3, <2>1, <2>2, <2>4, <2>5 DEF SerialInv, PutImage
<1>4. ASSUME NEW r \in Rpc, DeleteImage(r)
      PROVE  SerialInv'
  <2> DEFINE n == imageName(calls[r].ref)
  <2>1. calls[r].ref \in Ref /\ calls[r].op = "RemoveImage"
    BY <1>4 DEF DeleteImage, SerialInv
  <2>2. images' = [images EXCEPT ![n] = Nil] /\ calls' = [calls EXCEPT ![r].pc = "ok"]
    BY <1>4 DEF DeleteImage, OneClient, Finish
  <2>3. images'[n] = Nil
    BY <2>1, <2>2, TagStays DEF Inv, EntriesInv
  <2>4. /\ calls'[r].pc = "ok" /\ calls'[r].op = calls[r].op /\ calls'[r].ref = calls[r].ref
    BY <1>0, <2>2 DEF Call
  <2> QED
    BY <1>0, <2>1, <2>3, <2>4 DEF SerialInv
<1>5. ASSUME NEW r \in Rpc, Reply(r)
      PROVE  SerialInv'
  BY <1>0, <1>5 DEF Reply, SerialInv, NoCall
<1>6. CASE UNCHANGED vars
  BY <1>6 DEF vars, SerialInv
<1> QED
  BY <1>1, <1>2, <1>3, <1>4, <1>5, <1>6 DEF Next

\* Both invariants together, for one client.
LEMMA SerialCorrect == ASSUME OneClient PROVE Spec => [](Inv /\ SerialInv)
<1>1. Init => Inv /\ SerialInv
  BY InvInit, SerialInit
<1>2. Inv /\ SerialInv /\ [Next]_vars => (Inv /\ SerialInv)'
  BY InvStep, SerialStep, OneClient
<1> QED
  BY <1>1, <1>2, PTL DEF Spec

\* PulledIsHeld: for one client, an image is held under the reference it was
\* pulled by, for references of any form and any history of the entry.
THEOREM PulledIsHeldCorrect == ASSUME OneClient PROVE Spec => []PulledIsHeld
<1>1. ASSUME Inv, SerialInv PROVE PulledIsHeld
  <2> SUFFICES ASSUME NEW r \in Rpc, calls[r].op = "PullImage", calls[r].pc = "ok"
               PROVE  canonical(calls[r].ref) \in held
    BY DEF PulledIsHeld, Returned
  <2> DEFINE ref == calls[r].ref
             n == imageName(ref)
  <2>1. ref \in Ref /\ images[n] # Nil /\ Lists(images[n], ref)
    BY <1>1 DEF SerialInv
  <2>2. n \in Name /\ getImage(n) = images[n]
    BY <1>1, <2>1, TagStays, ReadIsEntry DEF Inv
  <2>3. images[n] \in listedImages
    BY <2>1, <2>2 DEF listedImages
  <2>4. canonical(ref) \in listed(images[n].Tags) \cup listed(images[n].Digests)
    BY <2>1, TagStays DEF Lists, canonical, listed
  <2> QED
    BY <2>3, <2>4 DEF held
<1> QED
  BY <1>1, SerialCorrect, PTL

\* RemovedIsGone: for one client, nothing is held under a reference that has
\* been removed, neither as a tag nor as a digest, by any entry.
THEOREM RemovedIsGoneCorrect == ASSUME OneClient PROVE Spec => []RemovedIsGone
<1>1. ASSUME Inv, SerialInv PROVE RemovedIsGone
  <2> SUFFICES ASSUME NEW r \in Rpc, calls[r].op = "RemoveImage", calls[r].pc = "ok",
                      canonical(calls[r].ref) \in held
               PROVE  FALSE
    BY DEF RemovedIsGone, Returned
  <2> DEFINE ref == calls[r].ref
             n == imageName(ref)
             i == canonical(ref)
  <2>1. ref \in Ref /\ (images[n] = Nil \/ ~Lists(images[n], ref))
    BY <1>1 DEF SerialInv
  <2>2. PICK m \in Name : /\ getImage(m) # Nil
                          /\ i \in listed(getImage(m).Tags) \cup listed(getImage(m).Digests)
    BY DEF held, listedImages
  <2>3. Entry(m, getImage(m)) /\ getImage(m) = images[m]
    BY <1>1, <2>2, ReadIsEntry DEF Inv, getImage
  <2>4. i # Nil /\ imageName(i) = m
    BY <2>2, <2>3 DEF Entry, TagsOf, DigestsOf, listed
  <2>5. imageName(i) = n
    BY <2>1, <2>4, TagStays, DigestStays DEF canonical
  <2>6. CASE ref.digest # ""
    <3>1. i = ref /\ imageTag(i) = Nil
      BY <2>6 DEF canonical, imageDigest, imageTag
    <3>2. i \notin listed(getImage(m).Tags)
      BY <2>3, <2>4, <3>1 DEF Entry, TagsOf, listed
    <3> QED
      BY <2>1, <2>2, <2>3, <2>4, <2>5, <2>6, <3>2 DEF Lists, canonical, listed
  <2>7. CASE ref.digest = ""
    <3>1. i = imageTag(ref) /\ imageDigest(i) = Nil
      BY <2>1, <2>7, RefAssumption DEF canonical, imageDigest, imageTag, Reference
    <3>2. i \notin listed(getImage(m).Digests)
      BY <2>3, <2>4, <3>1 DEF Entry, DigestsOf, listed
    <3> QED
      BY <2>1, <2>2, <2>3, <2>4, <2>5, <2>7, <3>2 DEF Lists, canonical, listed
  <2> QED
    BY <2>6, <2>7
<1> QED
  BY <1>1, SerialCorrect, PTL

\* What one client is told of its references is so.
THEOREM AnswerIsTrueCorrect == ASSUME OneClient PROVE Spec => []AnswerIsTrue
<1> QED  BY PulledIsHeldCorrect, RemovedIsGoneCorrect, PTL DEF AnswerIsTrue

-----------------------------------------------------------------------------
(***************************************************************************)
(* One client at a time implements ImageStore: what is held is what the    *)
(* entries hold, and a write changes it by one reference, an erasure by    *)
(* one repository.                                                         *)
(***************************************************************************)
Holds(img, i) == img # Nil /\ (img.Tags[i] > 0 \/ img.Digests[i] > 0)

\* A pull is about to add its reference to the entry as it still is, and a
\* removal to take it off, or to erase the entry.
PendingInv ==
  \A r \in Rpc :
    LET c == calls[r]
        before == images[imageName(c.ref)]
    IN /\ c.pc = "put" => c.op \in {"PullImage", "RemoveImage"}
       /\ c.pc = "put" /\ c.op = "PullImage" =>
            \A i \in Item : Holds(c.img, i) <=> Holds(before, i) \/ i = canonical(c.ref)
       /\ c.pc = "put" /\ c.op = "RemoveImage" =>
            \A i \in Item : Holds(c.img, i) <=> Holds(before, i) /\ i # canonical(c.ref)

\* A reference names a digest or a tag, never both.
LEMMA TagOrDigest ==
  ASSUME NEW ref
  PROVE  \/ imageTag(ref) = Nil /\ imageDigest(ref) = ref /\ canonical(ref) = imageDigest(ref)
         \/ imageDigest(ref) = Nil /\ canonical(ref) = imageTag(ref)
  BY DEF imageTag, imageDigest, canonical

\* The tag of a reference is no digest.
LEMMA TagIsNoDigest ==
  ASSUME NEW ref \in Ref, imageDigest(ref) = Nil, ref # Nil
  PROVE  imageDigest(imageTag(ref)) = Nil
<1>1. ref.digest = ""
  BY DEF imageDigest
<1>2. [ref EXCEPT !.tag = "latest"].digest = ref.digest
  BY RefAssumption DEF Reference
<1>3. imageTag(ref).digest = ""
  BY <1>1, <1>2 DEF imageTag
<1> QED  BY <1>3 DEF imageDigest

\* A reference is held under an item of its own repository.
LEMMA CanonicalItem ==
  ASSUME NEW ref \in Ref
  PROVE  /\ canonical(ref) \in Item \ {Nil}
         /\ imageName(canonical(ref)) = imageName(ref)
<1>1. ref # Nil
  BY RefAssumption
<1>2. canonical(ref) \in {imageTag(ref), imageDigest(ref)} /\ canonical(ref) # Nil
  BY <1>1, TagOrDigest, DigestStays
<1> QED  BY <1>2, TagStays, DigestStays

\* An entry holds only references of its repository.
LEMMA EntryHolds ==
  ASSUME NEW n, NEW img, Entry(n, img)
  PROVE  /\ img # Nil
         /\ \A i \in Item : Holds(img, i) => i # Nil /\ imageName(i) = n
  BY NilAssumption DEF Entry, Holds, TagsOf, DigestsOf

\* What PullImage writes holds its reference and all that the entry held.
LEMMA PulledHolds ==
  ASSUME NEW ref \in Ref, NEW old, old = Nil \/ Entry(imageName(ref), old)
  PROVE  \A i \in Item : Holds(pulled(ref, old), i) <=> Holds(old, i) \/ i = canonical(ref)
<1> DEFINE base == IF old # Nil THEN old
                   ELSE [Image |-> ref, Tags |-> empty, Digests |-> empty]
           tags == addToSliceWithoutDuplicate(imageTag(ref), base.Tags)
           digests == addToSliceWithoutDuplicate(imageDigest(ref), base.Digests)
<1>1. empty \in Slice /\ Distinct(empty) /\ \A i \in Item : ~(empty[i] > 0)
  BY DEF empty, Slice, Distinct
<1>2. /\ base \in Image /\ base.Tags \in Slice /\ base.Digests \in Slice
      /\ Distinct(base.Tags) /\ Distinct(base.Digests)
  BY <1>1 DEF Entry, Image
<1>3. \A i \in Item : base.Tags[i] > 0 \/ base.Digests[i] > 0 <=> Holds(old, i)
  BY <1>1 DEF Holds
<1>4. \A i \in Item : tags[i] > 0 <=> base.Tags[i] > 0 \/ (i = imageTag(ref) /\ imageTag(ref) # Nil)
  BY <1>2, TagStays, Added
<1>5. \A i \in Item :
        digests[i] > 0 <=> base.Digests[i] > 0 \/ (i = imageDigest(ref) /\ imageDigest(ref) # Nil)
  BY <1>2, TagStays, Added
<1>6. pulled(ref, old) = [base EXCEPT !.Tags = tags, !.Digests = digests]
  BY DEF pulled
<1>7. pulled(ref, old).Tags = tags /\ pulled(ref, old).Digests = digests
  BY <1>2, <1>6 DEF Image
<1>8. pulled(ref, old) # Nil
  BY PulledIsEntry, EntryHolds
<1>9. \A i : i = canonical(ref) <=> \/ i = imageTag(ref) /\ imageTag(ref) # Nil
                                    \/ i = imageDigest(ref) /\ imageDigest(ref) # Nil
  BY CanonicalItem, TagOrDigest
<1> HIDE DEF tags, digests, base
<1> QED  BY <1>3, <1>4, <1>5, <1>7, <1>8, <1>9 DEF Holds

\* What RemoveImage writes back holds all that the entry held but its
\* reference.
LEMMA TrimmedHolds ==
  ASSUME NEW ref \in Ref, NEW img, Entry(imageName(ref), img)
  PROVE  LET new == [img EXCEPT !.Tags = removeFromSlice(imageTag(ref), @),
                                !.Digests = removeFromSlice(imageDigest(ref), @)]
         IN new # Nil => \A i \in Item : Holds(new, i) <=> Holds(img, i) /\ i # canonical(ref)
<1> DEFINE tags == [img.Tags EXCEPT ![imageTag(ref)] = 0]
           digests == [img.Digests EXCEPT ![imageDigest(ref)] = 0]
           new == [img EXCEPT !.Tags = tags, !.Digests = digests]
<1>1. img \in Image /\ img.Tags \in Slice /\ img.Digests \in Slice
  BY DEF Entry, Image
<1>2. \A i \in Item : tags[i] = IF i = imageTag(ref) THEN 0 ELSE img.Tags[i]
  BY <1>1 DEF Slice
<1>3. \A i \in Item : digests[i] = IF i = imageDigest(ref) THEN 0 ELSE img.Digests[i]
  BY <1>1 DEF Slice
<1>4. new.Tags = tags /\ new.Digests = digests
  BY <1>1 DEF Image
<1>5. new = [img EXCEPT !.Tags = removeFromSlice(imageTag(ref), @),
                       !.Digests = removeFromSlice(imageDigest(ref), @)]
  BY DEF removeFromSlice
<1>6. ASSUME new # Nil, NEW i \in Item
      PROVE  Holds(new, i) <=> Holds(img, i) /\ i # canonical(ref)
  <2>1. Holds(new, i) <=> \/ i # imageTag(ref) /\ img.Tags[i] > 0
                          \/ i # imageDigest(ref) /\ img.Digests[i] > 0
    BY <1>2, <1>3, <1>4, <1>6 DEF Holds
  <2>2. Holds(img, i) <=> img.Tags[i] > 0 \/ img.Digests[i] > 0
    BY EntryHolds DEF Holds
  <2>3. /\ img.Tags[i] > 0 => i # Nil /\ imageTag(i) = i
        /\ img.Digests[i] > 0 => i # Nil /\ imageDigest(i) = i
    BY DEF Entry, TagsOf, DigestsOf
  <2>4. CASE imageTag(ref) = Nil /\ imageDigest(ref) = ref /\ canonical(ref) = imageDigest(ref)
    BY <2>1, <2>2, <2>3, <2>4
  <2>5. CASE imageDigest(ref) = Nil /\ canonical(ref) = imageTag(ref)
    <3>1. imageDigest(imageTag(ref)) = Nil
      BY <2>5, TagIsNoDigest, RefAssumption
    <3> QED  BY <2>1, <2>2, <2>3, <2>5, <3>1
  <2> QED  BY <2>4, <2>5, TagOrDigest
<1> HIDE DEF new
<1> QED  BY <1>5, <1>6

\* Nothing is pending before the first request.
LEMMA PendingInit == Init => PendingInv
<1>1. NoCall.pc = "idle"
  BY DEF NoCall
<1> QED  BY <1>1 DEF Init, PendingInv

\* One client finds the entry as it read it when it writes.
LEMMA PendingStep ==
  ASSUME OneClient, Inv, PendingInv, [Next]_vars
  PROVE  PendingInv'
<1>0. calls \in [Rpc -> Call] /\ \A r, s \in Rpc : r = s
  BY DEF Inv, CallsInv, OneClient
<1>1. ASSUME NEW r \in Rpc, NEW ref \in Ref, PullImage(r, ref)
      PROVE  PendingInv'
  <2> DEFINE n == imageName(ref)
             old == getImage(n)
             img == pulled(ref, old)
  <2>1. old = Nil \/ Entry(n, old)
    BY TagStays, ReadIsEntry DEF Inv, getImage
  <2>2. \A i \in Item : Holds(old, i) <=> Holds(images[n], i)
    BY TagStays, ReadIsEntry DEF Inv, getImage, Holds
  <2>3. \A i \in Item : Holds(img, i) <=> Holds(images[n], i) \/ i = canonical(ref)
    BY <2>1, <2>2, PulledHolds
  <2>4. calls'[r] = [op |-> "PullImage", pc |-> "put", ref |-> ref, img |-> img]
    BY <1>0, <1>1 DEF PullImage, Arrive
  <2>5. UNCHANGED images
    BY <1>1 DEF PullImage
  <2> HIDE DEF img
  <2> QED  BY <1>0, <2>3, <2>4, <2>5 DEF PendingInv
<1>2. ASSUME NEW r \in Rpc, NEW ref \in Ref, RemoveImage(r, ref)
      PROVE  PendingInv'
  <2> DEFINE n == imageName(ref)
             img == getImage(n)
             new == [img EXCEPT !.Tags = removeFromSlice(imageTag(ref), @),
                                !.Digests = removeFromSlice(imageDigest(ref), @)]
  <2>1. UNCHANGED images
    BY <1>2 DEF RemoveImage
  <2>2. CASE \E pc \in {"ok", "delete"} : Arrive(r, "RemoveImage", ref, pc, Nil)
    <3>1. calls'[r].pc # "put"
      BY <1>0, <2>2 DEF Arrive
    <3> QED  BY <1>0, <3>1 DEF PendingInv
  <2>3. CASE img # Nil /\ ~isLast(ref, img) /\ Arrive(r, "RemoveImage", ref, "put", new)
    <3>1. img = images[n] /\ Entry(n, img)
      BY <2>3, TagStays, ReadIsEntry DEF Inv, getImage
    <3>2. new # Nil
      BY <2>3, <3>1, TrimmedIsEntry, EntryHolds
    <3>3. \A i \in Item : Holds(new, i) <=> Holds(images[n], i) /\ i # canonical(ref)
      BY <3>1, <3>2, TrimmedHolds
    <3>4. calls'[r] = [op |-> "RemoveImage", pc |-> "put", ref |-> ref, img |-> new]
      BY <1>0, <2>3 DEF Arrive
    <3> HIDE DEF new
    <3> QED  BY <1>0, <2>1, <3>3, <3>4 DEF PendingInv
  <2> QED  BY <1>2, <2>2, <2>3 DEF RemoveImage
<1>3. ASSUME NEW r \in Rpc, PutImage(r) \/ DeleteImage(r) \/ Reply(r)
      PROVE  PendingInv'
  <2>1. calls'[r].pc # "put"
    BY <1>0, <1>3 DEF PutImage, DeleteImage, Reply, Finish, NoCall, Call
  <2> QED  BY <1>0, <2>1 DEF PendingInv
<1>4. CASE UNCHANGED vars
  BY <1>4 DEF vars, PendingInv
<1> QED  BY <1>1, <1>2, <1>3, <1>4 DEF Next

\* What is held is what the entries hold.
HeldByEntries == {i \in Item : \E n \in Name : Holds(images[n], i)}
LEMMA HeldIs == EntriesInv => held = HeldByEntries
<1> SUFFICES ASSUME EntriesInv PROVE held = HeldByEntries
  OBVIOUS
<1>1. \A n \in Name : getImage(n) # Nil <=> images[n] # Nil
  BY ReadIsEntry, EntryHolds DEF getImage
<1>2. \A n \in Name : images[n] # Nil => getImage(n) = images[n]
  BY ReadIsEntry
<1>3. ASSUME NEW i \in held PROVE i \in Item /\ \E n \in Name : Holds(images[n], i)
  <2>1. PICK n \in Name : getImage(n) # Nil
                          /\ i \in listed(getImage(n).Tags) \cup listed(getImage(n).Digests)
    BY DEF held, listedImages
  <2> QED  BY <1>1, <1>2, <2>1 DEF listed, Holds
<1>4. ASSUME NEW i \in Item, NEW n \in Name, Holds(images[n], i) PROVE i \in held
  <2>1. images[n] # Nil /\ getImage(n) # Nil /\ getImage(n) = images[n]
    BY <1>1, <1>2, <1>4 DEF Holds
  <2>2. getImage(n) \in listedImages
    BY <2>1 DEF listedImages
  <2>3. i \in listed(getImage(n).Tags) \cup listed(getImage(n).Digests)
    BY <1>4, <2>1 DEF Holds, listed
  <2> QED  BY <2>2, <2>3 DEF held
<1> QED  BY <1>3, <1>4 DEF HeldByEntries

\* A step of one client pulls one reference, removes one, or removes all of
\* one repository, or changes nothing that is held.
LEMMA StoreStep ==
  ASSUME OneClient, Inv, PendingInv, [Next]_vars,
         held = HeldByEntries, (held = HeldByEntries)'
  PROVE  [Store!Next]_held
<1>1. held = {i \in Item : \E n \in Name : Holds(images[n], i)}
  BY DEF HeldByEntries
<1>2. held' = {i \in Item : \E n \in Name : Holds(images'[n], i)}
  BY DEF HeldByEntries, Holds
<1>3. CASE UNCHANGED images
  BY <1>1, <1>2, <1>3
<1>4. ASSUME NEW r \in Rpc, PutImage(r), images' # images
      PROVE  Store!Next
  <2> DEFINE ref == calls[r].ref
             n == imageName(ref)
             i == canonical(ref)
  <2>1. ref \in Ref /\ n \in Name /\ calls[r].pc = "put"
    BY <1>4, TagStays DEF PutImage, Inv, CallsInv
  <2>2. images' = [images EXCEPT ![n] = calls[r].img]
    BY <1>4 DEF PutImage
  <2>3. /\ images'[n] = calls[r].img
        /\ \A m \in Name : m # n => images'[m] = images[m]
    BY <2>1, <2>2 DEF Inv, EntriesInv
  <2>4. i \in Item \ {Nil} /\ imageName(i) = n
    BY <2>1, CanonicalItem
  <2>5. \A m \in Name : Holds(images[m], i) => m = n
    BY <2>4, EntryHolds DEF Inv, EntriesInv, Holds
  <2>6. CASE calls[r].op = "PullImage"
    <3>1. \A j \in Item : Holds(images'[n], j) <=> Holds(images[n], j) \/ j = i
      BY <2>1, <2>3, <2>6 DEF PendingInv
    <3>2. held' = held \cup {i}
      BY <1>1, <1>2, <2>1, <2>3, <2>4, <3>1
    <3> QED  BY <2>4, <3>2 DEF Store!Next, Store!Pull
  <2>7. CASE calls[r].op = "RemoveImage"
    <3>1. \A j \in Item : Holds(images'[n], j) <=> Holds(images[n], j) /\ j # i
      BY <2>1, <2>3, <2>7 DEF PendingInv
    <3>2. held' = held \ {i}
      BY <1>1, <1>2, <2>1, <2>3, <2>5, <3>1
    <3> QED  BY <2>4, <3>2 DEF Store!Next, Store!Remove
  <2> QED  BY <2>1, <2>6, <2>7 DEF PendingInv
<1>5. ASSUME NEW r \in Rpc, DeleteImage(r), images' # images
      PROVE  Store!Next
  <2> DEFINE ref == calls[r].ref
             n == imageName(ref)
             i == canonical(ref)
             family == {j \in Item \ {Nil} : imageName(j) = n}
  <2>1. ref \in Ref /\ n \in Name
    BY <1>5, TagStays DEF DeleteImage, Inv, CallsInv
  <2>2. images' = [images EXCEPT ![n] = Nil]
    BY <1>5 DEF DeleteImage
  <2>3. images'[n] = Nil /\ \A m \in Name : m # n => images'[m] = images[m]
    BY <2>1, <2>2 DEF Inv, EntriesInv
  <2>4. \A m \in Name, j \in Item : Holds(images[m], j) => j # Nil /\ imageName(j) = m
    BY EntryHolds DEF Inv, EntriesInv, Holds
  <2>5. \A m \in Name, j \in Item :
          Holds(images'[m], j) <=> Holds(images[m], j) /\ imageName(j) # n
    BY <2>3, <2>4 DEF Holds
  <2>6. held' = held \ family
    BY <1>1, <1>2, <2>4, <2>5
  <2>7. i \in Item \ {Nil} /\ i \in family
    BY <2>1, CanonicalItem
  <2>8. family \in {{j \in Item \ {Nil} : imageName(j) = m} : m \in Name}
    BY <2>1
  <2> HIDE DEF family
  <2>9. Store!Remove(i)
    BY <2>6, <2>7, <2>8 DEF Store!Remove
  <2> QED  BY <2>7, <2>9 DEF Store!Next
<1>6. ASSUME NEW r \in Rpc, images' # images PROVE
        [Next]_vars => PutImage(r) \/ DeleteImage(r)
  BY <1>6 DEF OneClient, Next, PullImage, RemoveImage, Reply, vars
<1> QED  BY <1>3, <1>4, <1>5, <1>6 DEF Next, vars

\* For one client, and writes that succeed, the service is a set of held
\* references, whatever the form of the references and however many they are.
THEOREM ImageStoreCorrect == ASSUME OneClient PROVE Spec => ImplementsImageStore
<1>1. Init => held = {}
  BY DEF Init, held, listedImages, getImage
<1>2. Spec => [](Inv /\ PendingInv)
  <2>1. Init => Inv /\ PendingInv
    BY InvInit, PendingInit
  <2>2. Inv /\ PendingInv /\ [Next]_vars => (Inv /\ PendingInv)'
    BY InvStep, PendingStep, OneClient
  <2> QED  BY <2>1, <2>2, PTL DEF Spec
<1>3. Spec => [](Inv /\ PendingInv /\ held = HeldByEntries)
  <2>1. Inv => held = HeldByEntries
    BY HeldIs DEF Inv
  <2> QED  BY <1>2, <2>1, PTL
<1>4. /\ Inv /\ PendingInv /\ held = HeldByEntries
      /\ [Next]_vars
      /\ (Inv /\ PendingInv /\ held = HeldByEntries)'
      => [Store!Next]_held
  BY StoreStep, OneClient
<1>5. Init => Store!Init
  BY <1>1 DEF Store!Init
<1> QED  BY <1>3, <1>4, <1>5, PTL DEF Spec, ImplementsImageStore, Store!Spec
=============================================================================
