----------------------------- MODULE ImageLibrary -----------------------------
(***************************************************************************)
(* ImageLibrary of crates/service/src/image_library.rs: the list of images *)
(* and its manifest images.json, the managed copies of their files, and    *)
(* the callers that import, verify, remove and prepare images at the same  *)
(* time.  An import copies and inspects without the lock; a preparation    *)
(* takes the record under the read lock and reads the files after it.      *)
(* Files rot, writes fail, and the process may die between any two steps.  *)
(*                                                                         *)
(* Abstractions: the hash of an image is its files, put one after another. *)
(* Sizes, paths outside the store and symbolic links are left out.  A call *)
(* that is refused changes nothing and is no step, unless it ends a call.  *)
(***************************************************************************)
EXTENDS ImageFormats

CONSTANTS
  Caller,        \* desktop commands and requests of machines, at one time
  Id,            \* bound: the image ids that are generated
  Dir,           \* bound: the directories that are generated
  Index,         \* the image index or source partition a call asks for
  Requested,     \* the byte ranges a machine asks for
  MaxFaults      \* bound: files that rot, writes that fail, crashes

ASSUME RequestedAssumption == Requested \subseteq (Nat \cup {-1}) \X (Nat \cup {-1})

VARIABLES
  folder,        \* the operator's files: [name -> file]
  library,       \* the images in memory
  manifest,      \* images.json
  objects,       \* the managed directories: [directory -> [name -> file]]
  op,            \* the call each caller is in
  running,
  budget,        \* calls and faults that are left
  reverified     \* history: the images verified again when they were damaged

libraryVars == <<folder, library, manifest, objects, op, running, budget, reverified>>

------------------------------------------------------------------------------
(* Images and their files. *)

Concatenated(files) == FlattenSeq(files)

Content(directory, names) == [i \in DOMAIN names |-> directory[names[i]]]

Managed(image) ==
  image.dir \in DOMAIN objects /\ ToSet(image.names) \subseteq DOMAIN objects[image.dir]

Files(image) == Content(objects[image.dir], image.names)

\* Slip: only the presence of the files is checked.
IsThere(image) == Managed(image)

IsIntact(image) == Managed(image) /\ Concatenated(Files(image)) = image.hash

\* managed_installer_assets_match
AssetsIntact(image) ==
  \A n \in DOMAIN image.assets :
    n \in DOMAIN objects[image.dir] /\ objects[image.dir][n] = image.assets[n]

\* A record without its id, made of the names of an image in a directory.
Inspected(directory, dir, names) ==
  LET primary == names[1]
      files   == Content(directory, names)
      ntfs    == IF primary.ext = Gho THEN NtfsPartitions(files) ELSE {}
  IN  [format     |-> primary.ext,
       dir        |-> dir,
       names      |-> names,
       hash       |-> Concatenated(files),
       partitions |-> ntfs,
       assets     |-> IF primary.ext = Iso THEN BootAssets(files[1]) ELSE <<>>,
       verified   |-> primary.ext \in {Wim, Iso} \/ ntfs # {}]

WithId(id, image) ==
  [f \in {"id"} \cup DOMAIN image |-> IF f = "id" THEN id ELSE image[f]]

Without(images, id) ==
  LET kept[n \in 0..Len(images)] ==
        IF n = 0 THEN <<>>
        ELSE IF images[n].id = id THEN kept[n - 1] ELSE Append(kept[n - 1], images[n])
  IN  kept[Len(images)]

Ids(images) == {images[i].id : i \in DOMAIN images}

ImageNamed(images, id) ==
  images[CHOOSE i \in DOMAIN images : images[i].id = id]

------------------------------------------------------------------------------
(* Calls. *)

NoCall == [step |-> "idle"]

Does(c, step) == running /\ op[c].step = step

Goes(c, call) == op' = [op EXCEPT ![c] = call]

\* Slip: the manifest is written after the lock is released.
NeverLocked == FALSE

\* The write lock is held while the manifest is written.
Locked == \E c \in Caller : op[c].step = "writing"

Begins(c) ==
  /\ Does(c, "idle") /\ budget.calls > 0
  /\ budget' = [budget EXCEPT !.calls = @ - 1]

Fault ==
  budget.faults > 0 /\ budget' = [budget EXCEPT !.faults = @ - 1]

\* A write of next, a new directory it lists and one it no longer lists.
Writing(next, made, drop) ==
  [step |-> "writing", next |-> next, made |-> made, drop |-> drop]

KnownIds ==
  Ids(library) \cup Ids(manifest.images)
    \cup {op[c].image.id : c \in {b \in Caller : op[b].step \in {"cloned", "ready", "prepared", "served"}}}

KnownDirs ==
  DOMAIN objects \cup {library[i].dir : i \in DOMAIN library}

Put(dir, files) == [d \in {dir} \cup DOMAIN objects |-> IF d = dir THEN files ELSE objects[d]]

Dropped(dirs) == [d \in DOMAIN objects \ dirs |-> objects[d]]

------------------------------------------------------------------------------
(* import *)

\* The checks of the source, the copy into a directory of its own, and the
\* inspection of the copy: no lock is held.
Stage(c, primary) ==
  LET names == <<primary>> \o Spans(primary, DOMAIN folder)
  IN  /\ Begins(c)
      /\ primary \in DOMAIN folder /\ primary.ext \in KnownFormats
      /\ primary.ext = Wim => WimHeaderAccepted(folder[primary])
      /\ SpansAccepted(primary, DOMAIN folder)
      /\ primary.ext = Iso => IsoAccepted(folder[primary])
      /\ \E dir \in Dir \ KnownDirs :
           LET image == Inspected(folder, dir, names)
               copies == [n \in ToSet(names) |-> folder[n]]
               assets == [n \in DOMAIN image.assets |-> image.assets[n]]
           IN  /\ objects' = Put(dir, [n \in DOMAIN copies \cup DOMAIN assets |->
                                         IF n \in DOMAIN copies THEN copies[n] ELSE assets[n]])
               /\ Goes(c, [step |-> "staged", image |-> image])
  /\ UNCHANGED <<folder, library, manifest, running, reverified>>

SameFiles(listed, image) ==
  /\ listed.format = image.format /\ listed.names = image.names
  /\ listed.hash = image.hash

\* Files of other lengths can have the hash of the whole.
SameLengths(listed, image) ==
  \A n \in ToSet(listed.names) :
    Len(objects[listed.dir][n]) = Len(objects[image.dir][n])

IsWhole(listed) ==
  IsIntact(listed) /\ (listed.format = Iso => AssetsIntact(listed))

Duplicates(image) ==
  {i \in DOMAIN library :
     /\ SameFiles(library[i], image)
     /\ IsWhole(library[i]) => SameLengths(library[i], image)}

\* Under the write lock: an image that is there is answered, one whose files are
\* damaged gets the new ones, and any other is new.
Commit(c) ==
  /\ Does(c, "staged") /\ ~Locked
  /\ LET image == op[c].image
         duplicates == Duplicates(image)
         first == library[CHOOSE i \in duplicates : \A j \in duplicates : i <= j]
     IN  IF duplicates # {} /\ IsWhole(first)
         THEN objects' = Dropped({image.dir}) /\ Goes(c, NoCall)
         ELSE /\ \E id \in IF duplicates # {} THEN {first.id} ELSE Id \ KnownIds :
                   Goes(c, Writing(Append(Without(library, id), WithId(id, image)),
                                   {image.dir}, {}))
              /\ UNCHANGED objects
  /\ UNCHANGED <<folder, library, manifest, running, budget, reverified>>

------------------------------------------------------------------------------
(* The writes. *)

WriteManifest(c) ==
  /\ Does(c, "writing")
  /\ library' = op[c].next
  /\ manifest' = [torn |-> FALSE, images |-> op[c].next]
  /\ Goes(c, IF op[c].drop = {} THEN NoCall
             ELSE [step |-> "cleaning", drop |-> op[c].drop])
  /\ UNCHANGED <<folder, objects, running, budget, reverified>>

\* The directory of an import cannot be renamed, or fs::write fails, before or in
\* the middle of the file.
FailWrite(c) ==
  /\ Does(c, "writing") /\ Fault
  /\ manifest' \in {manifest, [torn |-> TRUE, images |-> <<>>]}
  /\ objects' = Dropped(op[c].made)
  /\ Goes(c, NoCall)
  /\ UNCHANGED <<folder, library, running, reverified>>

\* The directory of an image that no other image uses.
OwnDirectory(image, next) ==
  {image.dir} \ {next[i].dir : i \in DOMAIN next}

RemoveImage(c, id) ==
  /\ Begins(c) /\ ~Locked /\ id \in Ids(library)
  /\ LET next == Without(library, id)
     IN  Goes(c, Writing(next, {}, OwnDirectory(ImageNamed(library, id), next)
                                     \cap DOMAIN objects))
  /\ UNCHANGED <<folder, library, manifest, objects, running, reverified>>

\* After the lock is released; remove_dir_all may fail.
Clean(c) ==
  /\ Does(c, "cleaning")
  /\ \/ objects' = Dropped(op[c].drop) /\ UNCHANGED budget
     \/ Fault /\ UNCHANGED objects
  /\ Goes(c, NoCall)
  /\ UNCHANGED <<folder, library, manifest, running, reverified>>

\* verify_gho_image inspects under the write lock; a file that is missing blocks
\* the image.
VerifyGho(c, id) ==
  /\ Begins(c) /\ ~Locked /\ id \in Ids(library)
  /\ LET image == ImageNamed(library, id)
         found == IF Managed(image) THEN NtfsPartitions(Files(image)) ELSE {}
     IN  /\ image.format = Gho
         /\ image.dir \in DOMAIN objects /\ image.names[1] \in DOMAIN objects[image.dir]
         /\ Goes(c, Writing([i \in DOMAIN library |->
                               IF library[i].id = id
                               THEN [image EXCEPT !.partitions = found, !.verified = found # {}]
                               ELSE library[i]],
                            {}, {}))
         /\ reverified' = IF IsIntact(image) THEN reverified ELSE reverified \cup {id}
  /\ UNCHANGED <<folder, library, manifest, objects, running>>

------------------------------------------------------------------------------
(* The preparations for a deployment: revalidate_for_deployment,           *)
(* prepare_linux_iso, prepare_gho_partition_deployment.                    *)

Clone(c, id, index) ==
  /\ Begins(c) /\ ~Locked /\ id \in Ids(library)
  /\ Goes(c, [step |-> "cloned", image |-> ImageNamed(library, id), index |-> index])
  /\ UNCHANGED <<folder, library, manifest, objects, running, reverified>>

WimIsReady(image, index) ==
  /\ image.verified /\ Len(image.names) = 1 /\ IsIntact(image)
  /\ WimHeaderAccepted(Files(image)[1]) /\ index <= Files(image)[1][1].arg

IsoIsReady(image) ==
  /\ image.verified /\ IsIntact(image) /\ AssetsIntact(image)
  /\ IsoAccepted(Files(image)[1]) /\ BootAssets(Files(image)[1]) = image.assets

\* prepare_gho_readiness
GhoIsReady(image) ==
  /\ IsIntact(image)
  /\ LET names == DOMAIN objects[image.dir]
     IN  /\ GhostSpansAccepted(image.names[1], names)
         /\ <<image.names[1]>> \o GhostSpans(image.names[1], names) = image.names

Prepared(image, index) ==
  [step |-> "prepared", image |-> image, index |-> index, files |-> Files(image)]

CheckFiles(c) ==
  /\ Does(c, "cloned")
  /\ LET image == op[c].image
         index == op[c].index
     IN  Goes(c, CASE image.format = Wim /\ WimIsReady(image, index) -> Prepared(image, index)
                   [] image.format = Iso /\ IsoIsReady(image) -> Prepared(image, index)
                   [] image.format = Gho /\ GhoIsReady(image) -> [op[c] EXCEPT !.step = "ready"]
                   [] OTHER -> NoCall)
  /\ UNCHANGED <<folder, library, manifest, objects, running, budget, reverified>>

\* The record is read again, and the files are decoded again.
SelectPartition(c) ==
  /\ Does(c, "ready") /\ ~Locked
  /\ LET image == op[c].image
         index == op[c].index
         found == IF Managed(image) THEN NtfsPartitions(Files(image)) ELSE {}
     IN  Goes(c, IF /\ image.id \in Ids(library) /\ found # {}
                    /\ found = ImageNamed(library, image.id).partitions
                    /\ \E p \in found : p.source = index
                 THEN Prepared(image, index) ELSE NoCall)
  /\ UNCHANGED <<folder, library, manifest, objects, running, budget, reverified>>

\* installer_media_response: a range of the prepared medium, if the file has the
\* size it had.
ServeMedia(c, range) ==
  /\ Does(c, "prepared") /\ op[c].image.format = Iso
  /\ LET total == Len(op[c].files[1])
         image == op[c].image
         bytes == RangeOf(range, total)
     IN  Goes(c, IF /\ RangeAccepted(range, total) /\ Managed(image)
                    /\ Len(Files(image)[1]) = total
                 THEN [step |-> "served", image |-> image, range |-> bytes,
                       bytes |-> SubSeq(Files(image)[1], bytes[1] + 1, bytes[2] + 1)]
                 ELSE NoCall)
  /\ UNCHANGED <<folder, library, manifest, objects, running, budget, reverified>>

Finish(c) ==
  /\ op[c].step \in {"prepared", "served"} /\ running
  /\ Goes(c, NoCall)
  /\ UNCHANGED <<folder, library, manifest, objects, running, budget, reverified>>

------------------------------------------------------------------------------
(* Faults and restarts. *)

\* A managed file of a listed image loses its end, or is gone (external).
Rot(dir, name) ==
  /\ Fault
  /\ \E i \in DOMAIN manifest.images : manifest.images[i].dir = dir
  /\ dir \in DOMAIN objects /\ name \in DOMAIN objects[dir]
  /\ \/ /\ objects[dir][name] # <<>>
        /\ objects' = [objects EXCEPT ![dir][name] = Front(@)]
     \/ objects' = [objects EXCEPT ![dir] =
                      [n \in DOMAIN objects[dir] \ {name} |-> objects[dir][n]]]
  /\ UNCHANGED <<folder, library, manifest, op, running, reverified>>

\* A write under way is not begun, half done or done.
Crash ==
  /\ running /\ Fault
  /\ manifest' \in {manifest}
       \cup UNION {{[torn |-> TRUE, images |-> <<>>], [torn |-> FALSE, images |-> op[c].next]} :
                     c \in {b \in Caller : op[b].step = "writing"}}
  /\ running' = FALSE /\ library' = <<>>
  /\ op' = [c \in Caller |-> NoCall]
  /\ UNCHANGED <<folder, objects, reverified>>

\* Another version of the program may know another version of the GHO decoder.
StillVerified(image, updated) ==
  image.verified /\ Managed(image) /\ ~(image.format = Gho /\ updated)

Open(updated) ==
  /\ ~running /\ ~manifest.torn
  /\ LET images == [i \in DOMAIN manifest.images |->
                      [manifest.images[i] EXCEPT
                         !.verified = StillVerified(manifest.images[i], updated)]]
     IN  library' = images /\ manifest' = [manifest EXCEPT !.images = images]
  /\ running' = TRUE
  /\ UNCHANGED <<folder, objects, op, budget, reverified>>

\* What has changed is written back first, and that write may fail.
FailOpen(updated) ==
  /\ ~running /\ ~manifest.torn /\ Fault
  /\ \E i \in DOMAIN manifest.images :
       manifest.images[i].verified /\ ~StillVerified(manifest.images[i], updated)
  /\ manifest' \in {manifest, [torn |-> TRUE, images |-> <<>>]}
  /\ UNCHANGED <<folder, library, objects, op, running, reverified>>

------------------------------------------------------------------------------

LibraryInit ==
  /\ library = <<>> /\ manifest = [torn |-> FALSE, images |-> <<>>]
  /\ objects = <<>>
  /\ op = [c \in Caller |-> NoCall]
  /\ running = TRUE
  /\ reverified = {}

CallStep(c) ==
  \/ Commit(c) \/ WriteManifest(c) \/ FailWrite(c) \/ Clean(c)
  \/ CheckFiles(c) \/ SelectPartition(c) \/ Finish(c)
  \/ \E range \in Requested : ServeMedia(c, range)

LibraryNext ==
  \/ \E c \in Caller : CallStep(c) \/ \E name \in DOMAIN folder : Stage(c, name)
  \/ \E c \in Caller, id \in Id :
       RemoveImage(c, id) \/ VerifyGho(c, id) \/ \E index \in Index : Clone(c, id, index)
  \/ \E dir \in DOMAIN objects : \E name \in DOMAIN objects[dir] : Rot(dir, name)
  \/ Crash \/ \E updated \in BOOLEAN : Open(updated) \/ FailOpen(updated)

\* Any finite folder of the operator's.
FolderInit ==
  /\ IsFiniteSet(DOMAIN folder)
  /\ \A name \in DOMAIN folder :
       /\ name.stem \in Seq(STRING) /\ name.ext \in Seq(STRING)
       /\ folder[name] \in Seq(Tokens)

LibrarySpec ==
  /\ LibraryInit /\ FolderInit /\ budget \in [calls : Nat, faults : Nat]
  /\ [][LibraryNext]_libraryVars

------------------------------------------------------------------------------
(* Properties. *)

LibraryTypeOK ==
  /\ \A i \in DOMAIN library : library[i].id \in Id /\ library[i].dir \in Dir
  /\ DOMAIN objects \subseteq Dir
  /\ \A c \in Caller :
       op[c].step \in {"idle", "staged", "writing", "cleaning", "cloned", "ready",
                       "prepared", "served"}
  /\ Cardinality({c \in Caller : op[c].step = "writing"}) <= 1
  /\ manifest.torn \in BOOLEAN /\ running \in BOOLEAN
  /\ running \/ library = <<>>

Lists == {library} \cup {manifest.images}

\* Whatever is imported, removed and verified at the same time, and wherever a
\* write fails or the process dies: an image of the library, or of the manifest a
\* restart reads, has a directory, which is no other image's and which no call
\* removes; and no image is listed twice, whoever imported it.
ListedImagesKeepTheirFiles ==
  \A images \in Lists : \A i, j \in DOMAIN images :
    /\ images[i].dir \in DOMAIN objects
    /\ i # j => /\ images[i].id # images[j].id
                /\ images[i].dir # images[j].dir
                /\ ~SameFiles(images[i], images[j])

\* What is handed to a deployment, and every range of it served to an installer,
\* is what the operator imported: although the record was read before the files,
\* and although images are removed, replaced and damaged meanwhile.  Of a GHO
\* image that is the partition that was asked for, unless it was verified again
\* after its files had been damaged.
PreparedIsWhatWasImported ==
  \A c \in Caller :
    /\ op[c].step = "prepared" =>
         LET original == Content(folder, op[c].image.names)
         IN  IF op[c].image.format = Gho
             THEN \/ op[c].image.id \in reverified
                  \/ \E p \in NtfsPartitions(op[c].files) \cap NtfsPartitions(original) :
                       p.source = op[c].index
             ELSE op[c].files = original
    /\ op[c].step = "served" =>
         LET original == folder[op[c].image.names[1]]
         IN  /\ op[c].range[1] \in 0..op[c].range[2]
             /\ Len(op[c].bytes) = op[c].range[2] - op[c].range[1] + 1
             /\ op[c].bytes = SubSeq(original, op[c].range[1] + 1, op[c].range[2] + 1)

\* An image is only deployable with the files that belong to it, whatever else
\* shares the folder and its name: with every file there that has the name of one
\* of its spans, each number once and in order; when no other image there could
\* claim one of them by a number written alike; when their headers name one image;
\* and when the last of them does not end inside a block, but for the first byte of
\* its length.  A set that is ambiguous, mixed or cut is not.
DeployableImagesAreWhole ==
  \A i \in DOMAIN library :
    library[i].format = Gho /\ library[i].verified /\ IsIntact(library[i]) =>
      LET primary == library[i].names[1]
          spans   == Tail(library[i].names)
          files   == Files(library[i])
          stream  == Stream(files)
      IN  /\ ToSet(spans) = Candidates(primary, DOMAIN folder)
          /\ \A k \in DOMAIN spans :
               /\ Sequence(primary, spans[k]) = k
               /\ \A other \in DOMAIN folder \ {primary} :
                    other.ext = Gho /\ spans[k] \in Candidates(other, DOMAIN folder) =>
                      Scheme(other, spans[k]) # Scheme(primary, spans[k])
          /\ \A k \in DOMAIN files : files[k][1].arg = files[1][1].arg
          /\ \A start \in Starts(stream) : \A r \in RecordsOf(stream, start) :
               Len(stream) \in ReadOf(stream, r) => ~IsFirstHalf(stream, Len(stream))
==============================================================================
