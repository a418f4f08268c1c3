------------------------------ MODULE BlobStore ------------------------------
(***************************************************************************)
(* The directory of blobs, one file for each digest, that the package      *)
(* registries and the container registry share: uploads of image layers in *)
(* sessions of several requests, packages that are written from memory,    *)
(* and packages that are renamed into place from a temporary file.  A      *)
(* digest stands for its content: it is the sequence of chunks that the    *)
(* content is made of.  An open file is an inode: it survives the rename   *)
(* and the removal of its name.                                            *)
(* Source: src/backend/internal/store/packages.go, store/registry.go,      *)
(* internal/api/registry.go.                                               *)
(***************************************************************************)
EXTENDS Naturals, Sequences

CONSTANTS
    Contents,  \* contents, which are their own digests
    Chunks,    \* the chunks they are made of
    Sessions,  \* uploads of layers, each with a temporary file
    Requests,  \* threads that serve requests to the sessions
    Packages,  \* calls that create a package file
    MaxBlob,   \* registryBlobMax, in chunks
    MaxFaults  \* bound on crashes, full disks and broken connections

VARIABLES
    content, \* what each inode holds: that of a session, or one made by a package
    path,    \* the inode that the blob's name leads to, or NoFile
    session, \* registryUploads: "none", "open", "closed"
    named,   \* the session's temporary file has its name still
    req,     \* each request: [pc, s, digest]; no digest is that of a PATCH
    pkg,     \* each package: [pc, d, fd]
    known,   \* digests with a package row or the grant of an upload
    cut,     \* digests of which a write broke off
    faults

vars == <<content, path, session, named, req, pkg, known, cut, faults>>

NoFile   == "none"
NoDigest == << >>
Quiet    == [pc |-> "idle", s |-> NoFile, digest |-> NoDigest]
NoCall   == [pc |-> "idle", d |-> NoDigest, fd |-> NoFile]

\* What the proofs take of the constants.
BlobAssumption ==
    /\ Contents \subseteq Seq(Chunks) \ {NoDigest}
    /\ Sessions \cap Packages = {} /\ NoFile \notin Sessions \cup Packages
    /\ MaxBlob \in Nat /\ MaxFaults \in Nat

Init ==
    /\ content = [i \in Sessions \cup Packages |-> << >>]
    /\ path = [d \in Contents |-> NoFile]
    /\ session = [s \in Sessions |-> "none"] /\ named = [s \in Sessions |-> FALSE]
    /\ req = [q \in Requests |-> Quiet]
    /\ pkg = [p \in Packages |-> NoCall]
    /\ known = {} /\ cut = {} /\ faults = 0

Goto(q, pc) == req' = [req EXCEPT ![q].pc = pc]
Done(q)     == req' = [req EXCEPT ![q] = Quiet]
Close(s)    == session' = [session EXCEPT ![s] = "closed"]
Unlink(s)   == named' = [named EXCEPT ![s] = FALSE]
Fault       == faults < MaxFaults /\ faults' = faults + 1

----------------------------------------------------------------------------
(* The sessions of the container registry.                                 *)

UploadStart(s) ==
    /\ session[s] = "none"
    /\ session' = [session EXCEPT ![s] = "open"]
    /\ named' = [named EXCEPT ![s] = TRUE]
    /\ UNCHANGED <<content, path, req, pkg, known, cut, faults>>

\* pruneRegistryUploads takes no lock: an hour is over, whatever a request does.
Prune(s) ==
    /\ session[s] = "open"
    /\ Close(s) /\ Unlink(s)
    /\ UNCHANGED <<content, path, req, pkg, known, cut, faults>>

\* A request finds its session, then waits for the session's mutex.
Load(q) ==
    /\ req[q].pc = "idle"
    /\ \E s \in Sessions, d \in Contents \cup {NoDigest} :
         /\ session[s] = "open"
         /\ req' = [req EXCEPT ![q] = [pc |-> "lock", s |-> s, digest |-> d]]
    /\ UNCHANGED <<content, path, session, named, pkg, known, cut, faults>>

\* Mutant: the session has no mutex.
FreeAlways(s) == s \in Sessions

\* sess.mu: held from the lock to the end of the request.
Free(s) == \A q \in Requests : req[q].s = s => req[q].pc \in {"idle", "lock"}

\* Whether the session is still in the table is not looked at again.
Lock(q) ==
    /\ req[q].pc = "lock" /\ Free(req[q].s)
    /\ Goto(q, "open")
    /\ UNCHANGED <<content, path, session, named, pkg, known, cut, faults>>

\* DELETE, once it has the mutex.
Abort(q) ==
    /\ req[q].pc = "open" /\ req[q].digest = NoDigest
    /\ Unlink(req[q].s) /\ Close(req[q].s) /\ Done(q)
    /\ UNCHANGED <<content, path, pkg, known, cut, faults>>

\* The file is opened to append to it and never made.
OpenTmp(q) ==
    /\ req[q].pc = "open"
    /\ IF named[req[q].s] THEN Goto(q, "append") ELSE Done(q)
    /\ UNCHANGED <<content, path, session, named, pkg, known, cut, faults>>

\* The body, a chunk or nothing: PUT has one, too.  Too much of it ends the session.
AppendBody(q) ==
    LET s == req[q].s IN
    /\ req[q].pc = "append"
    /\ \E c \in {<<k>> : k \in Chunks} \cup {<< >>} :
         /\ content' = [content EXCEPT ![s] = @ \o c]
         /\ IF Len(content'[s]) > MaxBlob
            THEN Unlink(s) /\ Close(s) /\ Done(q)
            ELSE /\ UNCHANGED <<named, session>>
                 /\ IF req[q].digest = NoDigest THEN Done(q) ELSE Goto(q, "hash")
    /\ UNCHANGED <<path, pkg, known, cut, faults>>

\* The connection breaks in the middle of the body: nobody goes on with the file.
BodyBreaks(q) ==
    /\ req[q].pc = "append" /\ Fault
    /\ Unlink(req[q].s) /\ Close(req[q].s) /\ Done(q)
    /\ UNCHANGED <<content, path, pkg, known, cut>>

\* SaveRegistryBlobFromFile hashes what the name leads to.
Hash(q) ==
    LET s == req[q].s IN
    /\ req[q].pc = "hash"
    /\ IF named[s] /\ content[s] = req[q].digest
       THEN Goto(q, "stat") /\ UNCHANGED <<session, named>>
       ELSE Unlink(s) /\ Close(s) /\ Done(q)
    /\ UNCHANGED <<content, path, pkg, known, cut, faults>>

\* A file of that name will do; the temporary one must be there to be removed.
StatBlob(q) ==
    LET s == req[q].s IN
    /\ req[q].pc = "stat"
    /\ IF path[req[q].digest] = NoFile THEN Goto(q, "rename") /\ UNCHANGED <<session, named>>
       ELSE IF named[s] THEN Goto(q, "grant") /\ Unlink(s) /\ UNCHANGED session
       ELSE Close(s) /\ Done(q) /\ UNCHANGED named
    /\ UNCHANGED <<content, path, pkg, known, cut, faults>>

\* The rename replaces what another upload put there in between.
Rename(q) ==
    LET s == req[q].s IN
    /\ req[q].pc = "rename"
    /\ IF named[s]
       THEN /\ path' = [path EXCEPT ![req[q].digest] = s]
            /\ Unlink(s) /\ Goto(q, "grant") /\ UNCHANGED session
       ELSE Close(s) /\ Done(q) /\ UNCHANGED <<path, named>>
    /\ UNCHANGED <<content, pkg, known, cut, faults>>

\* The rename fails, as between two file systems: the temporary file stays.
RenameFails(q) ==
    /\ req[q].pc = "rename" /\ Fault
    /\ Close(req[q].s) /\ Done(q)
    /\ UNCHANGED <<content, path, named, pkg, known, cut>>

\* GrantRegistryBlobAccess, after an upload.  The backfill of grants from the stored
\* manifests, once at start-up, is not modelled: it looks at no file.
Grant(q) ==
    /\ req[q].pc = "grant"
    /\ known' = known \cup {req[q].digest}
    /\ Close(req[q].s) /\ Done(q)
    /\ UNCHANGED <<content, path, named, pkg, cut, faults>>

----------------------------------------------------------------------------
(* Packages.                                                               *)

\* storeBlob's os.Stat, of a package in memory.
StoreBlob(p, d) ==
    /\ pkg[p].pc = "idle"
    /\ pkg' = [pkg EXCEPT ![p] = [pc |-> IF path[d] = NoFile THEN "open" ELSE "create",
                                  d |-> d, fd |-> NoFile]]
    /\ UNCHANGED <<content, path, session, named, req, known, cut, faults>>

\* os.WriteFile opens with O_CREATE and O_TRUNC: it may empty a file that another
\* upload has put there since.
WriteOpen(p) ==
    LET d == pkg[p].d
        fd == IF path[d] = NoFile THEN p ELSE path[d]
    IN
    /\ pkg[p].pc = "open"
    /\ path' = [path EXCEPT ![d] = fd]
    /\ content' = [content EXCEPT ![fd] = << >>]
    /\ pkg' = [pkg EXCEPT ![p] = [@ EXCEPT !.pc = "write", !.fd = fd]]
    /\ UNCHANGED <<session, named, req, known, cut, faults>>

\* The write goes to the file that was opened, whatever has its name by now.
Write(p) ==
    /\ pkg[p].pc = "write"
    /\ content' = [content EXCEPT ![pkg[p].fd] = pkg[p].d]
    /\ pkg' = [pkg EXCEPT ![p].pc = "create"]
    /\ UNCHANGED <<path, session, named, req, known, cut, faults>>

\* The disk is full: no row is made, and the file stays as it is.
WriteFails(p) ==
    /\ pkg[p].pc = "write" /\ Fault
    /\ cut' = cut \cup {pkg[p].d}
    /\ pkg' = [pkg EXCEPT ![p].pc = "done"]
    /\ UNCHANGED <<content, path, session, named, req, known>>

\* CreatePackageFromFile: a temporary file of its own is hashed, then os.Stat.
FromFile(p, d) ==
    /\ pkg[p].pc = "idle"
    /\ content' = [content EXCEPT ![p] = d]
    /\ pkg' = [pkg EXCEPT ![p] = [pc |-> IF path[d] = NoFile THEN "move" ELSE "create",
                                  d |-> d, fd |-> p]]
    /\ UNCHANGED <<path, session, named, req, known, cut, faults>>

Move(p) ==
    /\ pkg[p].pc = "move"
    /\ path' = [path EXCEPT ![pkg[p].d] = p]
    /\ pkg' = [pkg EXCEPT ![p].pc = "create"]
    /\ UNCHANGED <<content, session, named, req, known, cut, faults>>

\* The row, which the unique key may refuse: the blob stays all the same.
CreateRow(p) ==
    /\ pkg[p].pc = "create"
    /\ known' \in {known, known \cup {pkg[p].d}}
    /\ pkg' = [pkg EXCEPT ![p].pc = "done"]
    /\ UNCHANGED <<content, path, session, named, req, cut, faults>>

----------------------------------------------------------------------------
\* The process dies: sessions and requests are gone, files and rows stay.
Crash ==
    /\ Fault
    /\ session' = [s \in Sessions |-> IF session[s] = "none" THEN "none" ELSE "closed"]
    /\ req' = [q \in Requests |-> Quiet]
    /\ pkg' = [p \in Packages |-> IF pkg[p].pc = "idle" THEN pkg[p]
                                                        ELSE [pkg[p] EXCEPT !.pc = "done"]]
    /\ cut' = cut \cup {pkg[p].d : p \in {w \in Packages : pkg[w].pc = "write"}}
    /\ UNCHANGED <<content, path, named, known>>

Request(q) ==
    \/ Load(q) \/ Lock(q) \/ Abort(q) \/ OpenTmp(q) \/ AppendBody(q) \/ BodyBreaks(q)
    \/ Hash(q) \/ StatBlob(q) \/ Rename(q) \/ RenameFails(q) \/ Grant(q)

Package(p) ==
    \/ \E d \in Contents : StoreBlob(p, d) \/ FromFile(p, d)
    \/ WriteOpen(p) \/ Write(p) \/ WriteFails(p) \/ Move(p) \/ CreateRow(p)

Next ==
    \/ \E s \in Sessions : UploadStart(s) \/ Prune(s)
    \/ \E q \in Requests : Request(q)
    \/ \E p \in Packages : Package(p)
    \/ Crash

Spec == Init /\ [][Next]_vars

----------------------------------------------------------------------------
(* Properties.                                                             *)

TypeOK ==
    /\ content \in [Sessions \cup Packages -> Seq(Chunks)]
    /\ path \in [Contents -> Sessions \cup Packages \cup {NoFile}]
    /\ session \in [Sessions -> {"none", "open", "closed"}] /\ named \in [Sessions -> BOOLEAN]
    /\ req \in [Requests -> [pc : {"idle", "lock", "open", "append", "hash", "stat", "rename",
                                   "grant"},
                             s : Sessions \cup {NoFile}, digest : Contents \cup {NoDigest}]]
    /\ pkg \in [Packages -> [pc : {"idle", "open", "write", "move", "create", "done"},
                             d : Contents \cup {NoDigest},
                             fd : Sessions \cup Packages \cup {NoFile}]]
    /\ known \subseteq Contents /\ cut \subseteq Contents /\ faults \in 0 .. MaxFaults

\* What a package row or the grant of an upload refers to is there and is exactly the
\* content of its digest, whatever requests share a session, whichever uploads race for
\* the name, and whoever expires or dies; but for a file that storeBlob has just
\* emptied to write it again, and for a content of which storeBlob broke off a
\* write: that file is taken for the content by every later upload (os.Stat,
\* store/packages.go:135, 257 and store/registry.go:110).
BlobWhole ==
    \A d \in known \ cut :
        /\ path[d] # NoFile
        /\ content[path[d]] = d \/ \E p \in Packages : pkg[p].pc = "write" /\ pkg[p].fd = path[d]

=============================================================================
