----------------------------- MODULE YfsClients -----------------------------
(***************************************************************************)
(* Programs that use the file server through iolib.c.  A call is a         *)
(* sequence of messages, each of which its client sends and waits for: one *)
(* MSG_SEARCH_FILE per component of a pathname, then one request with the  *)
(* inode numbers found.  The server handles a message as one step of       *)
(* YfsServer, and between two messages of a call it may handle those of    *)
(* other clients, so what a request names may have changed since.          *)
(*                                                                         *)
(* Left out: Stat and Sync, which change nothing here, and calls that are  *)
(* refused before any message is sent.                                     *)
(***************************************************************************)
EXTENDS YfsServer, Path

CONSTANTS Clients    \* the processes linked with the library
        , OpenFiles  \* MAX_OPEN_FILES
        , Calls      \* Calls[c] are the calls that client c makes: <<call, path, new path>>

ASSUME DescriptorsAssumption == OpenFiles \in Nat /\ Nil \notin 0 .. OpenFiles - 1

ASSUME NamesAreStrings ==
  /\ Dot = DotName /\ DotDot = <<Period, Period>>
  /\ Names \cup {Dot, DotDot} \subseteq { ParsePath(s)[1] : s \in Pathnames }

VARIABLES call   \* what each client waits for
        , files  \* open_file_table of each client
        , cwd    \* current_inum of each client

cvars == <<inode, free_inode_list, free_block_list, fresh, status, call, files, cwd>>

Descriptors == 0 .. OpenFiles - 1

FileNames == Names \cup {Dot, DotDot}

\* A position is where a file can end, or where a seek went.
Descriptor == [used : BOOLEAN, inum : Inodes \cup {Nil}, reuse : 0 .. MaxReuse,
               pos : (0 .. MaxFileSize) \cup Positions]

Unused == [used |-> FALSE, inum |-> Nil, reuse |-> 0, pos |-> 0]

\* What a walk looks up: all but the slash in front.
Relative(path) == IF Head(path) = RootName THEN Tail(path) ELSE path

\* The names are those that clients use.
ASSUME CallsAssumption ==
  /\ DOMAIN Calls = Clients
  /\ \A c \in Clients : \A m \in Calls[c] :
       \A path \in {m[2], m[3]} : Relative(ParsePath(path)) \in Seq(FileNames) \ {<<>>}

\* A call: its stage, the components it has yet to look up, the inode found
\* last and the directory it was looked up in, the name, Link's new name until
\* its turn comes and then the old file, the descriptor.
Call == [op : { m[1] : m \in UNION Range(Calls) }, stage : {"walk", "request"}, todo : Seq(FileNames),
         at : Inodes \cup {Nil}, parent : Inodes \cup {Nil}, name : FileNames \cup {<<>>},
         second : { ParsePath(m[3]) : m \in UNION Range(Calls) } \cup {<<>>},
         old : Inodes \cup {Nil}, fd : Descriptors \cup {Nil}]

Idle == [op |-> "none", stage |-> "idle", todo |-> <<>>, at |-> Nil, parent |-> Nil,
         name |-> <<>>, second |-> <<>>, old |-> Nil, fd |-> Nil]

ClientsInit ==
  /\ Init
  /\ call = [c \in Clients |-> Idle]
  /\ files = [c \in Clients |-> [d \in Descriptors |-> Unused]]
  /\ cwd = [c \in Clients |-> Root]

-----------------------------------------------------------------------------
(* The open file table.                                                    *)

Free(c) == { d \in Descriptors : ~files[c][d].used }

CreateFileDescriptor(c, d) == files' = [files EXCEPT ![c][d].used = TRUE]

\* Mutant of CloseFileDescriptor: the entry stays in use.
CloseFileDescriptor_Leaks(c, d) == UNCHANGED files

\* The code leaves the other fields as they are, to be set before they are read.
CloseFileDescriptor(c, d) == files' = [files EXCEPT ![c][d] = Unused]

SetDescriptor(c, d, i, reuse) ==
  files' = [files EXCEPT ![c][d] = [used |-> TRUE, inum |-> i, reuse |-> reuse, pos |-> 0]]

Advances(c, d, count) == files' = [files EXCEPT ![c][d].pos = @ + count]

-----------------------------------------------------------------------------
(* A call begins.  Create and Open take a descriptor first.                *)

\* Bound: calls that create an inode begin while every call under way can
\* still be given one below MaxReuse.
ReuseLeft == \A i \in Inodes : inode[i].reuse + Cardinality(Clients) <= MaxReuse

\* A walk starts at the root or in the current directory.
StartsAt(c, path) == IF Head(path) = RootName THEN Root ELSE cwd[c]

Walking(c, op, path, second, fd) ==
  [Idle EXCEPT !.op = op, !.stage = "walk", !.todo = Relative(path), !.at = StartsAt(c, path),
               !.parent = StartsAt(c, path), !.second = second, !.fd = fd]

BeginWithPath(c, op, path) ==
  /\ op \in {"MkDir", "RmDir", "Unlink", "ChDir"}
  /\ op = "MkDir" => ReuseLeft
  /\ call' = [call EXCEPT ![c] = Walking(c, op, path, <<>>, Nil)]
  /\ UNCHANGED files

BeginOpening(c, op, path) ==
  /\ op \in {"Create", "Open"} /\ Free(c) # {}
  /\ op = "Create" => ReuseLeft
  /\ call' = [call EXCEPT ![c] = Walking(c, op, path, <<>>, Least(Free(c)))]
  /\ CreateFileDescriptor(c, Least(Free(c)))

BeginLink(c, op, path, new) ==
  /\ op = "Link"
  /\ call' = [call EXCEPT ![c] = Walking(c, op, path, new, Nil)]
  /\ UNCHANGED files

BeginOnFile(c, op) ==
  /\ op \in {"Read", "Write", "Seek"}
  /\ \E d \in Descriptors \ Free(c) :
       call' = [call EXCEPT ![c] = [Idle EXCEPT !.op = op, !.stage = "request", !.fd = d]]
  /\ UNCHANGED files

BeginShutdown(c, op) ==
  /\ op = "Shutdown"
  /\ call' = [call EXCEPT ![c] = [Idle EXCEPT !.op = op, !.stage = "request"]]
  /\ UNCHANGED files

\* Calls made after the server has stopped fail at once and are left out.
Begin(c) ==
  /\ status = "up" /\ call[c] = Idle
  /\ \E m \in Calls[c] :
       \/ BeginWithPath(c, m[1], ParsePath(m[2])) \/ BeginOpening(c, m[1], ParsePath(m[2]))
       \/ BeginLink(c, m[1], ParsePath(m[2]), ParsePath(m[3]))
       \/ BeginOnFile(c, m[1]) \/ BeginShutdown(c, m[1])
  /\ UNCHANGED <<vars, cwd>>

\* Close sends no message.
Close(c) ==
  /\ status = "up" /\ call[c] = Idle
  /\ \E d \in Descriptors \ Free(c) : CloseFileDescriptor(c, d)
  /\ UNCHANGED <<vars, call, cwd>>

-----------------------------------------------------------------------------
(* IterateFilePath: one message per component.                             *)

Found(m)   == m.at # Nil
Missing(m) == m.at = Nil /\ m.todo = <<>>

\* Whether a call goes on to its request, by what the walk found.
Proceeds(m) ==
  \/ m.op = "Create" /\ (Missing(m) \/ (Found(m) /\ ~IsDirectory(m.at)))
  \/ m.op = "MkDir"  /\ Missing(m)
  \/ m.op = "RmDir"  /\ Found(m) /\ m.name \notin {Dot, DotDot}
  \/ m.op = "Unlink" /\ Found(m) /\ ~IsDirectory(m.at)
  \/ m.op = "Link"   /\ Missing(m) /\ m.old # Nil

Return(c) == call' = [call EXCEPT ![c] = Idle]

ReturnClosing(c, m) ==
  /\ Return(c)
  /\ IF m.fd = Nil THEN UNCHANGED files ELSE CloseFileDescriptor(c, m.fd)

\* The request is sent: it carries the directory, and the name or the inode.
Request(c, m) ==
  /\ call' = [call EXCEPT ![c] =
       IF m.op \in {"RmDir", "Unlink"}
       THEN [m EXCEPT !.stage = "request", !.todo = <<>>, !.name = <<>>]
       ELSE [m EXCEPT !.stage = "request", !.todo = <<>>, !.at = Nil]]
  /\ UNCHANGED <<files, cwd>>

\* Link walks along the new name whatever it found under the old one.
WalkSecond(c, m) ==
  /\ call' = [call EXCEPT ![c] =
       [Walking(c, "Link", m.second, <<>>, Nil) EXCEPT
          !.old = IF Found(m) /\ inode[m.at].type = REGULAR THEN m.at ELSE Nil]]
  /\ UNCHANGED <<files, cwd>>

OpenFound(c, m) ==
  /\ SetDescriptor(c, m.fd, m.at, inode[m.at].reuse) /\ Return(c) /\ UNCHANGED cwd

ChDirFound(c, m) ==
  /\ cwd' = [cwd EXCEPT ![c] = m.at] /\ Return(c) /\ UNCHANGED files

Arrive(c, m) ==
  \/ m.second # <<>> /\ WalkSecond(c, m)
  \/ m.second = <<>> /\ Proceeds(m) /\ Request(c, m)
  \/ m.op = "Open" /\ Found(m) /\ OpenFound(c, m)
  \/ m.op = "ChDir" /\ Found(m) /\ IsDirectory(m.at) /\ ChDirFound(c, m)
  \/ /\ m.second = <<>> /\ ~Proceeds(m)
     /\ ~(m.op = "Open" /\ Found(m)) /\ ~(m.op = "ChDir" /\ Found(m) /\ IsDirectory(m.at))
     /\ ReturnClosing(c, m) /\ UNCHANGED cwd

\* The server handles MSG_SEARCH_FILE; the walk ends with the last component
\* or with the first one that is not there.
Walk(c) ==
  /\ status = "up" /\ call[c].stage = "walk"
  /\ LET m == call[c]
         n == [m EXCEPT !.todo = Tail(@), !.at = Lookup(m.at, Head(m.todo)),
                        !.parent = m.at, !.name = Head(m.todo)]
     IN IF n.todo # <<>> /\ Found(n)
        THEN call' = [call EXCEPT ![c] = n] /\ UNCHANGED <<files, cwd>>
        ELSE Arrive(c, n)
  /\ UNCHANGED vars

-----------------------------------------------------------------------------
(* The server handles a request and replies.  A handler that stops the     *)
(* server does not reply.                                                  *)

\* The inode that Create gets in the reply, Nil if it was refused.
Created(m) ==
  IF IsDirectory(m.parent) /\ inode[m.parent].size < MaxFileSize
  THEN SearchDirectory(inode'[m.parent], m.name) ELSE Nil

ServeCreate(c, m) ==
  /\ m.op = "Create" /\ CreateFile(m.parent, m.name, REGULAR)
  /\ IF status' # "up" THEN UNCHANGED <<call, files>>
     ELSE IF Created(m) = Nil THEN ReturnClosing(c, m)
     ELSE SetDescriptor(c, m.fd, Created(m), inode'[Created(m)].reuse) /\ Return(c)

\* Whatever the others are told, they keep nothing of it.
ServeNames(c, m) ==
  /\ \/ m.op = "MkDir" /\ CreateFile(m.parent, m.name, DIRECTORY)
     \/ m.op = "RmDir" /\ \E junk \in BOOLEAN : DeleteDir(m.at, m.parent, junk)
     \/ m.op = "Unlink" /\ \E junk \in BOOLEAN : DeleteLink(m.at, m.parent, junk)
     \/ m.op = "Link" /\ CreateLink(m.old, m.parent, m.name)
  /\ IF status' = "up" THEN Return(c) ELSE UNCHANGED call
  /\ UNCHANGED files

\* Mutant of ReadCount: the whole length is always read.
ReadCount_Whole(f, size) ==
  IF inode[f.inum].reuse # f.reuse \/ inode[f.inum].type = FREE THEN 0 ELSE size

\* How far a read or a write gets; 0 if it is refused.
ReadCount(f, size) ==
  IF inode[f.inum].reuse # f.reuse \/ inode[f.inum].type = FREE THEN 0
  ELSE IF f.pos + size <= inode[f.inum].size THEN size
  ELSE IF f.pos < inode[f.inum].size THEN inode[f.inum].size - f.pos ELSE 0

WriteCount(f, size) == IF WriteRefused(f.inum, f.pos, size, f.reuse) THEN 0 ELSE size

ServeFile(c, m) ==
  LET f == files[c][m.fd]
  IN \E size \in Lengths :
       \/ /\ m.op = "Read" /\ ReadFile(f.inum, f.pos, size, f.reuse)
          /\ IF status' = "up" THEN Advances(c, m.fd, ReadCount(f, size)) /\ Return(c)
             ELSE UNCHANGED <<call, files>>
       \/ /\ m.op = "Write" /\ WriteFile(f.inum, f.pos, size, f.reuse)
          /\ IF status' = "up" THEN Advances(c, m.fd, WriteCount(f, size)) /\ Return(c)
             ELSE UNCHANGED <<call, files>>

\* The reuse count in the reply to MSG_GET_FILE.
GetFile(i) == inode[i].reuse

\* Mutant of ServeSeek: no reply for an inode that has been created again.
ServeSeek_NoReply(c, m) ==
  LET f == files[c][m.fd]
  IN /\ m.op = "Seek" /\ UNCHANGED vars /\ Return(c) /\ f.reuse = GetFile(f.inum)
     /\ \E pos \in Positions : files' = [files EXCEPT ![c][m.fd].pos = pos]

\* GetFile tells Seek the reuse count; a position is set by any of the three
\* ways to give it.
ServeSeek(c, m) ==
  LET f == files[c][m.fd]
  IN /\ m.op = "Seek" /\ UNCHANGED vars /\ Return(c)
     /\ IF f.reuse # GetFile(f.inum) THEN UNCHANGED files
        ELSE \E pos \in Positions : files' = [files EXCEPT ![c][m.fd].pos = pos]

\* The server writes its caches, replies and exits.
ServeShutdown(c, m) ==
  /\ m.op = "Shutdown" /\ status' = "down" /\ Return(c)
  /\ UNCHANGED <<inode, free_inode_list, free_block_list, fresh, files>>

Serve(c) ==
  /\ status = "up" /\ call[c].stage = "request"
  /\ \/ ServeCreate(c, call[c]) \/ ServeNames(c, call[c]) \/ ServeFile(c, call[c])
     \/ ServeSeek(c, call[c]) \/ ServeShutdown(c, call[c])
  /\ UNCHANGED cwd

Gone == status \in {"aborted", "down"}

\* Send fails once the server has exited.  The library does not test that and
\* takes for the reply what is in its packet, which was never initialised or
\* holds an earlier reply or the request: the call fails or seems to succeed.
\* Read and Write take the inode number for the count (bound: MaxFileSize).
Broken(c) ==
  /\ Gone /\ call[c] # Idle
  /\ LET m == call[c]
     IN \/ m.op \notin {"Read", "Write", "Seek"} /\ ReturnClosing(c, m) /\ UNCHANGED cwd
        \/ /\ m.op \in {"Read", "Write"} /\ Return(c) /\ UNCHANGED cwd
           /\ \E count \in 0 .. MaxFileSize - files[c][m.fd].pos : Advances(c, m.fd, count)
        \/ /\ m.op = "Seek" /\ Return(c) /\ UNCHANGED cwd
           /\ \E pos \in Positions \cup {files[c][m.fd].pos} : files' = [files EXCEPT ![c][m.fd].pos = pos]
        \/ /\ m.op \in {"Create", "Open"} /\ Return(c) /\ UNCHANGED cwd
           /\ \E i \in Inodes : SetDescriptor(c, m.fd, i, 0)
        \/ /\ m.op = "ChDir" /\ Return(c) /\ UNCHANGED files
           /\ \E i \in Inodes : cwd' = [cwd EXCEPT ![c] = i]
  /\ UNCHANGED vars

ClientsNext == \E c \in Clients : Begin(c) \/ Close(c) \/ Walk(c) \/ Serve(c) \/ Broken(c)

ClientsSpec == ClientsInit /\ [][ClientsNext]_cvars

\* The server is a loop that receives every message some day, and a client
\* whose Send returned goes on.  Nothing makes a program begin a call.
Answering == \A c \in Clients : WF_cvars(Walk(c) \/ Serve(c) \/ Broken(c))

FairSpec == ClientsSpec /\ Answering

-----------------------------------------------------------------------------
(* Properties, with calls of several clients interleaved in every way.     *)

ClientsTypeOK ==
  /\ inode \in [Inodes -> InodeType] /\ status \in {"up", "down"} \cup Stops
  /\ call \in [Clients -> Call \cup {Idle}]
  /\ files \in [Clients -> [Descriptors -> Descriptor]]
  /\ cwd \in [Clients -> Inodes]

\* Whatever a request finds changed since the walk, nlink is never less than
\* the number of entries that name an inode in use: DeleteLink, which frees an
\* inode at 0 (yfs.c:1163), leaves no name for a freed one.
LinksNeverUndercount ==
  \A i \in Used : Cardinality(Links(i)) <= inode[i].nlink

\* No name stands for a free inode, from where a later CreateFile would give
\* it a stranger's file.  (A ".." may, in a directory that was lost.)
NoDanglingName ==
  \A d \in Used : \A k \in Live(d) :
    inode[d].entry[k].name # DotDot => inode[d].entry[k].inum \in Used

\* A descriptor is in use only while the program has it or a call of it is
\* under way: every path of Create and Open that fails gives it back
\* (iolib.c:132-164, 200-213), whatever happens to the file meanwhile.
NoDescriptorLeak ==
  \A c \in Clients, d \in Descriptors :
    files[c][d].used /\ files[c][d].inum = Nil => call[c].fd = d

\* The file a descriptor was opened for is gone.
Stale(c, d) ==
  LET f == files[c][d]
  IN f.inum # Nil /\ (inode[f.inum].type = FREE \/ inode[f.inum].reuse # f.reuse)

\* "Reuse count has changed. Please close this fd." (iolib.c:272): once its file is
\* gone a descriptor reaches no other, whatever any client creates in that
\* inode, until it is closed: the tests of ReadFile and WriteFile (yfs.c:695, 821)
\* refuse it for good.
StaleForGood ==
  [][\A c \in Clients, d \in Descriptors :
       Stale(c, d) => Stale(c, d)' \/ files'[c][d] = Unused]_cvars

\* "Multiple consecutive slashes in a path don't make any difference"
\* (README.md:103): from every current directory, whatever slashes a pathname
\* has in front, in between and at the end, a call walks from the root or from
\* there along the names between them.  (Nothing of that changes later: it is
\* evaluated while no inode has been created twice and no call is under way.)
ParsesAll ==
  (\A i \in Inodes, c \in Clients : inode[i].reuse <= 1 /\ call[c] = Idle /\ Free(c) = Descriptors) =>
    \A c \in Clients, path \in Pathnames :
      LET walk == Walking(c, "Open", ParsePath(path), <<>>, Nil)
      IN /\ walk.at = IF path[1] = Slash THEN Root ELSE cwd[c]
         /\ walk.todo = NamesIn(path)

\* Every call returns, also when the server aborts in the middle of another
\* client's request or is shut down by it.
CallsReturn ==
  \A c \in Clients : call[c] # Idle ~> (call[c] = Idle \/ status \in Stops \ {"aborted"})

\* "this is an error if it is attempted on a directory" (README.md:150): a
\* directory that stays one keeps its "." and "..", whoever calls Create.
DirectoriesNotTruncated ==
  [][\A d \in Used : IsDirectory(d) /\ IsDirectory(d)' => inode'[d].size >= 2]_cvars
=============================================================================
