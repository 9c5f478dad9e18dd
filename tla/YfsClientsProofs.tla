-------------------------- MODULE YfsClientsProofs --------------------------
(***************************************************************************)
(* What holds of the server and its clients however their calls            *)
(* interleave.  The invariant says of a request under way what its client  *)
(* found before it was sent and no other client's request has since undone *)
(* (LinkProofs), that a descriptor without a file belongs to a call, and   *)
(* that no descriptor is ahead of the reuse count of its inode.            *)
(* At the end, what ParsePath makes of every pathname.                     *)
(***************************************************************************)
EXTENDS YfsClients, LinkProofs, YfsBlockProofs

ServerTypes ==
  /\ inode \in [Inodes -> InodeType] /\ free_inode_list \in SUBSET Inodes
  /\ free_block_list \in SUBSET Blocks /\ fresh \in BOOLEAN
  /\ status \in {"up", "down"} \cup Stops

OnPaths == {"Create", "Open", "MkDir", "RmDir", "Unlink", "ChDir", "Link"}
OnFiles == {"Read", "Write", "Seek"}

\* A call m of a client with open file table f, by its stage.
WalkOK(m) == m.op \in OnPaths /\ m.at \in Inodes /\ m.todo # <<>>

RequestOK(m, f) ==
  /\ m.op \in {"Create", "MkDir", "Link"} => m.parent \in Inodes /\ m.name \in FileNames
  /\ m.op = "Link" => m.old \in Inodes
  /\ m.op \in {"RmDir", "Unlink"} =>
       m.at \in Inodes /\ m.parent \in Inodes /\ Pending(m.at, m.parent)
  /\ m.op = "RmDir" => Removable(m.at, m.parent)
  /\ m.op \in OnFiles => f[m.fd].inum # Nil

CallOK(m, f) ==
  /\ m \in Call
  /\ m.fd # Nil <=> m.op \in {"Create", "Open"} \cup OnFiles
  /\ m.second # <<>> => m.op = "Link"
  /\ m.stage = "walk" => WalkOK(m)
  /\ m.stage = "request" => RequestOK(m, f)

ClientOK(m, f) ==
  /\ m = Idle \/ CallOK(m, f)
  /\ f \in [Descriptors -> Descriptor]
  /\ \A d \in Descriptors : f[d].used /\ f[d].inum = Nil => m.fd = d
  /\ \A d \in Descriptors : f[d].inum # Nil => f[d].used
  /\ m.op \in {"Create", "Open"} => f[m.fd].inum = Nil

\* The reuse counts of a table are those its inodes have or had.
Current(f) ==
  \A d \in Descriptors : f[d].inum # Nil => f[d].reuse <= inode[f[d].inum].reuse

ClientsInv ==
  /\ ServerTypes /\ Loose /\ LinkInv
  /\ call \in [Clients -> Call \cup {Idle}]
  /\ files \in [Clients -> [Descriptors -> Descriptor]]
  /\ cwd \in [Clients -> Inodes]
  /\ \A c \in Clients : ClientOK(call[c], files[c]) /\ Current(files[c])

\* A step on a table: a descriptor keeps its file, is given back or, having no
\* file, gets one.
TableStep(f, g) ==
  \A d \in Descriptors :
    \/ g[d].inum = f[d].inum /\ g[d].reuse = f[d].reuse
    \/ g[d] = Unused
    \/ f[d].inum = Nil /\ g[d].inum \in Inodes /\ g[d].reuse <= inode'[g[d].inum].reuse

\* The step of StaleForGood.
StaysStale ==
  \A c \in Clients, d \in Descriptors : Stale(c, d) => Stale(c, d)' \/ files'[c][d] = Unused

\* What is to be shown of every action.
ClientsKept == ClientsInv' /\ StaysStale

-----------------------------------------------------------------------------
(* The parts of a step.                                                    *)

\* What a step does to the server leaves other clients' calls as they were.
LEMMA ClientKept ==
  ASSUME RequestsKept, NEW m, NEW f, ClientOK(m, f)
  PROVE  ClientOK(m, f)'
<1>1. CASE m = Idle
  BY <1>1 DEF ClientOK
<1>2. CASE CallOK(m, f)
  <2>1. m.stage = "request" => RequestOK(m, f)'
    BY <1>2 DEF CallOK, RequestOK, RequestsKept
  <2>2. CallOK(m, f)'
    BY <1>2, <2>1 DEF CallOK, WalkOK
  <2> QED BY <2>2 DEF ClientOK
<1> QED BY <1>1, <1>2 DEF ClientOK

\* Reuse counts only grow, and a file that is gone is gone for good.
LEMMA TableKept ==
  ASSUME ServerTypes, UsesKept, NEW f \in [Descriptors -> Descriptor], NEW g, Current(f),
         TableStep(f, g)
  PROVE  /\ Current(g)'
         /\ \A d \in Descriptors :
              LET e == f[d]
                  h == g[d]
              IN e.inum # Nil /\ (inode[e.inum].type = FREE \/ inode[e.inum].reuse # e.reuse) =>
                   \/ h = Unused
                   \/ h.inum # Nil /\ (inode'[h.inum].type = FREE \/ inode'[h.inum].reuse # h.reuse)
<1> SUFFICES ASSUME NEW d \in Descriptors, NEW e, NEW h, e = f[d], h = g[d]
             PROVE  /\ h.inum # Nil => h.reuse <= inode'[h.inum].reuse
                    /\ e.inum # Nil /\ (inode[e.inum].type = FREE \/ inode[e.inum].reuse # e.reuse) =>
                         \/ h = Unused
                         \/ /\ h.inum # Nil
                            /\ inode'[h.inum].type = FREE \/ inode'[h.inum].reuse # h.reuse
  BY DEF Current
<1>1. \/ h.inum = e.inum /\ h.reuse = e.reuse
      \/ h = Unused
      \/ e.inum = Nil /\ h.inum \in Inodes /\ h.reuse <= inode'[h.inum].reuse
  BY DEF TableStep
<1>2. e.inum \in Inodes \cup {Nil} /\ e.reuse \in Nat
  <2>1. e \in Descriptor
    OBVIOUS
  <2>2. e.reuse \in 0 .. MaxReuse
    BY <2>1 DEF Descriptor
  <2> QED BY <2>1, <2>2, BoundsAssumption DEF Descriptor
<1>3. CASE h = Unused
  BY <1>3 DEF Unused
<1>4. CASE e.inum = Nil
  BY <1>1, <1>3, <1>4
<1>5. CASE h.inum = e.inum /\ h.reuse = e.reuse /\ e.inum # Nil
  <2>1. PICK i : i = e.inum
    OBVIOUS
  <2>2. i \in Inodes /\ e.reuse <= inode[i].reuse
    BY <1>2, <1>5, <2>1 DEF Current
  <2>3. inode[i].reuse \in Nat
    <3>1. inode[i] \in InodeType
      BY <2>2 DEF ServerTypes
    <3> QED BY <3>1 DEF InodeType
  <2>4. \/ inode'[i].reuse = inode[i].reuse /\ inode'[i].type \in {inode[i].type, FREE}
        \/ inode'[i].reuse = inode[i].reuse + 1
    BY <2>2 DEF UsesKept, Incarnated
  <2> QED BY <1>2, <1>5, <2>1, <2>2, <2>3, <2>4
<1> QED BY <1>1, <1>3, <1>4, <1>5

\* A step of client c: its call is m and its table f from then on.
LEMMA ClientStep ==
  ASSUME ClientsInv, NEW c \in Clients, NEW m, NEW f, ClientOK(m, f),
         ServerTypes', Loose', LinkInv', RequestsKept, UsesKept, cwd' \in [Clients -> Inodes],
         call' = [call EXCEPT ![c] = m], files' = [files EXCEPT ![c] = f],
         TableStep(files[c], f)
  PROVE  ClientsKept
<1>1. m \in Call \cup {Idle} /\ f \in [Descriptors -> Descriptor]
  BY DEF ClientOK, CallOK
<1>2. /\ call' \in [Clients -> Call \cup {Idle}]
      /\ files' \in [Clients -> [Descriptors -> Descriptor]]
  BY <1>1 DEF ClientsInv
<1>3. ASSUME NEW k \in Clients PROVE ClientOK(call[k], files[k])'
  <2>1. CASE k = c
    <3>1. call'[k] = m /\ files'[k] = f
      BY <2>1 DEF ClientsInv
    <3>2. ClientOK(m, f)'
      BY ClientKept
    <3> QED BY <3>1, <3>2
  <2>2. CASE k # c
    <3>1. call'[k] = call[k] /\ files'[k] = files[k]
      BY <2>2 DEF ClientsInv
    <3>2. PICK n, g : n = call[k] /\ g = files[k]
      OBVIOUS
    <3>3. ClientOK(n, g)'
      BY <3>2, ClientKept DEF ClientsInv
    <3> QED BY <3>1, <3>2, <3>3
  <2> QED BY <2>1, <2>2
<1>4. ASSUME NEW k \in Clients
      PROVE  /\ Current(files[k])'
             /\ \A d \in Descriptors : Stale(k, d) => Stale(k, d)' \/ files'[k][d] = Unused
  <2>1. PICK g, h : g = files[k] /\ h = files'[k]
    OBVIOUS
  <2>2. g \in [Descriptors -> Descriptor] /\ Current(g) /\ ServerTypes
    BY <2>1 DEF ClientsInv
  <2>3. TableStep(g, h)
    <3>1. CASE k = c
      BY <2>1, <3>1 DEF ClientsInv
    <3>2. CASE k # c
      <4>1. h = g
        BY <2>1, <3>2 DEF ClientsInv
      <4> QED BY <4>1 DEF TableStep
    <3> QED BY <3>1, <3>2
  <2>4. /\ Current(h)'
        /\ \A d \in Descriptors :
             g[d].inum # Nil
               /\ (inode[g[d].inum].type = FREE \/ inode[g[d].inum].reuse # g[d].reuse) =>
             \/ h[d] = Unused
             \/ h[d].inum # Nil
                  /\ (inode'[h[d].inum].type = FREE \/ inode'[h[d].inum].reuse # h[d].reuse)
    BY <2>2, <2>3, TableKept
  <2>5. Current(files[k])'
    BY <2>1, <2>4 DEF Current
  <2> QED BY <2>1, <2>4, <2>5 DEF Stale
<1> QED BY <1>2, <1>3, <1>4 DEF ClientsInv, ClientsKept, StaysStale

\* A step that leaves the inodes and the lists alone.
LEMMA QuietServer ==
  ASSUME ClientsInv, inode' = inode, free_inode_list' = free_inode_list,
         free_block_list' = free_block_list, fresh' = fresh,
         status' \in {"up", "down"} \cup Stops
  PROVE  ServerTypes' /\ Loose' /\ LinkInv' /\ RequestsKept /\ UsesKept
<1>1. ServerTypes' /\ Loose'
  BY DEF ClientsInv, ServerTypes, Loose, IsDirectory
<1>2. \A i : Outside(i)' = Outside(i)
  BY DEF Outside
<1>3. \A d, k, i : Sole(d, k, i)' <=> Sole(d, k, i)
  BY DEF Sole
<1>4. LinkInv'
  <2>1. LinkInv
    BY DEF ClientsInv
  <2>2. Listed'
    BY <1>2, <2>1 DEF LinkInv, Listed
  <2>3. NamesUsed' /\ Selves' /\ IsDirectory(Root)'
    BY <2>1 DEF LinkInv, NamesUsed, Selves, IsDirectory, Used
  <2>4. NamedOnce'
    BY <1>3, <2>1 DEF LinkInv, NamedOnce, IsDirectory
  <2>5. \A i \in Inodes : Enough(i)'
    BY <1>2, <2>1 DEF LinkInv, Enough, Own, IsDirectory, Used
  <2> QED BY <2>2, <2>3, <2>4, <2>5 DEF LinkInv
<1>5. RequestsKept
  BY <1>3 DEF RequestsKept, Pending, Removable, IsDirectory
<1>6. UsesKept
  BY DEF UsesKept
<1> QED BY <1>1, <1>4, <1>5, <1>6

LEMMA QuietStep ==
  ASSUME ClientsInv, NEW c \in Clients, NEW m, NEW f, ClientOK(m, f),
         inode' = inode, free_inode_list' = free_inode_list,
         free_block_list' = free_block_list, fresh' = fresh,
         status' \in {"up", "down"} \cup Stops, cwd' \in [Clients -> Inodes],
         call' = [call EXCEPT ![c] = m], files' = [files EXCEPT ![c] = f],
         TableStep(files[c], f)
  PROVE  ClientsKept
<1>1. ServerTypes' /\ Loose' /\ LinkInv' /\ RequestsKept /\ UsesKept
  BY QuietServer
<1> QED BY <1>1, ClientStep

\* A call that ended leaves no descriptor without a file.
LEMMA IdleOK ==
  ASSUME NEW f \in [Descriptors -> Descriptor],
         \A d \in Descriptors : f[d].used <=> f[d].inum # Nil
  PROVE  ClientOK(Idle, f)
BY DEF ClientOK, Idle

LEMMA UnusedType == Unused \in Descriptor /\ ~Unused.used /\ Unused.inum = Nil
BY Geometry, BoundsAssumption DEF Unused, Descriptor

\* A handler that ran while the server was up.
LEMMA KeepsTypes ==
  ASSUME Keeps
  PROVE  ServerTypes' /\ Loose' /\ LinkInv' /\ RequestsKept /\ UsesKept
BY DEF Keeps, TypeOK, ServerTypes

\* Nothing moves but the client's call.
LEMMA SameTable ==
  ASSUME ClientsInv, NEW c \in Clients
  PROVE  /\ files = [files EXCEPT ![c] = files[c]] /\ call = [call EXCEPT ![c] = call[c]]
         /\ TableStep(files[c], files[c])
BY DEF ClientsInv, TableStep

\* The call ends, and the descriptor it took is given back.
LEMMA ClosedOK ==
  ASSUME ClientsInv, NEW c \in Clients, NEW d \in Descriptors \cup {Nil}, NEW f,
         call[c].fd = d,
         f = IF d = Nil THEN files[c] ELSE [files[c] EXCEPT ![d] = Unused]
  PROVE  ClientOK(Idle, f) /\ TableStep(files[c], f)
<1>1. files[c] \in [Descriptors -> Descriptor] /\ ClientOK(call[c], files[c])
  BY DEF ClientsInv
<1>2. Nil \notin Descriptors
  BY DescriptorsAssumption DEF Descriptors
<1>3. f \in [Descriptors -> Descriptor]
  BY <1>1, UnusedType
<1>4. ASSUME NEW e \in Descriptors
      PROVE  /\ f[e].used <=> f[e].inum # Nil
             /\ f[e] = files[c][e] \/ f[e] = Unused
  BY <1>1, <1>2, UnusedType DEF ClientOK
<1>5. ClientOK(Idle, f)
  BY <1>3, <1>4, IdleOK
<1> QED BY <1>4, <1>5 DEF TableStep

\* The call ends, and the descriptor it took has a file.
LEMMA OpenedOK ==
  ASSUME ClientsInv, NEW c \in Clients, NEW d \in Descriptors, call[c].fd = d,
         call[c].op \in {"Create", "Open"},
         NEW i \in Inodes, NEW reuse \in 0 .. MaxReuse, reuse <= inode'[i].reuse, NEW f,
         f = [files[c] EXCEPT ![d] = [used |-> TRUE, inum |-> i, reuse |-> reuse, pos |-> 0]]
  PROVE  ClientOK(Idle, f) /\ TableStep(files[c], f)
<1>1. files[c] \in [Descriptors -> Descriptor] /\ ClientOK(call[c], files[c])
  BY DEF ClientsInv
<1> DEFINE e == [used |-> TRUE, inum |-> i, reuse |-> reuse, pos |-> 0]
<1>2. e \in Descriptor /\ e.used /\ e.inum = i /\ i # Nil /\ e.reuse = reuse
  BY Geometry, NilAssumption DEF Descriptor
<1> HIDE DEF e
<1>3. f = [files[c] EXCEPT ![d] = e]
  BY DEF e
<1>4. f \in [Descriptors -> Descriptor]
  BY <1>1, <1>2, <1>3
<1>5. ASSUME NEW k \in Descriptors PROVE f[k].used <=> f[k].inum # Nil
  BY <1>1, <1>2, <1>3 DEF ClientOK
<1>6. TableStep(files[c], f)
  <2>1. files[c][d].inum = Nil
    BY <1>1 DEF ClientOK
  <2>2. f[d] = e /\ \A k \in Descriptors \ {d} : f[k] = files[c][k]
    BY <1>1, <1>3
  <2> QED BY <1>2, <2>1, <2>2 DEF TableStep
<1> QED BY <1>4, <1>5, <1>6, IdleOK

\* The call ends, and the descriptor it is about has another position.
LEMMA MovedOK ==
  ASSUME ClientsInv, NEW c \in Clients, NEW d \in Descriptors, call[c].fd = d,
         files[c][d].inum # Nil, NEW pos \in (0 .. MaxFileSize) \cup Positions, NEW f,
         f = [files[c] EXCEPT ![d] = [files[c][d] EXCEPT !.pos = pos]]
  PROVE  ClientOK(Idle, f) /\ TableStep(files[c], f)
<1>1. files[c] \in [Descriptors -> Descriptor] /\ ClientOK(call[c], files[c])
  BY DEF ClientsInv
<1> DEFINE e == [files[c][d] EXCEPT !.pos = pos]
<1>2. /\ e \in Descriptor /\ e.used = files[c][d].used /\ e.inum = files[c][d].inum
      /\ e.reuse = files[c][d].reuse
  <2>1. files[c][d] \in Descriptor
    BY <1>1
  <2> QED BY <2>1 DEF Descriptor
<1> HIDE DEF e
<1>3. f = [files[c] EXCEPT ![d] = e]
  BY DEF e
<1>4. f \in [Descriptors -> Descriptor]
  BY <1>1, <1>2, <1>3
<1>5. f[d] = e /\ \A k \in Descriptors \ {d} : f[k] = files[c][k]
  BY <1>1, <1>3
<1>6. ASSUME NEW k \in Descriptors PROVE f[k].used <=> f[k].inum # Nil
  BY <1>1, <1>2, <1>5 DEF ClientOK
<1>7. TableStep(files[c], f)
  BY <1>2, <1>5 DEF TableStep
<1> QED BY <1>4, <1>6, <1>7, IdleOK

-----------------------------------------------------------------------------
(* A call begins, or a descriptor is closed.                               *)

\* The operations and the new names of the calls.
Operations == { m[1] : m \in UNION Range(Calls) }
NewPaths   == { ParsePath(m[3]) : m \in UNION Range(Calls) }

LEMMA CalledFacts ==
  ASSUME NEW c \in Clients, NEW m \in Calls[c]
  PROVE  /\ m[1] \in Operations /\ ParsePath(m[3]) \in NewPaths
         /\ Relative(ParsePath(m[2])) \in Seq(FileNames) \ {<<>>}
<1>1. m \in UNION Range(Calls)
  BY CallsAssumption DEF Range
<1> QED BY <1>1, CallsAssumption DEF Operations, NewPaths

LEMMA NewPathFacts ==
  ASSUME NEW path \in NewPaths
  PROVE  Relative(path) \in Seq(FileNames) \ {<<>>}
<1>1. PICK m \in UNION Range(Calls) : path = ParsePath(m[3])
  BY DEF NewPaths
<1>2. PICK c \in Clients : m \in Calls[c]
  BY CallsAssumption DEF Range
<1> QED BY <1>1, <1>2, CallsAssumption

\* The fields of a call.
LEMMA CallFields ==
  ASSUME NEW m \in Call
  PROVE  /\ m.op \in Operations /\ m.stage \in {"walk", "request"}
         /\ m.todo \in Seq(FileNames) /\ m.at \in Inodes \cup {Nil}
         /\ m.parent \in Inodes \cup {Nil} /\ m.name \in FileNames \cup {<<>>}
         /\ m.second \in NewPaths \cup {<<>>} /\ m.old \in Inodes \cup {Nil}
         /\ m.fd \in Descriptors \cup {Nil}
BY DEF Call, Operations, NewPaths

LEMMA CallIs ==
  ASSUME NEW op \in Operations, NEW stage \in {"walk", "request"}, NEW todo \in Seq(FileNames),
         NEW at \in Inodes \cup {Nil}, NEW parent \in Inodes \cup {Nil},
         NEW name \in FileNames \cup {<<>>}, NEW second \in NewPaths \cup {<<>>},
         NEW old \in Inodes \cup {Nil}, NEW fd \in Descriptors \cup {Nil}, NEW m,
         m = [op |-> op, stage |-> stage, todo |-> todo, at |-> at, parent |-> parent,
              name |-> name, second |-> second, old |-> old, fd |-> fd]
  PROVE  m \in Call
BY DEF Call, Operations, NewPaths

LEMMA WalkingIs ==
  ASSUME NEW c \in Clients, cwd[c] \in Inodes, NEW op \in Operations, NEW path,
         Relative(path) \in Seq(FileNames) \ {<<>>}, NEW second \in NewPaths \cup {<<>>},
         NEW fd \in Descriptors \cup {Nil}, NEW w, w = Walking(c, op, path, second, fd)
  PROVE  /\ w \in Call /\ w.op = op /\ w.stage = "walk" /\ w.at \in Inodes
         /\ w.todo # <<>> /\ w.second = second /\ w.old = Nil /\ w.fd = fd
<1> DEFINE todo == Relative(path)
           at == StartsAt(c, path)
           name == <<>>
<1>1. w = [op |-> op, stage |-> "walk", todo |-> todo, at |-> at, parent |-> at,
           name |-> name, second |-> second, old |-> Nil, fd |-> fd]
  BY DEF Walking, Idle
<1>2. /\ todo \in Seq(FileNames) /\ todo # <<>> /\ at \in Inodes
      /\ name \in FileNames \cup {<<>>}
  BY RootAssumption DEF StartsAt
<1> HIDE DEF todo, at, name
<1>3. w \in Call
  BY <1>1, <1>2, CallIs
<1> QED BY <1>1, <1>2, <1>3

\* A call on an open file or Shutdown has no walk.
Requesting(op, fd) == [Idle EXCEPT !.op = op, !.stage = "request", !.fd = fd]

LEMMA RequestIs ==
  ASSUME NEW op \in Operations, NEW fd \in Descriptors \cup {Nil}, NEW w,
         w = Requesting(op, fd)
  PROVE  /\ w \in Call /\ w.op = op /\ w.stage = "request" /\ w.second = <<>> /\ w.fd = fd
<1>1. PICK todo, name, second : todo = <<>> /\ name = <<>> /\ second = <<>>
  OBVIOUS
<1>2. PICK stage, at, parent, old : stage = "request" /\ at = Nil /\ parent = Nil /\ old = Nil
  OBVIOUS
<1>3. w = [op |-> op, stage |-> stage, todo |-> todo, at |-> at, parent |-> parent,
           name |-> name, second |-> second, old |-> old, fd |-> fd]
  BY <1>1, <1>2 DEF Requesting, Idle
<1>4. todo \in Seq(FileNames)
  BY <1>1, EmptySeq
<1>5. name \in FileNames \cup {<<>>} /\ second \in NewPaths \cup {<<>>}
  BY <1>1
<1>6. /\ stage \in {"walk", "request"} /\ at \in Inodes \cup {Nil}
      /\ parent \in Inodes \cup {Nil} /\ old \in Inodes \cup {Nil}
  BY <1>2
<1>7. w \in Call
  BY <1>3, <1>4, <1>5, <1>6 DEF Call, Operations, NewPaths
<1>8. w.op = op /\ w.stage = stage /\ w.second = second /\ w.fd = fd
  BY <1>3
<1> QED BY <1>1, <1>2, <1>7, <1>8

\* A walk that begins with descriptor fd.
LEMMA WalkingOK ==
  ASSUME NEW w \in Call, w.stage = "walk", w.op \in OnPaths, w.at \in Inodes, w.todo # <<>>,
         w.fd # Nil <=> w.op \in {"Create", "Open"}, w.second # <<>> => w.op = "Link",
         NEW f \in [Descriptors -> Descriptor],
         \A d \in Descriptors : f[d].used /\ f[d].inum = Nil => w.fd = d,
         \A d \in Descriptors : f[d].inum # Nil => f[d].used,
         w.op \in {"Create", "Open"} => f[w.fd].inum = Nil
  PROVE  ClientOK(w, f)
BY DEF ClientOK, CallOK, WalkOK, OnPaths, OnFiles

LEMMA InitClients ==
  ASSUME ClientsInit
  PROVE  ClientsInv
<1>1. TypeOK /\ Loose /\ LinkInv
  BY InitLinks DEF ClientsInit
<1>2. ServerTypes
  BY <1>1 DEF TypeOK, ServerTypes
<1> DEFINE f == [d \in Descriptors |-> Unused]
<1>3. /\ f \in [Descriptors -> Descriptor]
      /\ \A d \in Descriptors : ~f[d].used /\ f[d].inum = Nil
  BY UnusedType
<1> HIDE DEF f
<1>4. ClientOK(Idle, f)
  BY <1>3, IdleOK
<1>5. /\ call = [c \in Clients |-> Idle] /\ files = [c \in Clients |-> f]
      /\ cwd = [c \in Clients |-> Root]
  BY DEF ClientsInit, f
<1>6. \A c \in Clients : ClientOK(call[c], files[c]) /\ Current(files[c])
  BY <1>3, <1>4, <1>5 DEF Current
<1> QED BY <1>1, <1>2, <1>3, <1>5, <1>6, RootAssumption DEF ClientsInv

LEMMA BeginKeeps ==
  ASSUME ClientsInv, NEW c \in Clients, Begin(c)
  PROVE  ClientsKept
<1>1. /\ inode' = inode /\ free_inode_list' = free_inode_list /\ free_block_list' = free_block_list
      /\ fresh' = fresh /\ status' \in {"up", "down"} \cup Stops /\ cwd' \in [Clients -> Inodes]
      /\ call[c] = Idle /\ cwd[c] \in Inodes
  BY DEF Begin, vars, ClientsInv, ServerTypes
<1>2. PICK m \in Calls[c] :
        \/ BeginWithPath(c, m[1], ParsePath(m[2])) \/ BeginOpening(c, m[1], ParsePath(m[2]))
        \/ BeginLink(c, m[1], ParsePath(m[2]), ParsePath(m[3]))
        \/ BeginOnFile(c, m[1]) \/ BeginShutdown(c, m[1])
  BY DEF Begin
<1>3. PICK op, path, new : op = m[1] /\ path = ParsePath(m[2]) /\ new = ParsePath(m[3])
  OBVIOUS
<1>4. op \in Operations /\ new \in NewPaths /\ Relative(path) \in Seq(FileNames) \ {<<>>}
  BY <1>3, CalledFacts
<1>5. /\ files[c] \in [Descriptors -> Descriptor] /\ files = [files EXCEPT ![c] = files[c]]
      /\ \A d \in Descriptors : files[c][d].used <=> files[c][d].inum # Nil
      /\ Nil \notin Descriptors /\ TableStep(files[c], files[c])
  <2>1. /\ files[c] \in [Descriptors -> Descriptor] /\ ClientOK(call[c], files[c])
        /\ files = [files EXCEPT ![c] = files[c]] /\ TableStep(files[c], files[c])
    BY SameTable DEF ClientsInv
  <2>2. Nil \notin Descriptors
    BY DescriptorsAssumption DEF Descriptors
  <2>3. Idle.fd = Nil
    BY DEF Idle
  <2> QED BY <1>1, <2>1, <2>2, <2>3 DEF ClientOK
<1>6. CASE BeginWithPath(c, op, path)
  <2>1. PICK w, none, nil :
          none = <<>> /\ nil = Nil /\ w = Walking(c, op, path, none, nil)
    OBVIOUS
  <2>2. /\ op \in {"MkDir", "RmDir", "Unlink", "ChDir"}
        /\ call' = [call EXCEPT ![c] = w] /\ files' = files
    BY <1>6, <2>1 DEF BeginWithPath
  <2>3. /\ w \in Call /\ w.op = op /\ w.stage = "walk" /\ w.at \in Inodes
        /\ w.todo # <<>> /\ w.second = <<>> /\ w.fd = Nil
    <3>1. none \in NewPaths \cup {<<>>} /\ nil \in Descriptors \cup {Nil}
      BY <2>1
    <3>2. w = Walking(c, op, path, none, nil)
      BY <2>1
    <3>3. /\ w \in Call /\ w.op = op /\ w.stage = "walk" /\ w.at \in Inodes
          /\ w.todo # <<>> /\ w.second = none /\ w.fd = nil
      BY <1>1, <1>4, <3>1, <3>2, WalkingIs
    <3> QED BY <2>1, <3>3
  <2>4. ClientOK(w, files[c])
    BY <1>5, <2>2, <2>3, WalkingOK DEF OnPaths
  <2> QED BY <1>1, <1>5, <2>2, <2>4, QuietStep
<1>7. CASE BeginOpening(c, op, path)
  <2> DEFINE d == Least(Free(c))
  <2>1. PICK w, none : none = <<>> /\ w = Walking(c, op, path, none, d)
    OBVIOUS
  <2>2. /\ op \in {"Create", "Open"} /\ Free(c) # {}
        /\ call' = [call EXCEPT ![c] = w]
        /\ files' = [files EXCEPT ![c][d].used = TRUE]
    BY <1>7, <2>1 DEF BeginOpening, CreateFileDescriptor
  <2>3. d \in Free(c) /\ d \in Descriptors
    <3>1. Free(c) \in SUBSET Nat
      BY DescriptorsAssumption DEF Free, Descriptors
    <3> QED BY <2>2, <3>1, LeastElement DEF Free
  <2> HIDE DEF d
  <2>4. /\ w \in Call /\ w.op = op /\ w.stage = "walk" /\ w.at \in Inodes
        /\ w.todo # <<>> /\ w.second = <<>> /\ w.fd = d
    <3>1. none \in NewPaths \cup {<<>>} /\ d \in Descriptors \cup {Nil}
      BY <2>1, <2>3
    <3>2. w = Walking(c, op, path, none, d)
      BY <2>1
    <3>3. /\ w \in Call /\ w.op = op /\ w.stage = "walk" /\ w.at \in Inodes
          /\ w.todo # <<>> /\ w.second = none /\ w.fd = d
      BY <1>1, <1>4, <3>1, <3>2, WalkingIs
    <3> QED BY <2>1, <3>3
  <2>5. PICK e : e = [files[c][d] EXCEPT !.used = TRUE]
    OBVIOUS
  <2>6. PICK f : f = [files[c] EXCEPT ![d] = e]
    OBVIOUS
  <2>7. e \in Descriptor /\ e.inum = files[c][d].inum /\ e.reuse = files[c][d].reuse
    <3>1. files[c][d] \in Descriptor
      BY <1>5, <2>3
    <3> QED BY <2>5, <3>1 DEF Descriptor
  <2>8. /\ f \in [Descriptors -> Descriptor] /\ f[d] = e
        /\ \A k \in Descriptors \ {d} : f[k] = files[c][k]
    BY <1>5, <2>3, <2>6, <2>7
  <2>9. files' = [files EXCEPT ![c] = f]
    BY <2>2, <2>5, <2>6
  <2>10. ClientOK(w, f)
    <3>1. \A k \in Descriptors : f[k].used /\ f[k].inum = Nil => w.fd = k
      BY <1>5, <2>4, <2>8
    <3>2. w.fd # Nil
      BY <1>5, <2>3, <2>4
    <3>3. f[d].inum = Nil /\ \A k \in Descriptors : f[k].inum # Nil => f[k].used
      BY <1>5, <2>3, <2>7, <2>8 DEF Free
    <3> QED BY <2>2, <2>4, <2>8, <3>1, <3>2, <3>3, WalkingOK DEF OnPaths
  <2>11. TableStep(files[c], f)
    BY <2>7, <2>8 DEF TableStep
  <2> QED BY <1>1, <2>2, <2>9, <2>10, <2>11, QuietStep
<1>8. CASE BeginLink(c, op, path, new)
  <2>1. PICK w, nil : nil = Nil /\ w = Walking(c, op, path, new, nil)
    OBVIOUS
  <2>2. op = "Link" /\ call' = [call EXCEPT ![c] = w] /\ files' = files
    BY <1>8, <2>1 DEF BeginLink
  <2>3. /\ w \in Call /\ w.op = op /\ w.stage = "walk" /\ w.at \in Inodes
        /\ w.todo # <<>> /\ w.fd = Nil
    <3>1. new \in NewPaths \cup {<<>>} /\ nil \in Descriptors \cup {Nil}
      BY <1>4, <2>1
    <3> QED BY <1>1, <1>4, <2>1, <3>1, WalkingIs
  <2>4. ClientOK(w, files[c])
    BY <1>5, <2>2, <2>3, WalkingOK DEF OnPaths
  <2> QED BY <1>1, <1>5, <2>2, <2>4, QuietStep
<1>9. CASE BeginOnFile(c, op)
  <2>1. PICK d \in Descriptors \ Free(c) :
          call' = [call EXCEPT ![c] = [Idle EXCEPT !.op = op, !.stage = "request", !.fd = d]]
    BY <1>9 DEF BeginOnFile
  <2>2. PICK w : w = Requesting(op, d)
    OBVIOUS
  <2>3. op \in OnFiles /\ files' = files /\ call' = [call EXCEPT ![c] = w]
    BY <1>9, <2>1, <2>2 DEF BeginOnFile, OnFiles, Requesting
  <2>4. /\ w \in Call /\ w.op = op /\ w.stage = "request" /\ w.second = <<>> /\ w.fd = d
    <3>1. d \in Descriptors \cup {Nil}
      OBVIOUS
    <3> QED BY <1>4, <2>2, <3>1, RequestIs
  <2>5. files[c][d].inum # Nil /\ d # Nil
    BY <1>5, <2>1 DEF Free
  <2>6. RequestOK(w, files[c])
    BY <2>3, <2>4, <2>5 DEF RequestOK, OnFiles
  <2>7. ClientOK(w, files[c])
    BY <1>5, <2>3, <2>4, <2>5, <2>6 DEF ClientOK, CallOK, OnFiles
  <2> QED BY <1>1, <1>5, <2>3, <2>7, QuietStep
<1>10. CASE BeginShutdown(c, op)
  <2>1. PICK w, nil : nil = Nil /\ w = Requesting(op, nil)
    OBVIOUS
  <2>2. op = "Shutdown" /\ files' = files /\ call' = [call EXCEPT ![c] = w]
    <3>1. PICK u : u = [Idle EXCEPT !.op = op, !.stage = "request"]
      OBVIOUS
    <3>2. PICK none : none = <<>>
      OBVIOUS
    <3> DEFINE v == [op |-> op, stage |-> "request", todo |-> none, at |-> nil, parent |-> nil,
                     name |-> none, second |-> none, old |-> nil, fd |-> nil]
    <3>3. u = v
      BY <2>1, <3>1, <3>2 DEF Idle
    <3>4. w = v
      BY <2>1, <3>2 DEF Requesting, Idle
    <3> HIDE DEF v
    <3> QED BY <1>10, <3>1, <3>3, <3>4 DEF BeginShutdown
  <2>3. /\ w \in Call /\ w.op = op /\ w.stage = "request" /\ w.second = <<>> /\ w.fd = Nil
    <3>1. nil \in Descriptors \cup {Nil}
      BY <2>1
    <3> QED BY <1>4, <2>1, <3>1, RequestIs
  <2>4. RequestOK(w, files[c])
    BY <2>2, <2>3 DEF RequestOK, OnFiles
  <2>5. ClientOK(w, files[c])
    BY <1>5, <2>2, <2>3, <2>4 DEF ClientOK, CallOK, OnFiles
  <2> QED BY <1>1, <1>5, <2>2, <2>5, QuietStep
<1> QED BY <1>2, <1>3, <1>6, <1>7, <1>8, <1>9, <1>10

LEMMA CloseKeeps ==
  ASSUME ClientsInv, NEW c \in Clients, Close(c)
  PROVE  ClientsKept
<1>1. PICK d \in Descriptors : files' = [files EXCEPT ![c][d] = Unused]
  BY DEF Close, CloseFileDescriptor
<1>2. PICK f : f = [files[c] EXCEPT ![d] = Unused]
  OBVIOUS
<1>3. files' = [files EXCEPT ![c] = f]
  BY <1>1, <1>2
<1>4. /\ call[c] = Idle /\ call' = [call EXCEPT ![c] = Idle]
      /\ files[c] \in [Descriptors -> Descriptor] /\ ClientOK(Idle, files[c])
  BY SameTable DEF Close, ClientsInv
<1>5. f \in [Descriptors -> Descriptor]
  BY <1>2, <1>4, UnusedType
<1>6. ASSUME NEW e \in Descriptors
      PROVE  /\ f[e].used <=> f[e].inum # Nil
             /\ f[e] = files[c][e] \/ f[e] = Unused
  <2>1. Idle.fd = Nil /\ Nil \notin Descriptors
    BY DescriptorsAssumption DEF Idle, Descriptors
  <2> QED BY <1>2, <1>4, <2>1, UnusedType DEF ClientOK
<1>7. ClientOK(Idle, f)
  BY <1>5, <1>6, IdleOK
<1>8. /\ inode' = inode /\ free_inode_list' = free_inode_list /\ free_block_list' = free_block_list
      /\ fresh' = fresh /\ status' \in {"up", "down"} \cup Stops /\ cwd' \in [Clients -> Inodes]
  BY DEF Close, vars, ClientsInv, ServerTypes
<1>9. TableStep(files[c], f)
  BY <1>6 DEF TableStep
<1> QED BY <1>3, <1>4, <1>7, <1>8, <1>9, QuietStep

-----------------------------------------------------------------------------
(* A walk goes on, or the call with it.                                    *)

LEMMA LookupFacts ==
  ASSUME ServerTypes, Loose, status = "up", NEW p \in Inodes, NEW n, NEW t, t = Lookup(p, n)
  PROVE  /\ t \in Inodes \cup {Nil}
         /\ t # Nil => /\ t \in Inodes /\ IsDirectory(p)
                       /\ \E k \in LiveIn(inode[p]) : /\ inode[p].entry[k].inum = t
                                                      /\ inode[p].entry[k].name = n
<1>1. TypeOK
  BY DEF ServerTypes, TypeOK
<1>2. CASE IsDirectory(p)
  <2>1. t = SearchDirectory(inode[p], n)
    BY <1>2 DEF Lookup
  <2> QED BY <1>1, <1>2, <2>1, SearchedInode
<1>3. CASE ~IsDirectory(p)
  BY <1>3 DEF Lookup
<1> QED BY <1>2, <1>3

\* A call after one component.
Looked(m, at) ==
  [m EXCEPT !.todo = Tail(@), !.at = at, !.parent = m.at, !.name = Head(m.todo)]

LEMMA NextCall ==
  ASSUME NEW m \in Call, m.todo # <<>>, NEW at \in Inodes \cup {Nil}, NEW n,
         n = Looked(m, at)
  PROVE  /\ n \in Call /\ n.name = Head(m.todo) /\ n.name \in FileNames
         /\ n.op = m.op /\ n.stage = m.stage /\ n.at = at /\ n.parent = m.at
         /\ n.second = m.second /\ n.old = m.old /\ n.fd = m.fd
<1>1. /\ m.op \in Operations /\ m.stage \in {"walk", "request"}
      /\ m.todo \in Seq(FileNames) /\ m.at \in Inodes \cup {Nil}
      /\ m.second \in NewPaths \cup {<<>>} /\ m.old \in Inodes \cup {Nil}
      /\ m.fd \in Descriptors \cup {Nil}
  BY CallFields
<1>2. PICK todo, name : todo = Tail(m.todo) /\ name = Head(m.todo)
  OBVIOUS
<1>3. todo \in Seq(FileNames) /\ name \in FileNames
  BY <1>1, <1>2
<1>4. n = [m EXCEPT !.todo = todo, !.at = at, !.parent = m.at, !.name = name]
  BY <1>2 DEF Looked
<1>5. n = [op |-> m.op, stage |-> m.stage, todo |-> todo, at |-> at, parent |-> m.at,
           name |-> name, second |-> m.second, old |-> m.old, fd |-> m.fd]
  BY <1>4 DEF Call
<1>6. n \in Call
  BY <1>1, <1>3, <1>5 DEF Call, Operations, NewPaths
<1>7. /\ n.op = m.op /\ n.stage = m.stage /\ n.at = at /\ n.parent = m.at /\ n.name = name
      /\ n.second = m.second /\ n.old = m.old /\ n.fd = m.fd
  BY <1>5
<1> QED BY <1>2, <1>3, <1>6, <1>7

\* A request to remove what was just found is one that can be kept.
LEMMA FoundPending ==
  ASSUME ClientsInv, status = "up", NEW p \in Inodes, NEW n, NEW t, t = Lookup(p, n), t # Nil
  PROVE  /\ t \in Inodes
         /\ n \notin {Dot, DotDot} => Pending(t, p) /\ Removable(t, p)
         /\ ~IsDirectory(t) => Pending(t, p)
<1>1. ServerTypes /\ Loose /\ Listed /\ Selves /\ NamedOnce
  BY DEF ClientsInv, LinkInv
<1>2. PICK k \in LiveIn(inode[p]) : inode[p].entry[k].inum = t /\ inode[p].entry[k].name = n
  BY <1>1, LookupFacts
<1>3. t \in Inodes /\ inode[p].type = DIRECTORY
  BY <1>1, LookupFacts DEF IsDirectory
<1>4. p \notin free_inode_list /\ inode[p].type # REGULAR
  BY <1>1, <1>3 DEF Listed, FREE, DIRECTORY, REGULAR
<1>5. ~IsDirectory(t) => Pending(t, p)
  BY <1>3, <1>4 DEF Pending, IsDirectory
<1>6. ASSUME n \notin {Dot, DotDot} PROVE Pending(t, p) /\ Removable(t, p)
  <2>1. t # p
    BY <1>1, <1>2, <1>6 DEF Selves
  <2>2. ASSUME NEW j \in LiveIn(inode[p]), inode[p].entry[j].inum = t, IsDirectory(t)
        PROVE  Sole(p, j, t)
    <3>1. Sole(p, k, t)
      BY <1>1, <1>2, <1>3, <1>6, <2>1, <2>2 DEF NamedOnce
    <3>2. j = k
      BY <2>1, <2>2, <3>1 DEF Sole
    <3> QED BY <3>1, <3>2
  <2> QED BY <1>4, <2>1, <2>2 DEF Pending, Removable
<1> QED BY <1>3, <1>5, <1>6

\* The request of a call m whose walk is done.
Requested(m) ==
  IF m.op \in {"RmDir", "Unlink"}
  THEN [m EXCEPT !.stage = "request", !.todo = <<>>, !.name = <<>>]
  ELSE [m EXCEPT !.stage = "request", !.todo = <<>>, !.at = Nil]

LEMMA RequestedIs ==
  ASSUME NEW m \in Call, NEW w, w = Requested(m)
  PROVE  /\ w \in Call /\ w.op = m.op /\ w.stage = "request" /\ w.parent = m.parent
         /\ w.second = m.second /\ w.old = m.old /\ w.fd = m.fd
         /\ IF m.op \in {"RmDir", "Unlink"} THEN w.at = m.at ELSE w.name = m.name
<1>1. /\ m.op \in Operations /\ m.at \in Inodes \cup {Nil} /\ m.parent \in Inodes \cup {Nil}
      /\ m.name \in FileNames \cup {<<>>} /\ m.second \in NewPaths \cup {<<>>}
      /\ m.old \in Inodes \cup {Nil} /\ m.fd \in Descriptors \cup {Nil}
  BY CallFields
<1>2. PICK none, stage, nil : none = <<>> /\ stage = "request" /\ nil = Nil
  OBVIOUS
<1>3. /\ none \in Seq(FileNames) /\ none \in FileNames \cup {<<>>}
      /\ stage \in {"walk", "request"} /\ nil \in Inodes \cup {Nil}
  BY <1>2, EmptySeq
<1>4. CASE m.op \in {"RmDir", "Unlink"}
  <2>1. w = [m EXCEPT !.stage = stage, !.todo = none, !.name = none]
    BY <1>2, <1>4 DEF Requested
  <2>2. w = [op |-> m.op, stage |-> stage, todo |-> none, at |-> m.at, parent |-> m.parent,
             name |-> none, second |-> m.second, old |-> m.old, fd |-> m.fd]
    BY <2>1 DEF Call
  <2>3. w \in Call
    BY <1>1, <1>3, <2>2 DEF Call, Operations, NewPaths
  <2> QED BY <1>2, <1>4, <2>2, <2>3
<1>5. CASE m.op \notin {"RmDir", "Unlink"}
  <2>1. w = [m EXCEPT !.stage = stage, !.todo = none, !.at = nil]
    BY <1>2, <1>5 DEF Requested
  <2>2. w = [op |-> m.op, stage |-> stage, todo |-> none, at |-> nil, parent |-> m.parent,
             name |-> m.name, second |-> m.second, old |-> m.old, fd |-> m.fd]
    BY <2>1 DEF Call
  <2>3. w \in Call
    BY <1>1, <1>3, <2>2 DEF Call, Operations, NewPaths
  <2> QED BY <1>2, <1>5, <2>2, <2>3
<1> QED BY <1>4, <1>5

\* Link goes on to its second walk.
Second(c, path, old) == [Walking(c, "Link", path, <<>>, Nil) EXCEPT !.old = old]

LEMMA SecondIs ==
  ASSUME NEW c \in Clients, cwd[c] \in Inodes, NEW path \in NewPaths, "Link" \in Operations,
         NEW old \in Inodes \cup {Nil}, NEW w,
         w = Second(c, path, old)
  PROVE  /\ w \in Call /\ w.op = "Link" /\ w.stage = "walk" /\ w.at \in Inodes
         /\ w.todo # <<>> /\ w.second = <<>> /\ w.fd = Nil
<1>1. PICK op, none, nil, v :
        op = "Link" /\ none = <<>> /\ nil = Nil /\ v = Walking(c, op, path, none, nil)
  OBVIOUS
<1>2. /\ v \in Call /\ v.op = op /\ v.stage = "walk" /\ v.at \in Inodes /\ v.todo # <<>>
      /\ v.second = none /\ v.fd = nil
  <2>1. op \in Operations /\ none \in NewPaths \cup {<<>>} /\ nil \in Descriptors \cup {Nil}
    BY <1>1
  <2>2. Relative(path) \in Seq(FileNames) \ {<<>>}
    BY NewPathFacts
  <2>3. v = Walking(c, op, path, none, nil)
    BY <1>1
  <2> QED BY <2>1, <2>2, <2>3, WalkingIs
<1>3. w = [v EXCEPT !.old = old]
  BY <1>1 DEF Second
<1>4. /\ w \in Call /\ w.op = v.op /\ w.stage = v.stage /\ w.at = v.at /\ w.todo = v.todo
      /\ w.second = v.second /\ w.fd = v.fd
  BY <1>2, <1>3 DEF Call
<1> QED BY <1>1, <1>2, <1>4

LEMMA WalkKeeps ==
  ASSUME ClientsInv, NEW c \in Clients, Walk(c)
  PROVE  ClientsKept
<1> DEFINE f == files[c]
<1>1. PICK m : m = call[c]
  OBVIOUS
<1>2. /\ status = "up" /\ m.stage = "walk" /\ inode' = inode
      /\ free_inode_list' = free_inode_list /\ free_block_list' = free_block_list
      /\ fresh' = fresh /\ status' \in {"up", "down"} \cup Stops
  BY <1>1 DEF Walk, vars
<1>3. /\ CallOK(m, f) /\ WalkOK(m) /\ m \in Call
      /\ f \in [Descriptors -> Descriptor] /\ cwd \in [Clients -> Inodes]
      /\ \A d \in Descriptors : f[d].used /\ f[d].inum = Nil => m.fd = d
      /\ \A d \in Descriptors : f[d].inum # Nil => f[d].used
      /\ m.op \in {"Create", "Open"} => f[m.fd].inum = Nil
      /\ files = [files EXCEPT ![c] = f] /\ TableStep(files[c], f)
  <2>1. /\ ClientOK(m, f) /\ files = [files EXCEPT ![c] = f] /\ f \in [Descriptors -> Descriptor]
        /\ TableStep(files[c], f)
    BY <1>1, SameTable DEF ClientsInv
  <2>2. m # Idle
    BY <1>2 DEF Idle
  <2> QED BY <1>2, <2>1, <2>2 DEF ClientOK, CallOK, ClientsInv
<1>4. PICK at : at = Lookup(m.at, Head(m.todo))
  OBVIOUS
<1>5. PICK n : n = Looked(m, at)
  OBVIOUS
<1>6. IF n.todo # <<>> /\ Found(n)
      THEN call' = [call EXCEPT ![c] = n] /\ UNCHANGED <<files, cwd>>
      ELSE Arrive(c, n)
  BY <1>1, <1>4, <1>5 DEF Walk, Looked
<1>7. m.at \in Inodes /\ m.todo # <<>> /\ m.op \in OnPaths
  BY <1>3 DEF WalkOK
<1>8. at \in Inodes \cup {Nil}
  BY <1>2, <1>4, <1>7, LookupFacts DEF ClientsInv
<1>9. /\ n \in Call /\ n.name = Head(m.todo) /\ n.name \in FileNames
      /\ n.op = m.op /\ n.stage = m.stage /\ n.at = at /\ n.parent = m.at
      /\ n.second = m.second /\ n.old = m.old /\ n.fd = m.fd
  <2>1. m \in Call /\ m.todo # <<>>
    BY <1>3, <1>7
  <2> QED BY <1>5, <1>8, <2>1, NextCall
<1>10. /\ n.fd # Nil <=> n.op \in {"Create", "Open"}
       /\ n.second # <<>> => n.op = "Link"
       /\ n.op \in OnPaths /\ n.op \notin OnFiles /\ n.stage = "walk"
       /\ n.fd \in Descriptors \cup {Nil} /\ Nil \notin Descriptors
       /\ \A d \in Descriptors : f[d].used /\ f[d].inum = Nil => n.fd = d
       /\ n.op \in {"Create", "Open"} => f[n.fd].inum = Nil
  <2>1. n.op \in OnPaths /\ n.op \notin OnFiles /\ n.stage = "walk"
    BY <1>2, <1>7, <1>9 DEF OnPaths, OnFiles
  <2>2. n.fd \in Descriptors \cup {Nil}
    BY <1>9, CallFields
  <2>3. Nil \notin Descriptors
    BY DescriptorsAssumption DEF Descriptors
  <2>4. n.fd # Nil <=> n.op \in {"Create", "Open"}
    BY <1>3, <1>9, <2>1 DEF CallOK
  <2>5. n.second # <<>> => n.op = "Link"
    BY <1>3, <1>9 DEF CallOK
  <2> QED BY <1>3, <1>9, <2>1, <2>2, <2>3, <2>4, <2>5
<1>11. PICK g : g = IF n.fd = Nil THEN f ELSE [f EXCEPT ![n.fd] = Unused]
  OBVIOUS
<1>12. ClientOK(Idle, g) /\ TableStep(files[c], g)
  <2>1. PICK d : d = n.fd
    OBVIOUS
  <2>2. d \in Descriptors \cup {Nil} /\ call[c].fd = d
    BY <1>1, <1>9, <1>10, <2>1
  <2>3. g = IF d = Nil THEN files[c] ELSE [files[c] EXCEPT ![d] = Unused]
    BY <1>11, <2>1
  <2> QED BY <2>2, <2>3, ClosedOK
<1> HIDE DEF f
<1>13. CASE n.todo # <<>> /\ Found(n)
  <2>1. call' = [call EXCEPT ![c] = n] /\ files' = files /\ cwd' = cwd /\ n.at \in Inodes
    BY <1>6, <1>8, <1>9, <1>13 DEF Found
  <2>2. ClientOK(n, f)
    <3>1. f \in [Descriptors -> Descriptor]
      BY <1>3
    <3> QED BY <1>3, <1>9, <1>10, <1>13, <2>1, <3>1, WalkingOK
  <2> QED BY <1>2, <1>3, <2>1, <2>2, QuietStep
<1>14. CASE Arrive(c, n)
  <2>1. CASE n.second # <<>> /\ WalkSecond(c, n)
    <3>1. PICK old : old = IF Found(n) /\ inode[n.at].type = REGULAR THEN n.at ELSE Nil
      OBVIOUS
    <3>2. PICK w, path : w = Second(c, path, old) /\ path = n.second
      OBVIOUS
    <3>3. call' = [call EXCEPT ![c] = w] /\ files' = files /\ cwd' = cwd
      BY <2>1, <3>1, <3>2 DEF WalkSecond, Second
    <3>4. old \in Inodes \cup {Nil}
      BY <1>8, <1>9, <3>1
    <3>5. n.second \in NewPaths /\ n.op = "Link" /\ "Link" \in Operations /\ n.fd = Nil
      <4>1. n.second \in NewPaths \cup {<<>>} /\ n.op \in Operations
        BY <1>9, CallFields
      <4> QED BY <1>10, <2>1, <4>1
    <3>6. cwd[c] \in Inodes
      BY <1>3
    <3>7. /\ w \in Call /\ w.op = "Link" /\ w.stage = "walk" /\ w.at \in Inodes
          /\ w.todo # <<>> /\ w.second = <<>> /\ w.fd = Nil
      <4>1. path \in NewPaths
        BY <3>2, <3>5
      <4> QED BY <3>2, <3>4, <3>5, <3>6, <4>1, SecondIs
    <3>8. ClientOK(w, f)
      <4>1. f \in [Descriptors -> Descriptor]
        BY <1>3
      <4>2. \A d \in Descriptors : f[d].used /\ f[d].inum = Nil => w.fd = d
        BY <1>10, <3>5, <3>7
      <4> QED BY <1>3, <3>7, <4>1, <4>2, WalkingOK DEF OnPaths
    <3> QED BY <1>2, <1>3, <3>3, <3>8, QuietStep
  <2>2. CASE n.second = <<>> /\ Proceeds(n) /\ Request(c, n)
    <3>1. PICK w : w = Requested(n)
      OBVIOUS
    <3>2. call' = [call EXCEPT ![c] = w] /\ files' = files /\ cwd' = cwd
      BY <2>2, <3>1 DEF Request, Requested
    <3>3. /\ w \in Call /\ w.op = n.op /\ w.stage = "request" /\ w.parent = n.parent
          /\ w.second = n.second /\ w.old = n.old /\ w.fd = n.fd
          /\ IF n.op \in {"RmDir", "Unlink"} THEN w.at = n.at ELSE w.name = n.name
      BY <1>9, <3>1, RequestedIs
    <3>4. w.op \in {"Create", "MkDir", "Link"} => w.parent \in Inodes /\ w.name \in FileNames
      BY <1>7, <1>9, <3>3
    <3>5. w.op = "Link" => w.old \in Inodes
      <4>1. n.old \in Inodes \cup {Nil}
        BY <1>9, CallFields
      <4> QED BY <2>2, <3>3, <4>1 DEF Proceeds
    <3>6. w.op \in {"RmDir", "Unlink"} =>
            /\ w.at \in Inodes /\ w.parent \in Inodes /\ Pending(w.at, w.parent)
            /\ w.op = "RmDir" => Removable(w.at, w.parent)
      <4> SUFFICES ASSUME w.op \in {"RmDir", "Unlink"}
                   PROVE  /\ at \in Inodes /\ Pending(at, m.at)
                          /\ w.op = "RmDir" => Removable(at, m.at)
        BY <1>7, <1>9, <3>3
      <4>1. at # Nil /\ (w.op = "RmDir" => n.name \notin {Dot, DotDot})
            /\ (w.op = "Unlink" => ~IsDirectory(at))
        BY <1>9, <2>2, <3>3 DEF Proceeds, Found
      <4> QED BY <1>2, <1>4, <1>7, <1>9, <4>1, FoundPending
    <3>7. RequestOK(w, f)
      BY <1>10, <3>3, <3>4, <3>5, <3>6 DEF RequestOK
    <3>8. ClientOK(w, f)
      BY <1>3, <1>10, <3>3, <3>7 DEF ClientOK, CallOK
    <3> QED BY <1>2, <1>3, <3>2, <3>8, QuietStep
  <2>3. CASE n.op = "Open" /\ Found(n) /\ OpenFound(c, n)
    <3>1. PICK d, reuse : d = n.fd /\ reuse = inode[n.at].reuse
      OBVIOUS
    <3>2. PICK h : h = [files[c] EXCEPT ![d] = [used |-> TRUE, inum |-> at, reuse |-> reuse, pos |-> 0]]
      OBVIOUS
    <3>3. call' = [call EXCEPT ![c] = Idle] /\ files' = [files EXCEPT ![c] = h] /\ cwd' = cwd
      BY <1>9, <2>3, <3>1, <3>2 DEF OpenFound, SetDescriptor, Return
    <3>4. d \in Descriptors /\ call[c].fd = d /\ at \in Inodes
      BY <1>1, <1>8, <1>9, <1>10, <2>3, <3>1 DEF Found
    <3>5. reuse \in 0 .. MaxReuse
      <4>1. inode[at] \in InodeType /\ inode[at].reuse <= MaxReuse
        BY <3>4 DEF ClientsInv, ServerTypes, Loose
      <4>2. inode[at].reuse \in Nat
        BY <4>1 DEF InodeType
      <4> QED BY <1>9, <3>1, <4>1, <4>2, BoundsAssumption
    <3>6. ClientOK(Idle, h) /\ TableStep(files[c], h)
      <4>1. call[c].op \in {"Create", "Open"}
        BY <1>1, <1>9, <2>3
      <4>2. reuse <= inode'[at].reuse
        BY <1>2, <1>9, <3>1, <3>5, BoundsAssumption
      <4> QED BY <3>2, <3>4, <3>5, <4>1, <4>2, OpenedOK
    <3> QED BY <1>2, <1>3, <3>3, <3>6, QuietStep
  <2>4. CASE n.op = "ChDir" /\ Found(n) /\ IsDirectory(n.at) /\ ChDirFound(c, n)
    <3>1. /\ call' = [call EXCEPT ![c] = Idle] /\ files' = files /\ cwd' = [cwd EXCEPT ![c] = at]
          /\ at \in Inodes
      BY <1>8, <1>9, <2>4 DEF ChDirFound, Return, Found
    <3>2. cwd' \in [Clients -> Inodes]
      BY <1>3, <3>1
    <3>3. g = f
      BY <1>10, <1>11, <2>4
    <3> QED BY <1>2, <1>3, <1>12, <3>1, <3>2, <3>3, QuietStep
  <2>5. CASE ReturnClosing(c, n) /\ cwd' = cwd
    <3>1. call' = [call EXCEPT ![c] = Idle]
      BY <2>5 DEF ReturnClosing, Return
    <3>2. files' = [files EXCEPT ![c] = g]
      BY <1>3, <1>11, <2>5 DEF ReturnClosing, CloseFileDescriptor, f
    <3> QED BY <1>2, <1>3, <1>12, <2>5, <3>1, <3>2, QuietStep
  <2> QED BY <1>14, <2>1, <2>2, <2>3, <2>4, <2>5 DEF Arrive
<1> QED BY <1>6, <1>13, <1>14

-----------------------------------------------------------------------------
(* The server handles a request.                                           *)

\* What is known of a request that the server handles.
LEMMA ServedFacts ==
  ASSUME ClientsInv, NEW c \in Clients, status = "up", call[c].stage = "request", NEW m, m = call[c]
  PROVE  /\ TypeOK /\ Loose /\ LinkInv
         /\ m \in Call /\ RequestOK(m, files[c]) /\ m.fd \in Descriptors \cup {Nil}
         /\ m.fd # Nil <=> m.op \in {"Create", "Open"} \cup OnFiles
         /\ files[c] \in [Descriptors -> Descriptor]
<1>1. m # Idle
  BY DEF Idle
<1>2. CallOK(m, files[c]) /\ files[c] \in [Descriptors -> Descriptor]
  BY <1>1 DEF ClientsInv, ClientOK
<1>3. m \in Call /\ RequestOK(m, files[c])
  BY <1>2 DEF CallOK
<1>4. m.fd \in Descriptors \cup {Nil}
  BY <1>3, CallFields
<1>5. m.fd # Nil <=> m.op \in {"Create", "Open"} \cup OnFiles
  BY <1>2 DEF CallOK
<1>6. TypeOK /\ Loose /\ LinkInv
  BY DEF ClientsInv, ServerTypes, TypeOK
<1> QED BY <1>2, <1>3, <1>4, <1>5, <1>6

\* The server stopped, and no reply comes.
LEMMA NoReply ==
  ASSUME ClientsInv, NEW c \in Clients, Keeps, call' = call, files' = files, cwd' = cwd
  PROVE  ClientsKept
<1>1. PICK m, f : m = call[c] /\ f = files[c]
  OBVIOUS
<1>2. ClientOK(m, f) /\ cwd' \in [Clients -> Inodes]
  BY <1>1 DEF ClientsInv
<1>3. /\ call' = [call EXCEPT ![c] = m] /\ files' = [files EXCEPT ![c] = f]
      /\ TableStep(files[c], f)
  BY <1>1, SameTable
<1>4. ServerTypes' /\ Loose' /\ LinkInv' /\ RequestsKept /\ UsesKept
  BY KeepsTypes
<1> QED BY <1>2, <1>3, <1>4, ClientStep

\* A reply came, and the call ended with table f.
LEMMA Replied ==
  ASSUME ClientsInv, NEW c \in Clients, Keeps, NEW f, ClientOK(Idle, f), cwd' = cwd,
         call' = [call EXCEPT ![c] = Idle], files' = [files EXCEPT ![c] = f],
         TableStep(files[c], f)
  PROVE  ClientsKept
<1>1. ServerTypes' /\ Loose' /\ LinkInv' /\ RequestsKept /\ UsesKept
  BY KeepsTypes
<1>2. cwd' \in [Clients -> Inodes]
  BY DEF ClientsInv
<1> QED BY <1>1, <1>2, ClientStep

\* The call ends, and the descriptor it is about keeps its file.
LEMMA ReturnedOK ==
  ASSUME ClientsInv, NEW c \in Clients,
         call[c].fd = Nil \/ files[c][call[c].fd].inum # Nil
  PROVE  ClientOK(Idle, files[c]) /\ TableStep(files[c], files[c])
<1>1. files[c] \in [Descriptors -> Descriptor] /\ ClientOK(call[c], files[c])
  BY DEF ClientsInv
<1>2. Nil \notin Descriptors
  BY DescriptorsAssumption DEF Descriptors
<1>3. ASSUME NEW d \in Descriptors PROVE files[c][d].used <=> files[c][d].inum # Nil
  BY <1>1, <1>2 DEF ClientOK
<1> QED BY <1>1, <1>3, IdleOK, SameTable

\* The inode CreateFile made or found, as its client is told of it.
LEMMA CreatedFacts ==
  ASSUME TypeOK', Loose', NEW m, NEW t, t = Created(m), t # Nil, m.parent \in Inodes
  PROVE  t \in Inodes /\ inode'[t].reuse \in 0 .. MaxReuse
<1>1. t = SearchDirectory(inode'[m.parent], m.name)
  BY DEF Created
<1>2. t \in Inodes
  <2>1. PICK p, n, g : p = m.parent /\ n = m.name /\ g = inode'[p]
    OBVIOUS
  <2>2. g \in InodeType
    BY <2>1 DEF TypeOK
  <2>3. t = SearchDirectory(g, n)
    BY <1>1, <2>1
  <2>4. PICK k \in LiveIn(g) : g.entry[k].name = n /\ g.entry[k].inum = t
    BY <2>2, <2>3, SearchResult
  <2>5. p \in Inodes
    BY <2>1
  <2> QED BY <2>1, <2>4, <2>5, LooseFactsPrimed
<1>3. inode'[t] \in InodeType /\ inode'[t].reuse <= MaxReuse
  BY <1>2 DEF TypeOK, Loose
<1>4. inode'[t].reuse \in Nat
  BY <1>3 DEF InodeType
<1> QED BY <1>2, <1>3, <1>4, BoundsAssumption

LEMMA ServeCreateKeeps ==
  ASSUME ClientsInv, NEW c \in Clients, status = "up", call[c].stage = "request",
         ServeCreate(c, call[c]), cwd' = cwd
  PROVE  ClientsKept
<1>1. PICK m : m = call[c]
  OBVIOUS
<1>2. /\ TypeOK /\ Loose /\ LinkInv /\ m.op = "Create" /\ CreateFile(m.parent, m.name, REGULAR)
      /\ RequestOK(m, files[c]) /\ m.fd \in Descriptors
  BY <1>1, ServedFacts DEF ServeCreate
<1>3. m.parent \in Inodes /\ m.name \in Names \cup {Dot, DotDot}
  BY <1>2 DEF RequestOK, FileNames
<1>4. Keeps
  <2>1. PICK p, n, type : p = m.parent /\ n = m.name /\ type = REGULAR
    OBVIOUS
  <2>2. /\ p \in Inodes /\ n \in Names \cup {Dot, DotDot} /\ type \in {REGULAR, DIRECTORY}
        /\ CreateFile(p, n, type)
    BY <1>2, <1>3, <2>1
  <2> QED BY <1>2, <2>2, CreateKeeps
<1>5. CASE status' # "up"
  BY <1>1, <1>4, <1>5, NoReply DEF ServeCreate
<1>6. CASE status' = "up" /\ Created(m) = Nil
  <2>1. ReturnClosing(c, m) /\ m.fd # Nil
    <3>1. Nil \notin Descriptors
      BY DescriptorsAssumption DEF Descriptors
    <3> QED BY <1>1, <1>2, <1>6, <3>1 DEF ServeCreate
  <2>2. PICK d, f : d = m.fd /\ f = [files[c] EXCEPT ![d] = Unused]
    OBVIOUS
  <2>3. call' = [call EXCEPT ![c] = Idle] /\ files' = [files EXCEPT ![c] = f]
    BY <2>1, <2>2 DEF ReturnClosing, Return, CloseFileDescriptor
  <2>4. ClientOK(Idle, f) /\ TableStep(files[c], f)
    <3>1. d \in Descriptors \cup {Nil} /\ call[c].fd = d
      BY <1>1, <1>2, <2>2
    <3>2. f = IF d = Nil THEN files[c] ELSE [files[c] EXCEPT ![d] = Unused]
      BY <2>1, <2>2
    <3> QED BY <3>1, <3>2, ClosedOK
  <2> QED BY <1>4, <2>3, <2>4, Replied
<1>7. CASE status' = "up" /\ Created(m) # Nil
  <2>1. PICK d, i, reuse : d = m.fd /\ i = Created(m) /\ reuse = inode'[i].reuse
    OBVIOUS
  <2>2. PICK f : f = [files[c] EXCEPT ![d] = [used |-> TRUE, inum |-> i, reuse |-> reuse, pos |-> 0]]
    OBVIOUS
  <2>3. call' = [call EXCEPT ![c] = Idle] /\ files' = [files EXCEPT ![c] = f]
    BY <1>1, <1>7, <2>1, <2>2 DEF ServeCreate, SetDescriptor, Return
  <2>4. i \in Inodes /\ reuse \in 0 .. MaxReuse
    BY <1>3, <1>4, <1>7, <2>1, CreatedFacts DEF Keeps
  <2>5. /\ d \in Descriptors /\ call[c].fd = d /\ call[c].op \in {"Create", "Open"}
        /\ reuse <= inode'[i].reuse
    BY <1>1, <1>2, <2>1, <2>4, BoundsAssumption
  <2>6. ClientOK(Idle, f) /\ TableStep(files[c], f)
    BY <2>2, <2>4, <2>5, OpenedOK
  <2> QED BY <1>4, <2>3, <2>6, Replied
<1> QED BY <1>5, <1>6, <1>7

LEMMA ServeNamesKeeps ==
  ASSUME ClientsInv, NEW c \in Clients, status = "up", call[c].stage = "request",
         ServeNames(c, call[c]), cwd' = cwd
  PROVE  ClientsKept
<1>1. PICK m : m = call[c]
  OBVIOUS
<1>2. /\ TypeOK /\ Loose /\ LinkInv /\ RequestOK(m, files[c]) /\ m.fd \in Descriptors \cup {Nil}
      /\ m.fd # Nil <=> m.op \in {"Create", "Open"} \cup OnFiles
  BY <1>1, ServedFacts
<1>3. PICK i, p, n, old, type : /\ i = m.at /\ p = m.parent /\ n = m.name /\ old = m.old
                                /\ type = DIRECTORY
  OBVIOUS
<1>4. Keeps /\ m.op \in {"MkDir", "RmDir", "Unlink", "Link"}
  <2>1. CASE m.op = "MkDir" /\ CreateFile(p, n, type)
    <3>1. /\ p \in Inodes /\ n \in Names \cup {Dot, DotDot} /\ type \in {REGULAR, DIRECTORY}
      BY <1>2, <1>3, <2>1 DEF RequestOK, FileNames
    <3> QED BY <1>2, <2>1, <3>1, CreateKeeps
  <2>2. CASE m.op = "RmDir" /\ \E junk \in BOOLEAN : DeleteDir(i, p, junk)
    <3>1. i \in Inodes /\ p \in Inodes /\ Pending(i, p) /\ Removable(i, p)
      BY <1>2, <1>3, <2>2 DEF RequestOK
    <3> QED BY <1>2, <2>2, <3>1, RmDirKeeps
  <2>3. CASE m.op = "Unlink" /\ \E junk \in BOOLEAN : DeleteLink(i, p, junk)
    <3>1. i \in Inodes /\ p \in Inodes /\ Pending(i, p)
      BY <1>2, <1>3, <2>3 DEF RequestOK
    <3> QED BY <1>2, <2>3, <3>1, UnlinkKeeps
  <2>4. CASE m.op = "Link" /\ CreateLink(old, p, n)
    <3>1. old \in Inodes /\ p \in Inodes /\ n \in Names \cup {Dot, DotDot}
      BY <1>2, <1>3, <2>4 DEF RequestOK, FileNames
    <3> QED BY <1>2, <2>4, <3>1, LinkKeeps
  <2> QED BY <1>1, <1>3, <2>1, <2>2, <2>3, <2>4 DEF ServeNames
<1>5. CASE status' # "up"
  BY <1>4, <1>5, NoReply DEF ServeNames
<1>6. CASE status' = "up"
  <2>1. call[c].fd = Nil
    BY <1>1, <1>2, <1>4 DEF OnFiles
  <2>2. PICK f : f = files[c]
    OBVIOUS
  <2>3. ClientOK(Idle, f) /\ TableStep(files[c], f)
    BY <2>1, <2>2, ReturnedOK
  <2>4. call' = [call EXCEPT ![c] = Idle] /\ files' = [files EXCEPT ![c] = f]
    BY <1>6, <2>2, SameTable DEF ServeNames, Return
  <2> QED BY <1>4, <2>3, <2>4, Replied
<1> QED BY <1>5, <1>6

\* The open file a request is about.
LEMMA FileFacts ==
  ASSUME ClientsInv, NEW c \in Clients, status = "up", call[c].stage = "request",
         call[c].op \in OnFiles, NEW d, d = call[c].fd, NEW f, f = files[c][d]
  PROVE  /\ d \in Descriptors /\ f.inum \in Inodes /\ f.pos \in Nat
         /\ f.pos \in (0 .. MaxFileSize) \cup Positions
<1>1. /\ d \in Descriptors \cup {Nil} /\ d # Nil /\ f.inum # Nil
      /\ files[c] \in [Descriptors -> Descriptor]
  BY ServedFacts DEF RequestOK
<1>2. f \in Descriptor
  BY <1>1
<1>3. f.inum \in Inodes /\ f.pos \in (0 .. MaxFileSize) \cup Positions
  BY <1>1, <1>2 DEF Descriptor
<1>4. PICK max : max = MaxFileSize
  OBVIOUS
<1>5. 0 .. max \subseteq Nat /\ Positions \subseteq Nat
  BY <1>4, Geometry, BoundsAssumption
<1> QED BY <1>1, <1>3, <1>4, <1>5

\* A position moves to one where a file can end, or not at all.
LEMMA ReadCountFacts ==
  ASSUME TypeOK, NEW f, f.inum \in Inodes, f.pos \in Nat, NEW size \in Nat
  PROVE  /\ f.pos + ReadCount(f, size) = f.pos \/ f.pos + ReadCount(f, size) \in 0 .. MaxFileSize
         /\ f.pos + WriteCount(f, size) = f.pos \/ f.pos + WriteCount(f, size) \in 0 .. MaxFileSize
<1> DEFINE g == inode[f.inum]
<1>1. g.size \in 0 .. MaxFileSize
  <2>1. g \in InodeType
    BY DEF TypeOK
  <2> QED BY <2>1 DEF InodeType
<1>2. PICK pos, max, length : pos = f.pos /\ max = MaxFileSize /\ length = g.size
  OBVIOUS
<1>3. pos \in Nat /\ max \in Nat /\ length \in 0 .. max
  BY <1>1, <1>2, Geometry
<1>4. PICK reads, writes : reads = ReadCount(f, size) /\ writes = WriteCount(f, size)
  OBVIOUS
<1>5. \/ reads = 0
      \/ pos + size <= length /\ reads = size
      \/ pos < length /\ reads = length - pos
  BY <1>2, <1>4 DEF ReadCount
<1>6. writes = 0 \/ (writes = size /\ ~(pos + size > max))
  BY <1>2, <1>4 DEF WriteCount, WriteRefused
<1>7. pos + reads = pos \/ pos + reads \in 0 .. max
  BY <1>3, <1>5
<1>8. pos + writes = pos \/ pos + writes \in 0 .. max
  BY <1>3, <1>6
<1> QED BY <1>2, <1>4, <1>7, <1>8

LEMMA ServeFileKeeps ==
  ASSUME ClientsInv, NEW c \in Clients, status = "up", call[c].stage = "request",
         ServeFile(c, call[c]), cwd' = cwd
  PROVE  ClientsKept
<1>1. PICK d, f : d = call[c].fd /\ f = files[c][d]
  OBVIOUS
<1>2. PICK size \in Lengths :
        \/ /\ call[c].op = "Read" /\ ReadFile(f.inum, f.pos, size, f.reuse)
           /\ IF status' = "up" THEN Advances(c, d, ReadCount(f, size)) /\ Return(c)
              ELSE UNCHANGED <<call, files>>
        \/ /\ call[c].op = "Write" /\ WriteFile(f.inum, f.pos, size, f.reuse)
           /\ IF status' = "up" THEN Advances(c, d, WriteCount(f, size)) /\ Return(c)
              ELSE UNCHANGED <<call, files>>
  BY <1>1 DEF ServeFile
<1>3. /\ d \in Descriptors /\ f.inum \in Inodes /\ f.pos \in Nat
      /\ f.pos \in (0 .. MaxFileSize) \cup Positions
  BY <1>1, <1>2, FileFacts DEF OnFiles
<1>4. TypeOK /\ Loose /\ LinkInv /\ size \in Nat
  BY ServedFacts, BoundsAssumption
<1>5. Keeps
  <2>1. PICK i, pos, reuse : i = f.inum /\ pos = f.pos /\ reuse = f.reuse
    OBVIOUS
  <2>2. ReadFile(i, pos, size, reuse) \/ WriteFile(i, pos, size, reuse)
    BY <1>2, <2>1
  <2>3. i \in Inodes /\ pos \in Nat
    BY <1>3, <2>1
  <2> QED BY <1>4, <2>2, <2>3, ReadKeeps, WriteKeeps
<1>6. CASE status' # "up"
  BY <1>2, <1>5, <1>6, NoReply
<1>7. CASE status' = "up"
  <2>1. PICK count \in {ReadCount(f, size), WriteCount(f, size)} :
          Advances(c, d, count) /\ Return(c)
    BY <1>2, <1>7
  <2>2. PICK pos : pos = f.pos + count
    OBVIOUS
  <2>3. pos \in (0 .. MaxFileSize) \cup Positions
    BY <1>3, <1>4, <2>1, <2>2, ReadCountFacts
  <2>4. PICK h : h = [files[c] EXCEPT ![d] = [files[c][d] EXCEPT !.pos = pos]]
    OBVIOUS
  <2>5. files' = [files EXCEPT ![c] = h] /\ call' = [call EXCEPT ![c] = Idle]
    BY <1>1, <2>1, <2>2, <2>4 DEF Advances, Return
  <2>6. files[c][d].inum # Nil /\ call[c].fd = d
    BY <1>1, <1>3, NilAssumption
  <2>7. ClientOK(Idle, h) /\ TableStep(files[c], h)
    BY <1>3, <2>3, <2>4, <2>6, MovedOK
  <2> QED BY <1>5, <2>5, <2>7, Replied
<1> QED BY <1>6, <1>7

LEMMA ServeSeekKeeps ==
  ASSUME ClientsInv, NEW c \in Clients, status = "up", call[c].stage = "request",
         ServeSeek(c, call[c]), cwd' = cwd
  PROVE  ClientsKept
<1>1. PICK d, f : d = call[c].fd /\ f = files[c][d]
  OBVIOUS
<1>2. /\ call[c].op = "Seek" /\ inode' = inode /\ free_inode_list' = free_inode_list
      /\ free_block_list' = free_block_list /\ fresh' = fresh
      /\ status' \in {"up", "down"} \cup Stops /\ cwd' \in [Clients -> Inodes]
      /\ call' = [call EXCEPT ![c] = Idle]
  BY DEF ServeSeek, vars, Return, ClientsInv
<1>3. d \in Descriptors /\ f.inum \in Inodes
  BY <1>1, <1>2, FileFacts DEF OnFiles
<1>4. files[c][d].inum # Nil /\ call[c].fd = d
  BY <1>1, <1>3, NilAssumption
<1>5. CASE files' = files
  <2>1. PICK h : h = files[c]
    OBVIOUS
  <2>2. ClientOK(Idle, h) /\ TableStep(files[c], h)
    BY <1>4, <2>1, ReturnedOK
  <2>3. files' = [files EXCEPT ![c] = h]
    BY <1>5, <2>1, SameTable
  <2> QED BY <1>2, <2>2, <2>3, QuietStep
<1>6. CASE \E pos \in Positions : files' = [files EXCEPT ![c][d].pos = pos]
  <2>1. PICK pos \in Positions : files' = [files EXCEPT ![c][d].pos = pos]
    BY <1>6
  <2>2. PICK h : h = [files[c] EXCEPT ![d] = [files[c][d] EXCEPT !.pos = pos]]
    OBVIOUS
  <2>3. files' = [files EXCEPT ![c] = h]
    BY <2>1, <2>2
  <2>4. ClientOK(Idle, h) /\ TableStep(files[c], h)
    <3>1. pos \in (0 .. MaxFileSize) \cup Positions
      OBVIOUS
    <3> QED BY <1>3, <1>4, <2>2, <3>1, MovedOK
  <2> QED BY <1>2, <2>3, <2>4, QuietStep
<1> QED BY <1>1, <1>5, <1>6 DEF ServeSeek

LEMMA ServeShutdownKeeps ==
  ASSUME ClientsInv, NEW c \in Clients, status = "up", call[c].stage = "request",
         ServeShutdown(c, call[c]), cwd' = cwd
  PROVE  ClientsKept
<1>1. PICK f : f = files[c]
  OBVIOUS
<1>2. /\ call[c].op = "Shutdown" /\ inode' = inode /\ free_inode_list' = free_inode_list
      /\ free_block_list' = free_block_list /\ fresh' = fresh
      /\ status' \in {"up", "down"} \cup Stops /\ cwd' \in [Clients -> Inodes]
      /\ call' = [call EXCEPT ![c] = Idle] /\ files' = [files EXCEPT ![c] = f]
  BY <1>1, SameTable DEF ServeShutdown, Return, ClientsInv
<1>3. call[c].fd = Nil
  BY <1>2, ServedFacts DEF OnFiles
<1>4. ClientOK(Idle, f) /\ TableStep(files[c], f)
  BY <1>1, <1>3, ReturnedOK
<1> QED BY <1>2, <1>4, QuietStep

LEMMA ServeKeeps ==
  ASSUME ClientsInv, NEW c \in Clients, Serve(c)
  PROVE  ClientsKept
BY ServeCreateKeeps, ServeNamesKeeps, ServeFileKeeps, ServeSeekKeeps, ServeShutdownKeeps DEF Serve

-----------------------------------------------------------------------------
(* The server is gone, and a client goes on with what it has.              *)

LEMMA BrokenKeeps ==
  ASSUME ClientsInv, NEW c \in Clients, Broken(c)
  PROVE  ClientsKept
<1>1. PICK m, d, f : m = call[c] /\ d = m.fd /\ f = files[c]
  OBVIOUS
<1>2. /\ inode' = inode /\ free_inode_list' = free_inode_list
      /\ free_block_list' = free_block_list /\ fresh' = fresh
      /\ status' \in {"up", "down"} \cup Stops /\ call' = [call EXCEPT ![c] = Idle]
      /\ cwd \in [Clients -> Inodes] /\ f \in [Descriptors -> Descriptor]
      /\ files = [files EXCEPT ![c] = f] /\ Nil \notin Descriptors
  <2>1. files = [files EXCEPT ![c] = f]
    BY <1>1, SameTable
  <2>2. Nil \notin Descriptors
    BY DescriptorsAssumption DEF Descriptors
  <2>3. call' = [call EXCEPT ![c] = Idle]
    BY DEF Broken, ReturnClosing, Return
  <2> QED BY <1>1, <2>1, <2>2, <2>3 DEF Broken, vars, ClientsInv, ServerTypes
<1>3. /\ CallOK(m, f) /\ d \in Descriptors \cup {Nil} /\ call[c].fd = d
      /\ d # Nil <=> m.op \in {"Create", "Open"} \cup OnFiles
  <2>1. ClientOK(m, f) /\ m # Idle
    BY <1>1 DEF ClientsInv, Broken
  <2>2. CallOK(m, f)
    BY <2>1 DEF ClientOK
  <2>3. m \in Call
    BY <2>2 DEF CallOK
  <2>4. d \in Descriptors \cup {Nil}
    BY <1>1, <2>3, CallFields
  <2> QED BY <1>1, <2>2, <2>4 DEF CallOK
<1>4. m.op \in OnFiles => d \in Descriptors /\ f[d].inum # Nil
  <2>1. m.op \in OnFiles => m.stage = "request"
    <3>1. m.stage \in {"walk", "request"}
      BY <1>3, CallFields DEF CallOK
    <3> QED BY <1>3, <3>1 DEF CallOK, WalkOK, OnPaths, OnFiles
  <2> QED BY <1>1, <1>3, <2>1 DEF CallOK, RequestOK
<1>5. CASE ReturnClosing(c, m) /\ cwd' = cwd
  <2>1. PICK g : g = IF d = Nil THEN files[c] ELSE [files[c] EXCEPT ![d] = Unused]
    OBVIOUS
  <2>2. ClientOK(Idle, g) /\ TableStep(files[c], g)
    BY <1>3, <2>1, ClosedOK
  <2>3. files' = [files EXCEPT ![c] = g]
    BY <1>1, <1>2, <1>5, <2>1 DEF ReturnClosing, CloseFileDescriptor
  <2> QED BY <1>2, <1>5, <2>2, <2>3, QuietStep
<1>6. ASSUME m.op \in OnFiles, cwd' = cwd, NEW pos \in (0 .. MaxFileSize) \cup Positions,
             files' = [files EXCEPT ![c][d].pos = pos]
      PROVE  ClientsKept
  <2>1. PICK g : g = [files[c] EXCEPT ![d] = [files[c][d] EXCEPT !.pos = pos]]
    OBVIOUS
  <2>2. files' = [files EXCEPT ![c] = g]
    BY <1>6, <2>1
  <2>3. d \in Descriptors /\ files[c][d].inum # Nil
    BY <1>1, <1>4, <1>6
  <2>4. ClientOK(Idle, g) /\ TableStep(files[c], g)
    BY <1>3, <2>1, <2>3, MovedOK
  <2> QED BY <1>2, <1>6, <2>2, <2>4, QuietStep
<1>7. CASE /\ m.op \in {"Read", "Write"} /\ cwd' = cwd
           /\ \E count \in 0 .. MaxFileSize - files[c][m.fd].pos : Advances(c, m.fd, count)
  <2>1. PICK count \in 0 .. MaxFileSize - f[d].pos : files' = [files EXCEPT ![c][d].pos = @ + count]
    BY <1>1, <1>7 DEF Advances
  <2>2. PICK pos, at, max : pos = f[d].pos + count /\ at = f[d].pos /\ max = MaxFileSize
    OBVIOUS
  <2>3. files' = [files EXCEPT ![c][d].pos = pos]
    BY <1>1, <2>1, <2>2
  <2>4. m.op \in OnFiles
    BY <1>7 DEF OnFiles
  <2>5. at \in Nat /\ max \in Nat
    <3>1. f[d] \in Descriptor
      BY <1>2, <1>4, <2>4
    <3>2. max \in Nat
      BY <2>2, Geometry
    <3>3. at \in (0 .. max) \cup Positions
      BY <2>2, <3>1 DEF Descriptor
    <3> QED BY <3>2, <3>3, BoundsAssumption
  <2>6. pos \in 0 .. max
    BY <2>1, <2>2, <2>5
  <2> QED BY <1>6, <1>7, <2>2, <2>3, <2>4, <2>6
<1>8. CASE /\ m.op = "Seek" /\ cwd' = cwd
           /\ \E pos \in Positions \cup {files[c][m.fd].pos} :
                files' = [files EXCEPT ![c][m.fd].pos = pos]
  <2>1. PICK pos \in Positions \cup {f[d].pos} : files' = [files EXCEPT ![c][d].pos = pos]
    BY <1>1, <1>8
  <2>2. m.op \in OnFiles
    BY <1>8 DEF OnFiles
  <2>3. pos \in (0 .. MaxFileSize) \cup Positions
    <3>1. f[d] \in Descriptor
      BY <1>2, <1>4, <2>2
    <3>2. f[d].pos \in (0 .. MaxFileSize) \cup Positions
      BY <3>1 DEF Descriptor
    <3> QED BY <3>2
  <2> QED BY <1>6, <1>8, <2>1, <2>2, <2>3
<1>9. CASE /\ m.op \in {"Create", "Open"} /\ cwd' = cwd
           /\ \E i \in Inodes : SetDescriptor(c, m.fd, i, 0)
  <2>1. PICK i \in Inodes :
          files' = [files EXCEPT ![c][d] = [used |-> TRUE, inum |-> i, reuse |-> 0, pos |-> 0]]
    BY <1>1, <1>9 DEF SetDescriptor
  <2>2. PICK reuse, g :
          /\ reuse = 0
          /\ g = [files[c] EXCEPT ![d] = [used |-> TRUE, inum |-> i, reuse |-> reuse, pos |-> 0]]
    OBVIOUS
  <2>3. files' = [files EXCEPT ![c] = g]
    BY <2>1, <2>2
  <2>4. d \in Descriptors /\ reuse \in 0 .. MaxReuse
    BY <1>3, <1>9, <2>2, BoundsAssumption
  <2>5. g = [files[c] EXCEPT ![d] = [used |-> TRUE, inum |-> i, reuse |-> reuse, pos |-> 0]]
    BY <2>2
  <2>6. ClientOK(Idle, g) /\ TableStep(files[c], g)
    <3>1. call[c].op \in {"Create", "Open"}
      BY <1>1, <1>9
    <3>2. reuse <= inode'[i].reuse
      <4>1. inode[i] \in InodeType
        BY DEF ClientsInv, ServerTypes
      <4>2. inode[i].reuse \in Nat
        BY <4>1 DEF InodeType
      <4> QED BY <1>2, <2>2, <4>2
    <3> QED BY <1>3, <2>4, <2>5, <3>1, <3>2, OpenedOK
  <2> QED BY <1>2, <1>9, <2>3, <2>6, QuietStep
<1>10. CASE /\ m.op = "ChDir" /\ files' = files
            /\ \E i \in Inodes : cwd' = [cwd EXCEPT ![c] = i]
  <2>1. cwd' \in [Clients -> Inodes] /\ call[c].fd = Nil
    BY <1>1, <1>2, <1>3, <1>10 DEF OnFiles
  <2>2. ClientOK(Idle, f) /\ TableStep(files[c], f)
    BY <1>1, <2>1, ReturnedOK
  <2> QED BY <1>2, <1>10, <2>1, <2>2, QuietStep
<1> QED BY <1>1, <1>5, <1>7, <1>8, <1>9, <1>10 DEF Broken

LEMMA NextClients ==
  ASSUME ClientsInv, [ClientsNext]_cvars
  PROVE  ClientsKept
<1>1. ASSUME NEW c \in Clients, Begin(c) \/ Close(c) \/ Walk(c) \/ Serve(c) \/ Broken(c)
      PROVE  ClientsKept
  BY <1>1, BeginKeeps, CloseKeeps, WalkKeeps, ServeKeeps, BrokenKeeps
<1>2. CASE UNCHANGED cvars
  <2>1. /\ inode' = inode /\ free_inode_list' = free_inode_list
        /\ free_block_list' = free_block_list /\ fresh' = fresh
        /\ status' = status /\ call' = call /\ files' = files /\ cwd' = cwd
    BY <1>2 DEF cvars
  <2>2. ServerTypes' /\ Loose' /\ LinkInv' /\ RequestsKept
    BY <2>1, QuietServer DEF ClientsInv, ServerTypes
  <2>3. ASSUME NEW k \in Clients PROVE ClientOK(call[k], files[k])'
    <3>1. PICK m, f : m = call[k] /\ f = files[k]
      OBVIOUS
    <3>2. ClientOK(m, f)'
      BY <2>2, <3>1, ClientKept DEF ClientsInv
    <3> QED BY <2>1, <3>1, <3>2
  <2>4. \A k \in Clients : Current(files[k])'
    BY <2>1 DEF ClientsInv, Current
  <2>5. StaysStale
    BY <2>1 DEF StaysStale, Stale
  <2> QED BY <2>1, <2>2, <2>3, <2>4, <2>5 DEF ClientsInv, ClientsKept
<1> QED BY <1>1, <1>2 DEF ClientsNext

-----------------------------------------------------------------------------
(* The theorems.                                                           *)

\* Whatever the clients do to the tree between the messages of each other's
\* calls (iolib.c:35-104, and the requests that follow it), the server keeps
\* Loose and LinkInv, and every call under way one of the forms of CallOK.
THEOREM ClientsInvariant == ClientsSpec => []ClientsInv
<1>1. ClientsInit => ClientsInv
  BY InitClients
<1>2. ClientsInv /\ [ClientsNext]_cvars => ClientsInv'
  BY NextClients DEF ClientsKept
<1> QED BY <1>1, <1>2, PTL DEF ClientsSpec

\* Every variable has its type: reads and writes leave a position where a file
\* can end (iolib.c:244-327), and a descriptor knows a reuse count the server gave.
THEOREM ClientsTyping == ClientsSpec => []ClientsTypeOK
<1>1. ClientsInv => ClientsTypeOK
  BY DEF ClientsInv, ServerTypes, ClientsTypeOK
<1> QED BY <1>1, ClientsInvariant, PTL

\* A descriptor in use without a file is that of a call under way (iolib.c:109-224).
THEOREM NoLeak == ClientsSpec => []NoDescriptorLeak
<1>1. ClientsInv => NoDescriptorLeak
  BY DEF ClientsInv, ClientOK, NoDescriptorLeak
<1> QED BY <1>1, ClientsInvariant, PTL

\* A descriptor whose file is gone never comes to stand for the file that the
\* inode is given to next: CreateFileInode counts up the reuse count of every
\* inode it takes (yfs.c:236), so one that a descriptor was told never comes back.
THEOREM StaleStaysStale == ClientsSpec => StaleForGood
<1>1. ClientsInv /\ [ClientsNext]_cvars => [StaysStale]_cvars
  BY NextClients DEF ClientsKept
<1> QED BY <1>1, ClientsInvariant, PTL DEF ClientsSpec, StaleForGood, StaysStale

\* An inode in use has at least as many links as there are entries for it, also
\* after requests that were out of date when the server handled them
\* (yfs.c:986-1177).
THEOREM LinksNeverTooLow == ClientsSpec => []LinksNeverUndercount
<1>1. ClientsInv => LinksNeverUndercount
  BY NeverTooLow DEF ClientsInv, ServerTypes, LinksNeverUndercount
<1> QED BY <1>1, ClientsInvariant, PTL

\* So an inode that DeleteLink or DeleteDir frees has no name left (yfs.c:1039,
\* 1163), and no name comes to stand for a stranger's file.
THEOREM NamesNeverDangle == ClientsSpec => []NoDanglingName
<1>1. ClientsInv => NoDanglingName
  BY DEF ClientsInv, LinkInv, NamesUsed, NoDanglingName, Live, LiveIn, Used
<1> QED BY <1>1, ClientsInvariant, PTL

\* The list of free inodes offers no inode in use, to whichever client's
\* CreateFile pops it (yfs.c:653).
THEOREM ListedStayFree == ClientsSpec => []FreeInodesFree
<1>1. ClientsInv => FreeInodesFree
  BY DEF ClientsInv, LinkInv, Listed, FreeInodesFree, Used
<1> QED BY <1>1, ClientsInvariant, PTL

-----------------------------------------------------------------------------
(* The blocks, whose invariant the handlers keep on less than the tree.    *)

LEMMA StillWorkable ==
  ASSUME ClientsInv, status = "up"
  PROVE  Workable
BY DEF ClientsInv, ServerTypes, TypeOK, Loose, LinkInv, Listed, Workable

LEMMA QuietBlocks ==
  ASSUME BlockInv, inode' = inode, free_block_list' = free_block_list,
         status' = status \/ status' # "up"
  PROVE  BlockInv'
BY DEF BlockInv, Exclusive

LEMMA ServeNamesBlocks ==
  ASSUME ClientsInv, BlockInv, NEW c \in Clients, status = "up", call[c].stage = "request",
         ServeCreate(c, call[c]) \/ ServeNames(c, call[c])
  PROVE  BlockInv'
<1>1. PICK m : m = call[c]
  OBVIOUS
<1>2. Workable /\ RequestOK(m, files[c])
  BY <1>1, ServedFacts, StillWorkable
<1>3. PICK i, p, n, old : i = m.at /\ p = m.parent /\ n = m.name /\ old = m.old
  OBVIOUS
<1>4. \/ m.op = "Create" /\ CreateFile(p, n, REGULAR)
      \/ m.op = "MkDir" /\ CreateFile(p, n, DIRECTORY)
      \/ m.op = "RmDir" /\ \E junk \in BOOLEAN : DeleteDir(i, p, junk)
      \/ m.op = "Unlink" /\ \E junk \in BOOLEAN : DeleteLink(i, p, junk)
      \/ m.op = "Link" /\ CreateLink(old, p, n)
  BY <1>1, <1>3 DEF ServeCreate, ServeNames
<1>5. /\ m.op \in {"Create", "MkDir", "Link"} => p \in Inodes /\ n \in Names \cup {Dot, DotDot}
      /\ m.op = "Link" => old \in Inodes
      /\ m.op \in {"RmDir", "Unlink"} => i \in Inodes /\ p \in Inodes /\ i # p
  BY <1>2, <1>3 DEF RequestOK, FileNames, Pending
<1>6. CASE m.op \in {"Create", "MkDir"} /\ \E type \in {REGULAR, DIRECTORY} : CreateFile(p, n, type)
  BY <1>2, <1>5, <1>6, CreateBlocks
<1>7. CASE m.op = "RmDir" /\ \E junk \in BOOLEAN : DeleteDir(i, p, junk)
  BY <1>2, <1>5, <1>7, DeleteDirBlocks
<1>8. CASE m.op = "Unlink" /\ \E junk \in BOOLEAN : DeleteLink(i, p, junk)
  BY <1>2, <1>5, <1>8, DeleteLinkBlocks
<1>9. CASE m.op = "Link" /\ CreateLink(old, p, n)
  BY <1>2, <1>5, <1>9, CreateLinkBlocks
<1> QED BY <1>4, <1>6, <1>7, <1>8, <1>9

LEMMA ServeFileBlocks ==
  ASSUME ClientsInv, BlockInv, NEW c \in Clients, status = "up", call[c].stage = "request",
         ServeFile(c, call[c])
  PROVE  BlockInv'
<1>1. PICK f : f = files[c][call[c].fd]
  OBVIOUS
<1>2. PICK i, pos, reuse : i = f.inum /\ pos = f.pos /\ reuse = f.reuse
  OBVIOUS
<1>3. PICK size \in Lengths :
        /\ call[c].op \in OnFiles
        /\ ReadFile(i, pos, size, reuse) \/ WriteFile(i, pos, size, reuse)
  BY <1>1, <1>2 DEF ServeFile, OnFiles
<1>4. i \in Inodes /\ pos \in Nat /\ size \in Nat
  BY <1>1, <1>2, <1>3, FileFacts, BoundsAssumption
<1>5. CASE ReadFile(i, pos, size, reuse)
  <2>1. Halt("aborted") \/ Refuse
    BY <1>5 DEF ReadFile
  <2> QED BY <2>1, HaltBlocks, RefuseBlocks DEF Refuse, Stops
<1>6. CASE WriteFile(i, pos, size, reuse)
  BY <1>4, <1>6, StillWorkable, WriteBlocks
<1> QED BY <1>3, <1>5, <1>6

LEMMA NextClientsBlocks ==
  ASSUME ClientsInv, BlockInv, [ClientsNext]_cvars
  PROVE  BlockInv'
<1>1. CASE UNCHANGED cvars
  BY <1>1, QuietBlocks DEF cvars
<1>2. ASSUME NEW c \in Clients, Begin(c) \/ Close(c) \/ Walk(c) \/ Broken(c)
      PROVE  BlockInv'
  <2>1. UNCHANGED vars
    BY <1>2 DEF Begin, Close, Walk, Broken
  <2> QED BY <2>1, QuietBlocks DEF vars
<1>3. ASSUME NEW c \in Clients, Serve(c)
      PROVE  BlockInv'
  <2>1. status = "up" /\ call[c].stage = "request"
    BY <1>3 DEF Serve
  <2>2. CASE ServeSeek(c, call[c]) \/ ServeShutdown(c, call[c])
    BY <2>2, QuietBlocks DEF ServeSeek, ServeShutdown, vars
  <2> QED BY <1>3, <2>1, <2>2, ServeNamesBlocks, ServeFileBlocks DEF Serve
<1> QED BY <1>1, <1>2, <1>3 DEF ClientsNext

\* Whatever became of the files and directories that a request names since its
\* client found them, no block of data has two owners, or is offered by the
\* list of free blocks while it has one: what a late CreateFile truncates, a
\* late DeleteLink or DeleteDir gives back and a late Write adds are blocks that
\* are no other inode's (yfs.c:289-346, 473-533, 595-673, 872-979, 1010-1177).
THEOREM BlocksStayExclusive == ClientsSpec => []BlocksExclusive
<1>1. ClientsInit => BlockInv
  BY InitBlocks DEF ClientsInit
<1>2. ClientsInv /\ BlockInv /\ [ClientsNext]_cvars => BlockInv'
  BY NextClientsBlocks
<1>3. ClientsInv /\ BlockInv => BlocksExclusive
  BY ExclusiveByPointers DEF ClientsInv, ServerTypes
<1> QED BY <1>1, <1>2, <1>3, ClientsInvariant, PTL DEF ClientsSpec
-----------------------------------------------------------------------------
(* What ParsePath makes of a pathname.                                     *)

Rooted(path) == path[1] = Slash

\* The runs that end in front of the k-th character.
Ended(path, k) == { r \in RunsOf(path) : r[2] < k }

\* The components of a slash in front.
Front(path) == IF Rooted(path) THEN 1 ELSE 0

\* After the k-th character, the components are the slash in front and the
\* names of the runs that have ended, each in its place.
InPlace(path, k, names) ==
  /\ IsFiniteSet(Ended(path, k))
  /\ names \in Seq(Seq(Characters))
  /\ Len(names) = Front(path) + Cardinality(Ended(path, k))
  /\ Rooted(path) => names[1] = RootName
  /\ \A r \in Ended(path, k) :
       /\ Place(RunsOf(path), r) \in 1 .. Cardinality(Ended(path, k))
       /\ names[Front(path) + Place(RunsOf(path), r)] = NameOf(path, r)
  /\ \A n \in 1 .. Cardinality(Ended(path, k)) :
       \E r \in Ended(path, k) : Place(RunsOf(path), r) = n

\* The characters from start to k are of one run, of which none is before start.
InRun(path, start, k) ==
  /\ start \in 1 .. k /\ \A j \in start .. k : path[j] # Slash
  /\ start = 1 \/ path[start - 1] = Slash

\* The loop invariant of ParsePath.
ReadTo(path, k, state) ==
  /\ state = [components |-> state.components, found |-> state.found, start |-> state.start]
  /\ InPlace(path, k, state.components)
  /\ state.found \in BOOLEAN /\ (state.found <=> path[k] = Slash)
  /\ ~state.found => InRun(path, state.start, k)

\* The name of a run is a name, and it is not the root's.
LEMMA NameIsName ==
  ASSUME NEW path \in Seq(Characters), NEW r, r[1] \in 1 .. Len(path), r[2] \in 1 .. Len(path),
         r[1] <= r[2], path[r[1]] # Slash
  PROVE  NameOf(path, r) \in Seq(Characters) /\ NameOf(path, r) # RootName
<1>0. Len(path) \in Nat /\ NameLength \in Nat
  BY LenProperties, LengthsAssumption
<1> DEFINE a == r[1]
           b == IF r[2] - r[1] < NameLength THEN r[2] ELSE r[1] + NameLength - 1
<1>1. a \in Int /\ b \in Int /\ a >= 1 /\ b <= Len(path)
  BY <1>0
<1>2. NameOf(path, r) = SubSeq(path, a, b)
  BY DEF NameOf
<1>3. path[a] # Slash
  OBVIOUS
<1> HIDE DEF a, b
<1>4. \A j \in a .. b : path[j] \in Characters
  <2> TAKE j \in a .. b
  <2>1. j \in 1 .. Len(path)
    BY <1>0, <1>1
  <2> QED BY <2>1, ElementOfSeq
<1>5. /\ SubSeq(path, a, b) \in Seq(Characters)
      /\ Len(SubSeq(path, a, b)) = IF a <= b THEN b - a + 1 ELSE 0
      /\ \A i \in 1 .. b - a + 1 : SubSeq(path, a, b)[i] = path[a + i - 1]
  BY <1>1, <1>4, SubSeqProperties
<1>6. PICK name : name = SubSeq(path, a, b)
  OBVIOUS
<1>7. name # RootName
  <2> SUFFICES ASSUME name = RootName PROVE FALSE
    OBVIOUS
  <2>1. Len(name) = 1 /\ name[1] = Slash
    BY DEF RootName
  <2>2. Len(name) = IF a <= b THEN b - a + 1 ELSE 0
    BY <1>5, <1>6
  <2>3. a <= b /\ 1 \in 1 .. b - a + 1
    <3>1. CASE a <= b
      BY <1>1, <3>1
    <3>2. CASE ~(a <= b)
      BY <2>1, <2>2, <3>2
    <3> QED BY <3>1, <3>2
  <2>4. name[1] = path[a + 1 - 1] /\ a + 1 - 1 = a
    BY <1>1, <1>5, <1>6, <2>3
  <2> QED BY <1>3, <2>1, <2>4
<1> QED BY <1>2, <1>5, <1>6, <1>7

LEMMA RunFacts ==
  ASSUME NEW path \in Seq(Characters), NEW r \in RunsOf(path)
  PROVE  /\ r[1] \in 1 .. Len(path) /\ r[2] \in 1 .. Len(path) /\ r = <<r[1], r[2]>>
         /\ r[1] <= r[2] /\ \A k \in r[1] .. r[2] : path[k] # Slash
         /\ r[1] = 1 \/ path[r[1] - 1] = Slash
         /\ r[2] = Len(path) \/ path[r[2] + 1] = Slash
  BY DEF RunsOf

\* Nothing ends where a slash follows a slash, and none where a run goes on.
LEMMA NoneEnds ==
  ASSUME NEW path \in Seq(Characters), NEW k \in 2 .. Len(path), path[k - 1] = Slash \/ path[k] # Slash
  PROVE  Ended(path, k) = Ended(path, k - 1)
<1>0. Len(path) \in Nat
  BY LenProperties
<1>1. ASSUME NEW r \in RunsOf(path), r[2] = k - 1
      PROVE  FALSE
  <2>1. r[2] \in r[1] .. r[2] /\ r[2] # Len(path) /\ r[2] + 1 = k
    BY <1>0, <1>1, RunFacts
  <2> QED BY <1>1, <2>1, RunFacts
<1>2. ASSUME NEW r \in RunsOf(path)
      PROVE  r[2] < k <=> r[2] < k - 1
  <2>1. r[2] \in Int /\ r[2] # k - 1
    BY <1>0, <1>1, RunFacts
  <2> QED BY <1>0, <2>1
<1> QED BY <1>2 DEF Ended

\* Where a run ends, it is the one that started last.
LEMMA OneEnds ==
  ASSUME NEW path \in Seq(Characters), NEW k \in 2 .. Len(path) + 1, NEW start,
         InRun(path, start, k - 1), k = Len(path) + 1 \/ path[k] = Slash
  PROVE  /\ <<start, k - 1>> \in RunsOf(path)
         /\ Ended(path, k) = Ended(path, k - 1) \cup {<<start, k - 1>>}
         /\ <<start, k - 1>> \notin Ended(path, k - 1)
         /\ Ended(path, k - 1) = { s \in RunsOf(path) : s[1] < start }
<1>0. Len(path) \in Nat /\ start \in Int /\ start >= 1 /\ start <= k - 1 /\ k \in Int /\ k - 1 <= Len(path)
  BY LenProperties DEF InRun
<1>1. <<start, k - 1>> \in RunsOf(path)
  <2>1. start \in 1 .. Len(path) /\ k - 1 \in 1 .. Len(path) /\ k - 1 + 1 = k
    BY <1>0
  <2>2. k - 1 = Len(path) \/ path[k - 1 + 1] = Slash
    BY <1>0, <2>1
  <2> QED BY <1>0, <2>1, <2>2 DEF RunsOf, InRun
<1>2. ASSUME NEW r \in RunsOf(path)
      PROVE  r[1] < start <=> r[2] < k - 1
  <2>0. /\ r[1] \in Int /\ r[1] >= 1 /\ r[2] \in Int /\ r[2] <= Len(path) /\ r[1] <= r[2]
        /\ \A j \in r[1] .. r[2] : path[j] # Slash
        /\ r[2] = Len(path) \/ path[r[2] + 1] = Slash
    BY <1>0, RunFacts
  <2>1. ASSUME r[1] < start
        PROVE  r[2] < k - 1
    <3>1. path[start - 1] = Slash
      BY <1>0, <2>0, <2>1 DEF InRun
    <3>2. start - 1 \notin r[1] .. r[2]
      BY <2>0, <3>1
    <3> QED BY <1>0, <2>0, <2>1, <3>2
  <2>2. ASSUME r[2] < k - 1, r[1] >= start
        PROVE  FALSE
    <3>1. r[2] + 1 \in start .. k - 1 /\ r[2] # Len(path)
      BY <1>0, <2>0, <2>2
    <3> QED BY <2>0, <3>1 DEF InRun
  <2> QED BY <1>0, <2>0, <2>1, <2>2
<1>3. ASSUME NEW r \in RunsOf(path), r[2] = k - 1
      PROVE  r = <<start, k - 1>>
  <2>0. /\ r[1] \in Int /\ r[1] >= 1 /\ r[1] <= k - 1 /\ r = <<r[1], r[2]>>
        /\ r[1] = 1 \/ path[r[1] - 1] = Slash
    BY <1>0, <1>3, RunFacts
  <2>1. ~(r[1] < start)
    BY <1>0, <1>2, <1>3
  <2>2. ~(r[1] > start)
    <3> SUFFICES ASSUME r[1] > start PROVE FALSE
      OBVIOUS
    <3>1. r[1] - 1 \in start .. k - 1 /\ r[1] # 1
      BY <1>0, <2>0
    <3> QED BY <2>0, <3>1 DEF InRun
  <2>3. r[1] = start
    BY <1>0, <2>0, <2>1, <2>2
  <2> QED BY <1>3, <2>0, <2>3
<1>4. ASSUME NEW r \in RunsOf(path)
      PROVE  r[2] < k <=> r[2] < k - 1 \/ r = <<start, k - 1>>
  <2>1. r[2] \in Int
    BY <1>0, RunFacts
  <2>2. <<start, k - 1>>[2] = k - 1
    OBVIOUS
  <2> QED BY <1>0, <1>3, <2>1, <2>2
<1>5. Ended(path, k) = Ended(path, k - 1) \cup {<<start, k - 1>>}
  BY <1>1, <1>4 DEF Ended
<1>6. <<start, k - 1>> \notin Ended(path, k - 1)
  BY <1>0 DEF Ended
<1>7. Ended(path, k - 1) = { s \in RunsOf(path) : s[1] < start }
  BY <1>2 DEF Ended
<1> QED BY <1>1, <1>5, <1>6, <1>7

\* The name that the code takes is that of the run.
LEMMA NameTaken ==
  ASSUME NEW path, NEW start \in Int, NEW k \in Int
  PROVE  SetDirectoryName(path, start, k) = NameOf(path, <<start, k - 1>>)
<1>1. NameLength \in Nat
  BY LengthsAssumption
<1>2. (k - start > NameLength) <=> ~(k - 1 - start < NameLength)
  BY <1>1
<1> QED BY <1>2 DEF SetDirectoryName, NameOf

LEMMA NoneEnded ==
  ASSUME NEW path \in Seq(Characters)
  PROVE  Ended(path, 1) = {}
<1>1. ASSUME NEW r \in RunsOf(path)
      PROVE  ~(r[2] < 1)
  <2>1. r[2] \in 1 .. Len(path) /\ Len(path) \in Nat
    BY RunFacts, LenProperties
  <2> QED BY <2>1
<1> QED BY <1>1 DEF Ended

\* The name of the run that ends takes its place behind the others.
LEMMA ListsMore ==
  ASSUME NEW path \in Seq(Characters), NEW k \in 2 .. Len(path) + 1, NEW start,
         InRun(path, start, k - 1), k = Len(path) + 1 \/ path[k] = Slash,
         NEW names, InPlace(path, k - 1, names)
  PROVE  InPlace(path, k, Append(names, SetDirectoryName(path, start, k)))
<1> DEFINE run == <<start, k - 1>>
           runs == RunsOf(path)
           name == NameOf(path, run)
<1>1. PICK old : old = Ended(path, k - 1)
  OBVIOUS
<1>2. PICK new : new = Ended(path, k)
  OBVIOUS
<1>3. PICK front : front = Front(path)
  OBVIOUS
<1>4. /\ run \in runs /\ new = old \cup {run} /\ run \notin old
      /\ old = { s \in runs : s[1] < start } /\ run[1] = start
  BY <1>1, <1>2, OneEnds
<1>5. Len(path) \in Nat /\ start \in Int /\ k \in Int
  BY LenProperties DEF InRun
<1>6. SetDirectoryName(path, start, k) = name
  BY <1>5, NameTaken
<1>7. name \in Seq(Characters)
  BY <1>4, RunFacts, NameIsName
<1>8. PICK n : n = Cardinality(old)
  OBVIOUS
<1>9. PICK more : more = Append(names, name)
  OBVIOUS
<1>10. /\ IsFiniteSet(old) /\ names \in Seq(Seq(Characters)) /\ Len(names) = front + n
       /\ Rooted(path) => names[1] = RootName
       /\ \A r \in old : Place(runs, r) \in 1 .. n /\ names[front + Place(runs, r)] = NameOf(path, r)
       /\ \A p \in 1 .. n : \E r \in old : Place(runs, r) = p
  BY <1>1, <1>3, <1>8 DEF InPlace
<1>11. n \in Nat /\ IsFiniteSet(new) /\ Cardinality(new) = n + 1
  BY <1>4, <1>8, <1>10, FS_CardinalityType, FS_AddElement
<1>12. Place(runs, run) = n + 1
  BY <1>4, <1>8 DEF Place
<1>13. front \in {0, 1} /\ (Rooted(path) => front = 1)
  BY <1>3 DEF Front
<1> HIDE DEF run, runs, name
<1>14. /\ more \in Seq(Seq(Characters)) /\ Len(more) = front + (n + 1)
       /\ \A j \in 1 .. front + n : more[j] = names[j]
       /\ more[front + (n + 1)] = name
  <2>1. /\ more \in Seq(Seq(Characters)) /\ Len(more) = Len(names) + 1
        /\ \A j \in 1 .. Len(names) : more[j] = names[j]
        /\ more[Len(names) + 1] = name
    BY <1>7, <1>9, <1>10, AppendProperties
  <2>2. front + n + 1 = front + (n + 1)
    BY <1>11, <1>13
  <2> QED BY <1>10, <2>1, <2>2
<1>15. Rooted(path) => more[1] = RootName
  BY <1>10, <1>11, <1>13, <1>14
<1>16. ASSUME NEW r \in new
       PROVE  Place(runs, r) \in 1 .. n + 1 /\ more[front + Place(runs, r)] = NameOf(path, r)
  <2>1. CASE r \in old
    <3>1. PICK p : p = Place(runs, r)
      OBVIOUS
    <3>2. p \in 1 .. n /\ names[front + p] = NameOf(path, r)
      BY <1>10, <2>1, <3>1
    <3>3. front + p \in 1 .. front + n /\ p \in 1 .. n + 1
      BY <1>11, <1>13, <3>2
    <3> QED BY <1>14, <3>1, <3>2, <3>3
  <2>2. CASE r = run
    <3>1. n + 1 \in 1 .. n + 1
      BY <1>11
    <3> QED BY <1>12, <1>14, <2>2, <3>1 DEF name
  <2> QED BY <1>4, <2>1, <2>2
<1>17. ASSUME NEW p \in 1 .. n + 1
       PROVE  \E r \in new : Place(runs, r) = p
  <2>1. p \in 1 .. n \/ p = n + 1
    BY <1>11
  <2> QED BY <1>4, <1>10, <1>12, <2>1
<1>18. InPlace(path, k, more)
  BY <1>2, <1>3, <1>11, <1>14, <1>15, <1>16, <1>17 DEF InPlace, runs
<1> QED BY <1>6, <1>9, <1>18

\* One round of the loop.
LEMMA ReadsOne ==
  ASSUME NEW path \in Seq(Characters), NEW k \in 2 .. Len(path),
         NEW state, ReadTo(path, k - 1, state)
  PROVE  ReadTo(path, k, ParseCharacter(path, state, k))
<1>0. Len(path) \in Nat /\ k \in Int /\ k - 1 >= 1 /\ k \in 2 .. Len(path) + 1
  BY LenProperties
<1>1. PICK names, found, start :
        /\ state = [components |-> names, found |-> found, start |-> start]
        /\ InPlace(path, k - 1, names) /\ found \in BOOLEAN /\ (found <=> path[k - 1] = Slash)
        /\ ~found => InRun(path, start, k - 1)
  BY DEF ReadTo
<1>2. state.found = found /\ state.components = names /\ state.start = start
  BY <1>1
<1>3. CASE ~found /\ path[k] = Slash
  <2> DEFINE more == Append(names, SetDirectoryName(path, start, k))
  <2>1. InPlace(path, k, more)
    BY <1>0, <1>1, <1>3, ListsMore
  <2>2. ParseCharacter(path, state, k) = [components |-> more, found |-> TRUE, start |-> start]
    BY <1>1, <1>3 DEF ParseCharacter
  <2> HIDE DEF more
  <2> QED BY <1>3, <2>1, <2>2 DEF ReadTo
<1>4. CASE found /\ path[k] # Slash
  <2>1. InPlace(path, k, names)
    BY <1>1, <1>4, NoneEnds DEF InPlace
  <2>2. InRun(path, k, k)
    BY <1>0, <1>1, <1>4 DEF InRun
  <2>3. ParseCharacter(path, state, k) = [components |-> names, found |-> FALSE, start |-> k]
    BY <1>1, <1>4 DEF ParseCharacter
  <2> QED BY <1>4, <2>1, <2>2, <2>3 DEF ReadTo
<1>5. CASE (found <=> path[k] = Slash)
  <2>1. InPlace(path, k, names)
    BY <1>1, <1>5, NoneEnds DEF InPlace
  <2>2. ~found => InRun(path, start, k)
    <3> SUFFICES ASSUME ~found PROVE InRun(path, start, k)
      OBVIOUS
    <3>1. InRun(path, start, k - 1)
      BY <1>1
    <3>2. start \in 1 .. k /\ \A j \in start .. k : j \in start .. k - 1 \/ j = k
      BY <1>0, <3>1 DEF InRun
    <3> QED BY <1>5, <3>1, <3>2 DEF InRun
  <2>3. ParseCharacter(path, state, k) = state
    BY <1>2, <1>5 DEF ParseCharacter
  <2> QED BY <1>1, <1>2, <1>5, <2>1, <2>2, <2>3 DEF ReadTo
<1> QED BY <1>1, <1>3, <1>4, <1>5

\* after[k] is the state of the loop when it has read k characters.
IsRead(path, n, after) ==
  after = [k \in 0 .. n |->
             IF k = 0
             THEN IF path # <<>> /\ path[1] = Slash
                  THEN [components |-> <<RootName>>, found |-> TRUE, start |-> 2]
                  ELSE [components |-> <<>>, found |-> FALSE, start |-> 1]
             ELSE ParseCharacter(path, after[k - 1], k)]

LEMMA ReadExists ==
  ASSUME NEW path, NEW n \in Nat
  PROVE  \E after : IsRead(path, n, after)
<1> DEFINE Bad == { m \in Nat : ~ \E f : IsRead(path, m, f) }
           first == IF path # <<>> /\ path[1] = Slash
                    THEN [components |-> <<RootName>>, found |-> TRUE, start |-> 2]
                    ELSE [components |-> <<>>, found |-> FALSE, start |-> 1]
<1> SUFFICES ASSUME Bad # {} PROVE FALSE
  OBVIOUS
<1>1. PICK m \in Bad : \A j \in Bad : m <= j
  <2>1. Bad \in SUBSET Nat
    OBVIOUS
  <2> HIDE DEF Bad
  <2> QED BY <2>1, LeastElement
<1>2. m \in Nat
  OBVIOUS
<1>3. m # 0
  <2> DEFINE f == [j \in 0 .. 0 |-> first]
  <2>1. IsRead(path, 0, f)
    BY DEF IsRead
  <2> QED BY <2>1
<1>4. m - 1 \in Nat /\ m - 1 \notin Bad
  BY <1>1, <1>2, <1>3
<1>5. PICK f : IsRead(path, m - 1, f)
  BY <1>4
<1> DEFINE g == [j \in 0 .. m |-> IF j < m THEN f[j] ELSE ParseCharacter(path, f[m - 1], m)]
<1>6. ASSUME NEW j \in 0 .. m
      PROVE  g[j] = IF j = 0 THEN first ELSE ParseCharacter(path, g[j - 1], j)
  <2>1. CASE j = m
    <3>1. m - 1 \in 0 .. m /\ m - 1 < m /\ m \in 0 .. m /\ ~(m < m)
      BY <1>2, <1>3
    <3>2. g[m] = ParseCharacter(path, f[m - 1], m) /\ g[m - 1] = f[m - 1]
      BY <3>1
    <3> HIDE DEF g, first
    <3> QED BY <1>3, <2>1, <3>2
  <2>2. CASE j # m
    <3>1. j < m /\ j \in 0 .. m - 1
      BY <1>2, <2>2
    <3>2. f[j] = IF j = 0 THEN first ELSE ParseCharacter(path, f[j - 1], j)
      BY <1>5, <3>1 DEF IsRead
    <3> HIDE DEF first
    <3>3. g[j] = f[j]
      BY <3>1
    <3>4. j # 0 => g[j - 1] = f[j - 1]
      <4> SUFFICES ASSUME j # 0 PROVE g[j - 1] = f[j - 1]
        OBVIOUS
      <4>1. j - 1 \in 0 .. m /\ j - 1 < m
        BY <1>2, <3>1
      <4> QED BY <4>1
    <3> HIDE DEF g
    <3> QED BY <3>2, <3>3, <3>4
  <2> QED BY <2>1, <2>2
<1>7. IsRead(path, m, g)
  <2>1. g = [j \in 0 .. m |-> g[j]]
    OBVIOUS
  <2> HIDE DEF g
  <2> QED BY <1>6, <2>1 DEF IsRead
<1> QED BY <1>2, <1>7

LEMMA ReadAll ==
  ASSUME NEW path \in Seq(Characters) \ {<<>>}
  PROVE  ReadTo(path, Len(path), ParseCharacters(path))
<1>0. Len(path) \in Nat /\ Len(path) >= 1
  BY EmptySeq
<1> DEFINE after == CHOOSE f : IsRead(path, Len(path), f)
<1>1. IsRead(path, Len(path), after)
  BY <1>0, ReadExists
<1>2. ParseCharacters(path) = after[Len(path)]
  BY DEF ParseCharacters, IsRead
<1> HIDE DEF after
<1>3. ASSUME NEW k \in 1 .. Len(path)
      PROVE  after[k] = ParseCharacter(path, after[k - 1], k)
  <2>1. k \in 0 .. Len(path) /\ k # 0
    BY <1>0
  <2> QED BY <1>1, <2>1 DEF IsRead
<1>4. after[0] = IF path[1] = Slash
                 THEN [components |-> <<RootName>>, found |-> TRUE, start |-> 2]
                 ELSE [components |-> <<>>, found |-> FALSE, start |-> 1]
  BY <1>1, <1>0 DEF IsRead
<1>5. ReadTo(path, 1, after[1])
  <2>1. after[1] = ParseCharacter(path, after[0], 1)
    BY <1>0, <1>3
  <2>2. IsFiniteSet(Ended(path, 1)) /\ Cardinality(Ended(path, 1)) = 0 /\ Ended(path, 1) = {}
    BY NoneEnded, FS_EmptySet
  <2>3. CASE path[1] = Slash
    <3>1. after[0] = [components |-> <<RootName>>, found |-> TRUE, start |-> 2]
      BY <1>4, <2>3
    <3>2. after[1] = [components |-> <<RootName>>, found |-> TRUE, start |-> 2]
      BY <2>1, <2>3, <3>1 DEF ParseCharacter
    <3>3. RootName \in Seq(Characters)
      BY DEF RootName, Characters
    <3>4. PICK names : names = <<RootName>>
      OBVIOUS
    <3>5. names \in Seq(Seq(Characters)) /\ Len(names) = 1 /\ names[1] = RootName
      BY <3>3, <3>4
    <3>6. InPlace(path, 1, names)
      BY <2>2, <2>3, <3>5 DEF InPlace, Front, Rooted
    <3> QED BY <2>3, <3>2, <3>4, <3>6 DEF ReadTo
  <2>4. CASE path[1] # Slash
    <3>1. after[0] = [components |-> <<>>, found |-> FALSE, start |-> 1]
      BY <1>4, <2>4
    <3>2. after[1] = [components |-> <<>>, found |-> FALSE, start |-> 1]
      BY <2>1, <2>4, <3>1 DEF ParseCharacter
    <3>3. PICK names : names = <<>>
      OBVIOUS
    <3>4. names \in Seq(Seq(Characters)) /\ Len(names) = 0
      BY <3>3, EmptySeq
    <3>5. InPlace(path, 1, names)
      BY <2>2, <2>4, <3>4 DEF InPlace, Front, Rooted
    <3>6. InRun(path, 1, 1)
      BY <2>4 DEF InRun
    <3> QED BY <2>4, <3>2, <3>3, <3>5, <3>6 DEF ReadTo
  <2> QED BY <2>3, <2>4
<1> DEFINE Bad == { k \in Nat : k \in 1 .. Len(path) /\ ~ReadTo(path, k, after[k]) }
<1>6. Bad = {}
  <2> SUFFICES ASSUME Bad # {} PROVE FALSE
    OBVIOUS
  <2>1. PICK k \in Bad : \A j \in Bad : k <= j
    <3>1. Bad \in SUBSET Nat
      OBVIOUS
    <3> HIDE DEF Bad
    <3> QED BY <3>1, LeastElement
  <2>2. k \in 2 .. Len(path)
    BY <1>0, <1>5, <2>1
  <2>3. k - 1 \in 1 .. Len(path) /\ k - 1 \in Nat /\ ~(k <= k - 1) /\ k \in 1 .. Len(path)
    BY <1>0, <2>2
  <2>4. ReadTo(path, k - 1, after[k - 1])
    BY <2>1, <2>3
  <2>5. ReadTo(path, k, after[k])
    BY <1>3, <2>2, <2>3, <2>4, ReadsOne
  <2> QED BY <2>1, <2>5
<1>7. Len(path) \in 1 .. Len(path) /\ Len(path) \notin Bad
  BY <1>0, <1>6
<1> QED BY <1>0, <1>2, <1>7

\* At the end every run has ended.
LEMMA AllEnd ==
  ASSUME NEW path \in Seq(Characters)
  PROVE  Ended(path, Len(path) + 1) = RunsOf(path)
<1>1. ASSUME NEW r \in RunsOf(path)
      PROVE  r[2] < Len(path) + 1
  <2>1. Len(path) \in Nat /\ r[2] \in 1 .. Len(path)
    BY LenProperties, RunFacts
  <2> QED BY <2>1
<1> QED BY <1>1 DEF Ended

LEMMA AllEndedAtSlash ==
  ASSUME NEW path \in Seq(Characters), path[Len(path)] = Slash
  PROVE  Ended(path, Len(path)) = RunsOf(path)
<1>1. ASSUME NEW r \in RunsOf(path)
      PROVE  r[2] < Len(path)
  <2>1. Len(path) \in Nat /\ r[2] \in 1 .. Len(path) /\ r[2] \in r[1] .. r[2]
    BY LenProperties, RunFacts
  <2>2. r[2] # Len(path)
    BY <2>1, RunFacts
  <2> QED BY <2>1, <2>2
<1> QED BY <1>1 DEF Ended

\* The names of all runs, in order.
RunNames(path) ==
  [n \in 1 .. Cardinality(RunsOf(path)) |->
     NameOf(path, CHOOSE r \in RunsOf(path) : Place(RunsOf(path), r) = n)]

LEMMA NamesAreRunNames ==
  ASSUME NEW path
  PROVE  NamesIn(path) = RunNames(path) \o (IF path[Len(path)] = Slash THEN <<DotName>> ELSE <<>>)
  BY DEF NamesIn, RunNames

\* A list of all is the slash in front and the names of the runs.
LEMMA ListOfAll ==
  ASSUME NEW path \in Seq(Characters), NEW k, Ended(path, k) = RunsOf(path),
         NEW names, InPlace(path, k, names)
  PROVE  /\ RunNames(path) \in Seq(Seq(Characters))
         /\ names = (IF Rooted(path) THEN <<RootName>> ELSE <<>>) \o RunNames(path)
<1>1. PICK runs : runs = RunsOf(path)
  OBVIOUS
<1>2. PICK front : front = Front(path)
  OBVIOUS
<1>3. PICK n : n = Cardinality(runs)
  OBVIOUS
<1>4. /\ IsFiniteSet(runs) /\ names \in Seq(Seq(Characters)) /\ Len(names) = front + n
      /\ Rooted(path) => names[1] = RootName
      /\ \A r \in runs : names[front + Place(runs, r)] = NameOf(path, r)
      /\ \A p \in 1 .. n : \E r \in runs : Place(runs, r) = p
  BY <1>1, <1>2, <1>3 DEF InPlace
<1>5. n \in Nat /\ front \in {0, 1}
  BY <1>2, <1>3, <1>4, FS_CardinalityType DEF Front
<1>6. PICK list : list = RunNames(path)
  OBVIOUS
<1>7. ASSUME NEW p \in 1 .. n
      PROVE  list[p] \in Seq(Characters) /\ names[front + p] = list[p]
  <2> DEFINE r == CHOOSE q \in runs : Place(runs, q) = p
  <2>1. r \in runs /\ Place(runs, r) = p
    BY <1>4
  <2>2. list[p] = NameOf(path, r)
    BY <1>1, <1>3, <1>6 DEF RunNames
  <2> HIDE DEF r
  <2>3. names[front + p] = NameOf(path, r)
    BY <1>4, <2>1
  <2>4. front + p \in 1 .. Len(names)
    BY <1>4, <1>5
  <2>5. names[front + p] \in Seq(Characters)
    BY <1>4, <2>4, ElementOfSeq
  <2> QED BY <2>2, <2>3, <2>5
<1>8. list \in [1 .. n -> Seq(Characters)]
  <2>1. list = [p \in 1 .. n |-> list[p]]
    BY <1>1, <1>3, <1>6 DEF RunNames
  <2> QED BY <1>7, <2>1
<1>9. list \in Seq(Seq(Characters)) /\ Len(list) = n
  BY <1>5, <1>8
<1>10. PICK slash : slash = IF Rooted(path) THEN <<RootName>> ELSE <<>>
  OBVIOUS
<1>11. /\ slash \in Seq(Seq(Characters)) /\ Len(slash) = front
       /\ front = 1 => slash[1] = RootName /\ Rooted(path)
  <2>1. RootName \in Seq(Characters)
    BY DEF RootName, Characters
  <2>2. CASE Rooted(path)
    BY <1>2, <1>10, <2>1, <2>2 DEF Front
  <2>3. CASE ~Rooted(path)
    BY <1>2, <1>10, <2>3, EmptySeq DEF Front
  <2> QED BY <2>2, <2>3
<1>12. PICK both : both = slash \o list
  OBVIOUS
<1>13. /\ both \in Seq(Seq(Characters)) /\ Len(both) = front + n
       /\ \A i \in 1 .. front + n : both[i] = IF i <= front THEN slash[i] ELSE list[i - front]
  BY <1>9, <1>11, <1>12, ConcatProperties
<1>14. ASSUME NEW i \in 1 .. front + n
       PROVE  names[i] = both[i]
  <2>1. CASE i <= front
    <3>1. i = 1 /\ front = 1
      BY <1>5, <2>1
    <3> QED BY <1>4, <1>11, <1>13, <2>1, <3>1
  <2>2. CASE ~(i <= front)
    <3>1. i - front \in 1 .. n /\ front + (i - front) = i
      BY <1>5, <2>2
    <3>2. names[i] = list[i - front]
      BY <1>7, <3>1
    <3> QED BY <1>13, <2>2, <3>2
  <2> QED BY <2>1, <2>2
<1>15. names = both
  BY <1>4, <1>13, <1>14, SeqEqual
<1> QED BY <1>6, <1>9, <1>10, <1>12, <1>15

\* A name behind the last slash is in progress: its run is the last to end.
LEMMA ParsedList ==
  ASSUME NEW path \in Seq(Characters) \ {<<>>}
  PROVE  ParsePath(path) = (IF Rooted(path) THEN <<RootName>> ELSE <<>>) \o NamesIn(path)
<1>0. Len(path) \in Nat /\ Len(path) >= 1
  BY EmptySeq
<1>1. PICK names, found, start :
        /\ ParseCharacters(path) = [components |-> names, found |-> found, start |-> start]
        /\ InPlace(path, Len(path), names) /\ found \in BOOLEAN
        /\ found <=> path[Len(path)] = Slash
        /\ ~found => InRun(path, start, Len(path))
  BY ReadAll DEF ReadTo
<1> DEFINE slash == IF Rooted(path) THEN <<RootName>> ELSE <<>>
<1>2. slash \in Seq(Seq(Characters))
  <2>1. RootName \in Seq(Characters)
    BY DEF RootName, Characters
  <2> QED BY <2>1, EmptySeq
<1> HIDE DEF slash
<1>3. CASE found
  <2>1. ParsePath(path) = Append(names, DotName)
    BY <1>1, <1>3 DEF ParsePath
  <2>2. RunNames(path) \in Seq(Seq(Characters)) /\ names = slash \o RunNames(path)
    BY <1>1, <1>3, AllEndedAtSlash, ListOfAll DEF slash
  <2>3. names \in Seq(Seq(Characters))
    BY <1>1 DEF InPlace
  <2>4. DotName \in Seq(Characters)
    BY DEF DotName, Characters
  <2>5. Append(names, DotName) = names \o <<DotName>>
    BY <2>3, <2>4, AppendIsConcat
  <2>6. PICK end : end = <<DotName>>
    OBVIOUS
  <2>7. end \in Seq(Seq(Characters))
    BY <2>4, <2>6
  <2>8. (slash \o RunNames(path)) \o end = slash \o (RunNames(path) \o end)
    BY <1>2, <2>2, <2>7, ConcatAssociative
  <2>9. NamesIn(path) = RunNames(path) \o end
    BY <1>1, <1>3, <2>6, NamesAreRunNames
  <2> QED BY <2>1, <2>2, <2>5, <2>6, <2>8, <2>9 DEF slash
<1>4. CASE ~found
  <2> DEFINE k == Len(path) + 1
             more == Append(names, SetDirectoryName(path, start, k))
  <2>1. k \in 2 .. Len(path) + 1 /\ k - 1 = Len(path)
    BY <1>0
  <2>2. ParsePath(path) = more
    BY <1>1, <1>4 DEF ParsePath
  <2>3. InPlace(path, k, more)
    BY <1>1, <1>4, <2>1, ListsMore
  <2>4. Ended(path, k) = RunsOf(path)
    BY AllEnd
  <2> HIDE DEF more, k
  <2>5. RunNames(path) \in Seq(Seq(Characters)) /\ more = slash \o RunNames(path)
    BY <2>3, <2>4, ListOfAll DEF slash
  <2>6. NamesIn(path) = RunNames(path)
    <3>1. NamesIn(path) = RunNames(path) \o <<>>
      BY <1>1, <1>4, NamesAreRunNames
    <3> QED BY <2>5, <3>1, ConcatEmptySeq
  <2> QED BY <2>2, <2>5, <2>6 DEF slash
<1> QED BY <1>1, <1>3, <1>4

\* There is a list of all.
LEMMA ListExists ==
  ASSUME NEW path \in Seq(Characters) \ {<<>>}
  PROVE  \E names, k : Ended(path, k) = RunsOf(path) /\ InPlace(path, k, names)
<1>0. Len(path) \in Nat /\ Len(path) >= 1
  BY EmptySeq
<1>1. PICK names, found, start :
        /\ ParseCharacters(path) = [components |-> names, found |-> found, start |-> start]
        /\ InPlace(path, Len(path), names) /\ found \in BOOLEAN
        /\ found <=> path[Len(path)] = Slash
        /\ ~found => InRun(path, start, Len(path))
  BY ReadAll DEF ReadTo
<1>2. CASE found
  BY <1>1, <1>2, AllEndedAtSlash
<1>3. CASE ~found
  <2>1. Len(path) + 1 \in 2 .. Len(path) + 1 /\ Len(path) + 1 - 1 = Len(path)
    BY <1>0
  <2>2. InPlace(path, Len(path) + 1, Append(names, SetDirectoryName(path, start, Len(path) + 1)))
    BY <1>1, <1>3, <2>1, ListsMore
  <2> QED BY <2>2, AllEnd
<1> QED BY <1>1, <1>2, <1>3

\* A pathname without a slash in front begins with a run.
LEMMA FirstRun ==
  ASSUME NEW path \in Seq(Characters) \ {<<>>}, ~Rooted(path)
  PROVE  RunsOf(path) # {}
<1>0. Len(path) \in Nat /\ Len(path) >= 1
  BY EmptySeq
<1> DEFINE S == { j \in 1 .. Len(path) : j = Len(path) \/ path[j + 1] = Slash }
           m == Least(S)
<1>1. m \in S /\ \A j \in S : m <= j
  <2>1. S \in SUBSET Nat /\ S # {}
    BY <1>0
  <2> HIDE DEF S
  <2> QED BY <2>1, LeastElement
<1>2. m \in 1 .. Len(path) /\ (m = Len(path) \/ path[m + 1] = Slash)
  BY <1>1
<1> HIDE DEF m
<1>3. ASSUME NEW i \in 1 .. m
      PROVE  path[i] # Slash
  <2>1. CASE i = 1
    BY <2>1 DEF Rooted
  <2>2. CASE i # 1
    <3>1. i - 1 \in 1 .. Len(path) /\ ~(m <= i - 1) /\ i - 1 + 1 = i /\ i - 1 # Len(path)
      BY <1>0, <1>2, <2>2
    <3>2. i - 1 \notin S
      BY <1>1, <3>1
    <3> QED BY <3>1, <3>2
  <2> QED BY <2>1, <2>2
<1> HIDE DEF S
<1>4. <<1, m>> \in RunsOf(path)
  BY <1>0, <1>2, <1>3 DEF RunsOf
<1> QED BY <1>4

\* The first name without a slash in front is not the root's.
LEMMA FirstName ==
  ASSUME NEW path \in Seq(Characters) \ {<<>>}
  PROVE  /\ NamesIn(path) \in Seq(Seq(Characters))
         /\ ~Rooted(path) => NamesIn(path) # <<>> /\ NamesIn(path)[1] # RootName
<1>1. PICK names, k : Ended(path, k) = RunsOf(path) /\ InPlace(path, k, names)
  BY ListExists
<1>2. PICK runs, list : runs = RunsOf(path) /\ list = RunNames(path)
  OBVIOUS
<1>3. PICK n : n = Cardinality(runs)
  OBVIOUS
<1>4. list \in Seq(Seq(Characters))
  BY <1>1, <1>2, ListOfAll
<1>5. /\ IsFiniteSet(runs) /\ \A p \in 1 .. n : \E r \in runs : Place(runs, r) = p
  BY <1>1, <1>2, <1>3 DEF InPlace
<1>6. list = [p \in 1 .. n |-> NameOf(path, CHOOSE r \in runs : Place(runs, r) = p)]
  BY <1>2, <1>3 DEF RunNames
<1>7. n \in Nat /\ DOMAIN list = 1 .. n /\ Len(list) = n
  <2>1. n \in Nat
    BY <1>3, <1>5, FS_CardinalityType
  <2> QED BY <1>4, <1>6, <2>1, LenProperties
<1>8. PICK end : end = IF path[Len(path)] = Slash THEN <<DotName>> ELSE <<>>
  OBVIOUS
<1>9. end \in Seq(Seq(Characters)) /\ Len(end) \in Nat
  <2>1. DotName \in Seq(Characters)
    BY DEF DotName, Characters
  <2>2. end \in Seq(Seq(Characters))
    BY <1>8, <2>1, EmptySeq
  <2> QED BY <2>2, LenProperties
<1>10. PICK both : both = list \o end
  OBVIOUS
<1>11. NamesIn(path) = both
  BY <1>2, <1>8, <1>10, NamesAreRunNames
<1>12. /\ both \in Seq(Seq(Characters)) /\ Len(both) = n + Len(end)
       /\ \A i \in 1 .. n + Len(end) : both[i] = IF i <= n THEN list[i] ELSE end[i - n]
  <2>1. /\ list \o end \in Seq(Seq(Characters)) /\ Len(list \o end) = Len(list) + Len(end)
        /\ \A i \in 1 .. Len(list) + Len(end) :
             (list \o end)[i] = IF i <= Len(list) THEN list[i] ELSE end[i - Len(list)]
    BY <1>4, <1>9, ConcatProperties
  <2> QED BY <1>7, <1>10, <2>1
<1>13. ASSUME ~Rooted(path)
       PROVE  both # <<>> /\ both[1] # RootName
  <2>1. n # 0
    <3>1. runs # {}
      BY <1>2, <1>13, FirstRun
    <3> QED BY <1>3, <1>5, <3>1, FS_EmptySet
  <2>2. n >= 1 /\ 1 \in 1 .. n /\ 1 \in 1 .. n + Len(end)
    BY <1>7, <1>9, <2>1
  <2>3. both[1] = list[1] /\ Len(both) # 0
    BY <1>9, <1>12, <2>2
  <2>4. PICK r \in runs : list[1] = NameOf(path, r)
    BY <1>5, <1>6, <2>2
  <2>5. r[1] \in r[1] .. r[2] /\ r[1] \in 1 .. Len(path) /\ r[2] \in 1 .. Len(path) /\ r[1] <= r[2]
    <3>1. r[1] \in 1 .. Len(path) /\ r[2] \in 1 .. Len(path) /\ r[1] <= r[2] /\ Len(path) \in Nat
      BY <1>2, RunFacts, LenProperties
    <3> QED BY <3>1
  <2>6. path[r[1]] # Slash
    BY <1>2, <2>5, RunFacts
  <2>7. NameOf(path, r) # RootName
    BY <2>5, <2>6, NameIsName
  <2>8. both # <<>>
    BY <2>3, EmptySeq
  <2> QED BY <2>3, <2>4, <2>7, <2>8
<1> QED BY <1>11, <1>12, <1>13

\* Without the slash in front, what ParsePath returns is the names between the
\* slashes, whatever number of slashes that is; and it has a slash in front
\* only if the pathname has, for every pathname of any length (path.c:53-99).
THEOREM ParsePathIsNamesIn ==
  ASSUME NEW path \in Seq(Characters) \ {<<>>}
  PROVE  /\ Relative(ParsePath(path)) = NamesIn(path)
         /\ Head(ParsePath(path)) = RootName <=> path[1] = Slash
<1>1. PICK parsed, names : parsed = ParsePath(path) /\ names = NamesIn(path)
  OBVIOUS
<1>2. /\ names \in Seq(Seq(Characters))
      /\ ~Rooted(path) => names # <<>> /\ names[1] # RootName
  BY <1>1, FirstName
<1>3. CASE Rooted(path)
  <2>1. PICK slash : slash = <<RootName>>
    OBVIOUS
  <2>2. slash \in Seq(Seq(Characters)) /\ Len(slash) = 1 /\ slash[1] = RootName
    <3>1. RootName \in Seq(Characters)
      BY DEF RootName, Characters
    <3> QED BY <2>1, <3>1
  <2>3. parsed = slash \o names
    BY <1>1, <1>3, <2>1, ParsedList
  <2>4. Len(names) \in Nat
    BY <1>2, LenProperties
  <2>5. /\ parsed \in Seq(Seq(Characters)) /\ Len(parsed) = 1 + Len(names)
        /\ \A i \in 1 .. 1 + Len(names) :
             parsed[i] = IF i <= 1 THEN slash[i] ELSE names[i - 1]
    <3>1. /\ slash \o names \in Seq(Seq(Characters))
          /\ Len(slash \o names) = Len(slash) + Len(names)
          /\ \A i \in 1 .. Len(slash) + Len(names) : (slash \o names)[i] =
               IF i <= Len(slash) THEN slash[i] ELSE names[i - Len(slash)]
      BY <1>2, <2>2, ConcatProperties
    <3> QED BY <2>2, <2>3, <3>1
  <2>6. parsed[1] = RootName /\ parsed # <<>>
    BY <2>2, <2>4, <2>5, EmptySeq
  <2>7. Head(parsed) = RootName
    BY <2>5, <2>6
  <2>8. /\ Tail(parsed) \in Seq(Seq(Characters)) /\ Len(Tail(parsed)) = Len(parsed) - 1
        /\ \A i \in 1 .. Len(Tail(parsed)) : Tail(parsed)[i] = parsed[i + 1]
    BY <2>5, <2>6, HeadTailProperties
  <2>9. PICK rest : rest = Tail(parsed)
    OBVIOUS
  <2>10. rest \in Seq(Seq(Characters)) /\ Len(rest) = Len(names)
    BY <2>4, <2>5, <2>8, <2>9
  <2>11. ASSUME NEW i \in 1 .. Len(rest) PROVE rest[i] = names[i]
    <3>1. i + 1 \in 1 .. 1 + Len(names) /\ ~(i + 1 <= 1) /\ i + 1 - 1 = i
      BY <2>4, <2>10
    <3>2. rest[i] = parsed[i + 1]
      BY <2>8, <2>9, <2>11
    <3>3. parsed[i + 1] = names[i]
      BY <2>5, <3>1
    <3> QED BY <3>2, <3>3
  <2>12. rest = names
    BY <1>2, <2>10, <2>11, SeqEqual
  <2> QED BY <1>1, <1>3, <2>7, <2>9, <2>12 DEF Relative, Rooted
<1>4. CASE ~Rooted(path)
  <2>1. parsed = <<>> \o names
    BY <1>1, <1>4, ParsedList
  <2>2. parsed = names
    BY <1>2, <2>1, ConcatEmptySeq
  <2>3. Head(names) = names[1]
    BY <1>2, <1>4
  <2> QED BY <1>1, <1>2, <1>4, <2>2, <2>3 DEF Relative, Rooted
<1> QED BY <1>3, <1>4

\* From every current directory, and whatever slashes a pathname has, a call
\* walks from the root or from there along the names between the slashes
\* (path.c:53-99, iolib.c:35-57).
THEOREM EveryPathParses == ClientsSpec => []ParsesAll
<1>1. ParsesAll
  <2>1. ASSUME NEW c \in Clients, NEW path \in Pathnames
        PROVE  LET walk == Walking(c, "Open", ParsePath(path), <<>>, Nil)
               IN /\ walk.at = IF path[1] = Slash THEN Root ELSE cwd[c]
                  /\ walk.todo = NamesIn(path)
    <3>1. path \in Seq(Characters) \ {<<>>}
      <4>1. PICK n \in 1 .. PathLength : path \in [1 .. n -> Characters]
        BY DEF Pathnames
      <4>2. n \in Nat /\ n # 0
        BY <4>1, LengthsAssumption
      <4>3. path \in Seq(Characters) /\ Len(path) = n
        BY <4>1, <4>2
      <4> QED BY <4>2, <4>3, EmptySeq
    <3>2. PICK parsed, none : parsed = ParsePath(path) /\ none = <<>>
      OBVIOUS
    <3>3. Relative(parsed) = NamesIn(path) /\ (Head(parsed) = RootName <=> path[1] = Slash)
      BY <3>1, <3>2, ParsePathIsNamesIn
    <3>4. PICK walk : walk = Walking(c, "Open", parsed, none, Nil)
      OBVIOUS
    <3>5. walk.todo = Relative(parsed) /\ walk.at = StartsAt(c, parsed)
      BY <3>4 DEF Walking, Idle
    <3> QED BY <3>2, <3>3, <3>4, <3>5 DEF StartsAt
  <2> QED BY <2>1 DEF ParsesAll
<1> QED BY <1>1, PTL
=============================================================================
