--------------------------- MODULE StorageProofs ---------------------------
(***************************************************************************)
(* Proofs about Storage, for any volumes, any tree of directories and any  *)
(* number of changes and faults.                                           *)
(***************************************************************************)
EXTENDS Storage, TextStoreProofs

-----------------------------------------------------------------------------
(* The calls that wait *)

LEMMA CallKinds ==
  /\ \A p \in Path : {On("write", p), On("verify", p), On("read", p)} \subseteq Call
  /\ \A d \in Range(Dirs) : {On("ensure", d), On("exists", d), On("list", d)} \subseteq Call
  /\ \A op \in {"select", "selected", "accept", "finish", "log", "show", "mismatch"} :
       Simple(op) \in Call
  BY DEF Call, On, Simple

LEMMA DirsAreNamed ==
  /\ Len(Dirs) \in Nat /\ DOMAIN Dirs = 1..Len(Dirs)
  /\ \A i \in 1..Len(Dirs) : Dirs[i] \in Range(Dirs)
  /\ \A d \in Range(Dirs) : \E i \in 1..Len(Dirs) : d = Dirs[i]
  BY TreeAssumption, LenProperties DEF Range

\* storage_tree_repair and storage_tree_check, call by call.
LEMMA TreeCalls ==
  /\ Repair \in Seq(Call) /\ Len(Repair) = Len(Dirs)
  /\ \A i \in 1..Len(Dirs) : Repair[i] = On("ensure", Dirs[i])
  /\ Check \in Seq(Call) /\ Len(Check) = Len(Dirs)
  /\ \A i \in 1..Len(Dirs) : Check[i] = On("exists", Dirs[i])
  <1>1. \A i \in 1..Len(Dirs) : On("ensure", Dirs[i]) \in Call /\ On("exists", Dirs[i]) \in Call
    BY CallKinds, DirsAreNamed
  <1>2. /\ Repair = [i \in 1..Len(Dirs) |-> On("ensure", Dirs[i])]
        /\ Check = [i \in 1..Len(Dirs) |-> On("exists", Dirs[i])]
    BY DirsAreNamed DEF Repair, Check
  <1>3. Len(Dirs) \in Nat
    BY DirsAreNamed
  <1> HIDE DEF Call, On
  <1> QED
    BY <1>1, <1>2, <1>3

LEMMA TrialCalls ==
  /\ Trial \in Seq(Call) /\ Len(Trial) = Len(Dirs) + 3
  /\ \A i \in 1..Len(Dirs) : Trial[i] = On("ensure", Dirs[i])
  /\ Trial[Len(Dirs) + 1] = On("write", "probe")
  /\ Trial[Len(Dirs) + 2] = On("verify", "probe")
  /\ Trial[Len(Dirs) + 3] = Simple("selected")
  <1> DEFINE rest == <<On("write", "probe"), On("verify", "probe"), Simple("selected")>>
  <1>1. rest \in Seq(Call) /\ Len(rest) = 3
    BY CallKinds DEF Path
  <1>2. Len(Dirs) \in Nat
    BY DirsAreNamed
  <1>3. Trial = Repair \o rest
    BY DEF Trial
  <1>4. rest[1] = On("write", "probe") /\ rest[2] = On("verify", "probe")
          /\ rest[3] = Simple("selected")
    OBVIOUS
  <1> HIDE DEF rest
  <1>5. Repair \in Seq(Call) /\ rest \in Seq(Call)
    BY <1>1, TreeCalls
  <1>6. /\ Repair \o rest \in Seq(Call) /\ Len(Repair \o rest) = Len(Repair) + Len(rest)
        /\ \A i \in 1..Len(Repair) : (Repair \o rest)[i] = Repair[i]
        /\ \A i \in 1..Len(rest) : (Repair \o rest)[Len(Repair) + i] = rest[i]
    BY <1>5, ConcatElements
  <1> QED
    BY <1>1, <1>2, <1>3, <1>4, <1>6, TreeCalls

LEMMA BootstrapCalls ==
  /\ Bootstrap \in Seq(Call) /\ Len(Bootstrap) = 2 * Len(Dirs) + 3
  /\ \A i \in 1..Len(Dirs) : Bootstrap[i] = On("ensure", Dirs[i])
  /\ \A i \in 1..Len(Dirs) : Bootstrap[Len(Dirs) + i] = On("exists", Dirs[i])
  /\ Bootstrap[2 * Len(Dirs) + 1] = On("write", "marker")
  /\ Bootstrap[2 * Len(Dirs) + 2] = On("verify", "marker")
  /\ Bootstrap[2 * Len(Dirs) + 3] = Simple("accept")
  <1> DEFINE rest == <<On("write", "marker"), On("verify", "marker"), Simple("accept")>>
             both == Repair \o Check
  <1>1. rest \in Seq(Call) /\ Len(rest) = 3
    BY CallKinds DEF Path
  <1>2. Len(Dirs) \in Nat
    BY DirsAreNamed
  <1>3. Bootstrap = both \o rest
    BY TreeCalls, <1>1, ConcatAssociative DEF Bootstrap
  <1>4. rest[1] = On("write", "marker") /\ rest[2] = On("verify", "marker")
          /\ rest[3] = Simple("accept")
    OBVIOUS
  <1>5. Repair \in Seq(Call) /\ Check \in Seq(Call)
    BY TreeCalls
  <1>6. /\ both \in Seq(Call) /\ Len(both) = Len(Repair) + Len(Check)
        /\ \A i \in 1..Len(Repair) : both[i] = Repair[i]
        /\ \A i \in 1..Len(Check) : both[Len(Repair) + i] = Check[i]
    BY <1>5, ConcatElements
  <1> HIDE DEF rest, both
  <1>7. both \in Seq(Call) /\ rest \in Seq(Call)
    BY <1>1, <1>6
  <1>8. /\ both \o rest \in Seq(Call) /\ Len(both \o rest) = Len(both) + Len(rest)
        /\ \A i \in 1..Len(both) : (both \o rest)[i] = both[i]
        /\ \A i \in 1..Len(rest) : (both \o rest)[Len(both) + i] = rest[i]
    BY <1>7, ConcatElements
  <1>9. Len(both) = 2 * Len(Dirs)
    BY <1>2, <1>6, TreeCalls
  <1>10. \A i \in 1..Len(Dirs) : Bootstrap[i] = On("ensure", Dirs[i])
    BY <1>2, <1>3, <1>6, <1>8, <1>9, TreeCalls
  <1>11. ASSUME NEW i \in 1..Len(Dirs) PROVE Bootstrap[Len(Dirs) + i] = On("exists", Dirs[i])
    <2>1. Len(Dirs) + i \in 1..Len(both)
      BY <1>2, <1>9
    <2> QED
      BY <1>3, <1>6, <1>8, <2>1, TreeCalls
  <1>12. /\ Bootstrap[2 * Len(Dirs) + 1] = On("write", "marker")
         /\ Bootstrap[2 * Len(Dirs) + 2] = On("verify", "marker")
         /\ Bootstrap[2 * Len(Dirs) + 3] = Simple("accept")
    BY <1>1, <1>3, <1>4, <1>8, <1>9
  <1>13. Bootstrap \in Seq(Call) /\ Len(Bootstrap) = 2 * Len(Dirs) + 3
    BY <1>1, <1>3, <1>8, <1>9
  <1> QED
    BY <1>10, <1>11, <1>12, <1>13

\* Calls that neither select a volume nor touch the marker.
IsPlain(c) == c.op \notin {"select", "selected", "accept"} /\ c # On("write", "marker")
Plain(t)   == \A i \in DOMAIN t : IsPlain(t[i])

LEMMA PlainConcat ==
  ASSUME NEW s \in Seq(Call), NEW t \in Seq(Call), Plain(s), Plain(t)
  PROVE  s \o t \in Seq(Call) /\ Plain(s \o t)
  <1>1. /\ s \o t \in Seq(Call) /\ Len(s \o t) = Len(s) + Len(t)
        /\ \A i \in 1..Len(s) : (s \o t)[i] = s[i]
        /\ \A i \in 1..Len(t) : (s \o t)[Len(s) + i] = t[i]
    BY ConcatElements
  <1>2. /\ DOMAIN s = 1..Len(s) /\ DOMAIN t = 1..Len(t)
        /\ DOMAIN (s \o t) = 1..Len(s \o t)
        /\ Len(s) \in Nat /\ Len(t) \in Nat
    BY <1>1, LenProperties
  <1>3. ASSUME NEW i \in DOMAIN (s \o t) PROVE IsPlain((s \o t)[i])
    <2>1. CASE i <= Len(s)
      BY <1>1, <1>2, <2>1 DEF Plain
    <2>2. CASE ~(i <= Len(s))
      <3>1. i - Len(s) \in 1..Len(t) /\ i = Len(s) + (i - Len(s))
        BY <1>1, <1>2, <2>2
      <3>2. (s \o t)[i] = t[i - Len(s)]
        BY <1>1, <3>1
      <3> QED
        BY <1>2, <3>1, <3>2 DEF Plain
    <2> QED
      BY <2>1, <2>2
  <1> QED
    BY <1>1, <1>3 DEF Plain

LEMMA PlainCalls ==
  /\ \A p \in Path : IsPlain(On("verify", p)) /\ IsPlain(On("read", p))
  /\ \A p \in Path \ {"marker"} : IsPlain(On("write", p))
  /\ \A d \in Range(Dirs) : IsPlain(On("ensure", d)) /\ IsPlain(On("exists", d))
                             /\ IsPlain(On("list", d))
  /\ \A op \in {"finish", "log", "show", "mismatch"} : IsPlain(Simple(op))
  BY DEF IsPlain, On, Simple

LEMMA PlainPairs ==
  /\ \A c \in Call : IsPlain(c) => <<c>> \in Seq(Call) /\ Plain(<<c>>)
  /\ \A c, d \in Call : IsPlain(c) /\ IsPlain(d) => <<c, d>> \in Seq(Call) /\ Plain(<<c, d>>)
  <1> HIDE DEF Call
  <1> QED
    BY DEF Plain

LEMMA PlainTree == Plain(Repair) /\ Plain(Check)
  <1>1. DOMAIN Repair = 1..Len(Dirs) /\ DOMAIN Check = 1..Len(Dirs)
    BY TreeCalls, LenProperties
  <1> QED
    BY <1>1, TreeCalls, PlainCalls, DirsAreNamed DEF Plain

\* The commands that keep the selected volume.
LEMMA CallsOfCommands ==
  ASSUME NEW j \in Commands \ Selects
  PROVE  /\ Calls(j) \o <<Simple("finish")>> \in Seq(Call)
         /\ Plain(Calls(j) \o <<Simple("finish")>>)
  <1>1. Repair \in Seq(Call) /\ Check \in Seq(Call) /\ Plain(Repair) /\ Plain(Check)
    BY TreeCalls, PlainTree
  <1>2. Repair \o Check \in Seq(Call) /\ Plain(Repair \o Check)
    BY <1>1, PlainConcat
  <1>3. /\ \A p \in Path : On("verify", p) \in Call /\ On("read", p) \in Call
        /\ \A p \in Path : On("write", p) \in Call
        /\ Home["user"] \in Range(Dirs) /\ On("list", Home["user"]) \in Call
        /\ Simple("finish") \in Call
    BY CallKinds, TreeAssumption DEF Path
  <1>4. LET test == <<On("write", "test"), On("verify", "test")>>
        IN  test \in Seq(Call) /\ Plain(test)
    BY <1>3, PlainCalls, PlainPairs DEF Path
  <1>5. LET probe == (Repair \o Check) \o <<On("write", "test"), On("verify", "test")>>
        IN  probe \in Seq(Call) /\ Plain(probe)
    BY <1>2, <1>4, PlainConcat
  <1>6. /\ <<On("list", Home["user"])>> \in Seq(Call) /\ Plain(<<On("list", Home["user"])>>)
        /\ <<On("write", "user")>> \in Seq(Call) /\ Plain(<<On("write", "user")>>)
        /\ <<On("read", "user")>> \in Seq(Call) /\ Plain(<<On("read", "user")>>)
        /\ <<Simple("finish")>> \in Seq(Call) /\ Plain(<<Simple("finish")>>)
    BY <1>3, PlainCalls, PlainPairs DEF Path
  <1>7. Calls(j) \in Seq(Call) /\ Plain(Calls(j))
    <2>1. j \in {"probe", "repair", "check", "write", "read", "list"}
      BY DEF Commands, Selects
    <2>2. CASE j = "probe"
      <3>1. Calls(j) = Repair \o (Check \o <<On("write", "test"), On("verify", "test")>>)
        BY <2>2 DEF Calls
      <3>2. Calls(j) = (Repair \o Check) \o <<On("write", "test"), On("verify", "test")>>
        BY <1>1, <1>4, <3>1, ConcatAssociative
      <3> QED
        BY <1>5, <3>2
    <2>3. CASE j = "repair"
      BY <1>1, <2>3 DEF Calls
    <2>4. CASE j = "check"
      BY <1>1, <2>4 DEF Calls
    <2>5. CASE j \in {"write", "read", "list"}
      BY <1>6, <2>5 DEF Calls
    <2> QED
      BY <2>1, <2>2, <2>3, <2>4, <2>5
  <1> QED
    BY <1>6, <1>7, PlainConcat

\* The commands that select one bootstrap its tree, and then do no more to the marker.
LEMMA CallsOfSelects ==
  ASSUME NEW j \in Selects
  PROVE  \E rest \in Seq(Call) :
           Plain(rest) /\ Calls(j) \o <<Simple("finish")>> = Bootstrap \o rest
  <1> DEFINE end == <<Simple("finish")>>
             test == <<On("write", "test"), On("verify", "test")>>
  <1>1. /\ On("write", "test") \in Call /\ On("verify", "test") \in Call
        /\ Simple("finish") \in Call
    BY CallKinds DEF Path
  <1>2. end \in Seq(Call) /\ Plain(end) /\ test \in Seq(Call) /\ Plain(test)
    BY <1>1, PlainCalls, PlainPairs DEF Path
  <1>3. CASE j \in {"boot", "bootstrap"}
    BY <1>2, <1>3 DEF Calls
  <1>4. CASE j = "test"
    <2>1. Calls(j) = Bootstrap \o test
      BY <1>4 DEF Calls
    <2>2. Calls(j) \o end = Bootstrap \o (test \o end)
      BY <1>2, <2>1, BootstrapCalls, ConcatAssociative
    <2>3. test \o end \in Seq(Call) /\ Plain(test \o end)
      BY <1>2, PlainConcat
    <2> QED
      BY <2>2, <2>3
  <1> QED
    BY <1>3, <1>4 DEF Selects

\* What is done before a volume is accepted, and what follows it.
LEMMA BootstrapBefore ==
  ASSUME NEW rest \in Seq(Call), Plain(rest)
  PROVE  LET calls == Bootstrap \o rest
             n == 2 * Len(Dirs) + 3
         IN  /\ Len(Dirs) \in Nat /\ calls \in Seq(Call) /\ n \in 1..Len(calls)
             /\ DOMAIN calls = 1..Len(calls)
             /\ \A i \in 1..Len(Dirs) : calls[i] = On("ensure", Dirs[i])
             /\ calls[n - 2] = On("write", "marker")
             /\ calls[n - 1] = On("verify", "marker")
             /\ calls[n] = Simple("accept")
             /\ \A i \in 1..Len(calls) : i \notin {n - 2, n} => IsPlain(calls[i])
  <1> DEFINE calls == Bootstrap \o rest
             n == 2 * Len(Dirs) + 3
  <1>1. /\ calls \in Seq(Call) /\ Len(calls) = n + Len(rest)
        /\ \A i \in 1..n : calls[i] = Bootstrap[i]
        /\ \A i \in 1..Len(rest) : calls[n + i] = rest[i]
    <2>1. Bootstrap \in Seq(Call)
      BY BootstrapCalls
    <2>2. Len(Bootstrap) = n
      BY BootstrapCalls
    <2>3. /\ Bootstrap \o rest \in Seq(Call)
          /\ Len(Bootstrap \o rest) = Len(Bootstrap) + Len(rest)
          /\ \A i \in 1..Len(Bootstrap) : (Bootstrap \o rest)[i] = Bootstrap[i]
          /\ \A i \in 1..Len(rest) : (Bootstrap \o rest)[Len(Bootstrap) + i] = rest[i]
      BY <2>1, ConcatElements
    <2> HIDE DEF n
    <2> QED
      BY <2>2, <2>3
  <1>2. Len(Dirs) \in Nat /\ Len(rest) \in Nat /\ DOMAIN calls = 1..Len(calls)
          /\ DOMAIN rest = 1..Len(rest)
    BY <1>1, DirsAreNamed, LenProperties
  <1>3. ASSUME NEW i \in 1..Len(calls), i \notin {n - 2, n} PROVE IsPlain(calls[i])
    <2>1. CASE i \in 1..Len(Dirs)
      <3>1. calls[i] = On("ensure", Dirs[i])
        BY <1>1, <1>2, <2>1, BootstrapCalls
      <3> QED
        BY <2>1, <3>1, DirsAreNamed, PlainCalls
    <2>2. CASE i \in (Len(Dirs) + 1)..(2 * Len(Dirs))
      <3>1. i - Len(Dirs) \in 1..Len(Dirs) /\ Len(Dirs) + (i - Len(Dirs)) = i
        BY <1>2, <2>2
      <3>2. calls[i] = On("exists", Dirs[i - Len(Dirs)])
        BY <1>1, <1>2, <2>2, <3>1, BootstrapCalls
      <3> QED
        BY <3>1, <3>2, DirsAreNamed, PlainCalls
    <2>3. CASE i = n - 1
      <3>1. calls[i] = On("verify", "marker")
        BY <1>1, <1>2, <2>3, BootstrapCalls
      <3> QED
        BY <3>1, PlainCalls DEF Path
    <2>4. CASE i > n
      <3>1. i - n \in 1..Len(rest) /\ n + (i - n) = i
        BY <1>1, <1>2, <2>4
      <3>2. calls[i] = rest[i - n]
        BY <1>1, <3>1
      <3> QED
        BY <1>2, <3>1, <3>2 DEF Plain
    <2> QED
      BY <1>1, <1>2, <1>3, <2>1, <2>2, <2>3, <2>4
  <1> QED
    BY <1>1, <1>2, <1>3, BootstrapCalls

LEMMA TailCalls ==
  ASSUME NEW t \in Seq(Call), t # <<>>
  PROVE  /\ Len(t) \in Nat \ {0} /\ DOMAIN t = 1..Len(t)
         /\ Head(t) = t[1] /\ Head(t) \in Call
         /\ Tail(t) \in Seq(Call) /\ Len(Tail(t)) = Len(t) - 1
         /\ DOMAIN Tail(t) = 1..(Len(t) - 1)
         /\ \A i \in 1..(Len(t) - 1) : Tail(t)[i] = t[i + 1]
  <1> HIDE DEF Call
  <1>1. /\ Head(t) \in Call /\ Tail(t) \in Seq(Call) /\ Len(Tail(t)) = Len(t) - 1
        /\ \A i \in 1..Len(Tail(t)) : Tail(t)[i] = t[i + 1]
    BY HeadTailProperties
  <1>2. DOMAIN t = 1..Len(t) /\ DOMAIN Tail(t) = 1..Len(Tail(t)) /\ Len(t) \in Nat \ {0}
    BY <1>1, LenProperties, EmptySeq
  <1>3. Head(t) = t[1]
    BY <1>2
  <1> QED
    BY <1>1, <1>2, <1>3

\* What is left to do when a command has come to its end: to print.
Printing(t) == \A i \in DOMAIN t : t[i].op \in {"log", "show", "mismatch"}

LEMMA EpilogueCalls ==
  /\ \A r : Epilogue(r) \in Seq(Call) /\ Printing(Epilogue(r))
  /\ Mismatch \in Seq(Call) /\ Printing(Mismatch)
  /\ <<>> \in Seq(Call) /\ Printing(<<>>)
  <1> DEFINE log == Simple("log")
             show == Simple("show")
             mismatch == Simple("mismatch")
  <1>1. log \in Call /\ show \in Call /\ mismatch \in Call
    BY CallKinds
  <1>2. log.op = "log" /\ show.op = "show" /\ mismatch.op = "mismatch"
    BY DEF Simple
  <1> HIDE DEF log, show, mismatch, Call
  <1>3. /\ <<>> \in Seq(Call) /\ <<log>> \in Seq(Call) /\ <<log, show>> \in Seq(Call)
        /\ <<log, mismatch, show>> \in Seq(Call)
    BY <1>1
  <1>4. /\ Printing(<<>>) /\ Printing(<<log>>) /\ Printing(<<log, show>>)
        /\ Printing(<<log, mismatch, show>>)
    BY <1>2 DEF Printing
  <1>5. ASSUME NEW r PROVE Epilogue(r) \in Seq(Call) /\ Printing(Epilogue(r))
    <2>1. Epilogue(r) \in {<<>>, <<log>>, <<log, show>>}
      BY DEF Epilogue, log, show
    <2> QED
      BY <1>3, <1>4, <2>1
  <1>6. Mismatch \in {<<log>>, <<log, mismatch, show>>, Epilogue("failed")}
    BY DEF Mismatch, log, show, mismatch
  <1> QED
    BY <1>3, <1>4, <1>5, <1>6

LEMMA PrintingIsPlain ==
  ASSUME NEW t, Printing(t)
  PROVE  Plain(t)
  BY DEF Printing, Plain, IsPlain, On

-----------------------------------------------------------------------------
(* What a call does to the medium *)

LEMMA VolumesAreNamed ==
  /\ Len(Candidates) \in Nat \ {0} /\ DOMAIN Candidates = 1..Len(Candidates)
  /\ \A i \in 1..Len(Candidates) : /\ Candidates[i] \in Range(Candidates)
                                   /\ Candidates[i] \in Volume
                                   /\ Candidates[i] # NoVolume
  /\ BootVolume \in Volume /\ NoVolume \notin Volume
  <1>1. Candidates \in Seq(Volume) /\ Candidates # <<>> /\ NoVolume \notin Volume
    BY VolumesAssumption
  <1>2. Len(Candidates) \in Nat \ {0} /\ DOMAIN Candidates = 1..Len(Candidates)
    BY <1>1, LenProperties, EmptySeq
  <1> QED
    BY <1>1, <1>2 DEF Volume, Range

LEMMA TargetIsVolume ==
  ASSUME TypeOK
  PROVE  Target \in Volume
  BY VolumesAreNamed DEF TypeOK, Target

LEMMA WayIsNamed ==
  ASSUME NEW p \in Path
  PROVE  Way(p) \subseteq Range(Dirs)
  BY TreeAssumption DEF Way

LEMMA NowCall ==
  ASSUME TypeOK, NEW op, Now(op)
  PROVE  /\ Head(todo) \in Call /\ Head(todo).op = op
         /\ op \in {"write", "verify", "read"} => Head(todo).path \in Path
         /\ op \in {"ensure", "exists", "list"} => Head(todo).path \in Range(Dirs)
  <1>1. Head(todo) \in Call /\ Head(todo).op = op
    BY TailCalls DEF TypeOK, Now
  <1> QED
    BY <1>1 DEF Call

\* Directories appear where there was nothing, and nothing goes away.
TreeKept ==
  \A v \in Volume, d \in Range(Dirs) :
    tree'[v][d] = tree[v][d] \/ (tree[v][d] = "none" /\ tree'[v][d] = "directory")

LEMMA MadeType ==
  ASSUME TypeOK, NEW ds, tree' = Made(ds)
  PROVE  /\ tree' \in [Volume -> [Range(Dirs) -> Node]]
         /\ TreeKept
         /\ \A d \in ds : d \in Range(Dirs) =>
              /\ tree'[Target][d] # "none"
              /\ tree[Target][d] # "file" => tree'[Target][d] = "directory"
  <1>1. Target \in Volume /\ tree \in [Volume -> [Range(Dirs) -> Node]]
    BY TargetIsVolume DEF TypeOK
  <1> DEFINE new == [d \in Range(Dirs) |->
                       IF d \in ds /\ tree[Target][d] = "none" THEN "directory" ELSE tree[Target][d]]
  <1>2. tree' = [tree EXCEPT ![Target] = new]
    BY <1>1 DEF Made
  <1>3. new \in [Range(Dirs) -> Node]
    BY <1>1 DEF Node
  <1>4. /\ tree' \in [Volume -> [Range(Dirs) -> Node]] /\ tree'[Target] = new
        /\ \A v \in Volume : v # Target => tree'[v] = tree[v]
    BY <1>1, <1>2, <1>3
  <1>5. TreeKept
    BY <1>1, <1>4 DEF TreeKept
  <1>6. ASSUME NEW d \in ds, d \in Range(Dirs)
        PROVE  /\ tree'[Target][d] # "none"
               /\ tree[Target][d] # "file" => tree'[Target][d] = "directory"
    <2>1. tree[Target][d] \in {"none", "directory", "file"}
      BY <1>1, <1>6 DEF Node
    <2>2. tree'[Target][d] = IF tree[Target][d] = "none" THEN "directory" ELSE tree[Target][d]
      BY <1>4, <1>6
    <2> QED
      BY <2>1, <2>2
  <1> QED
    BY <1>4, <1>5, <1>6

LEMMA FullIsText == Full \in Seq({"text"}) /\ Len(Full) = 1 /\ Full # <<>>
  BY DEF Full

Content == {NoFile, <<>>, Full}

LEMMA ContentIsText ==
  ASSUME NEW f \in Content
  PROVE  f \in Seq({"text"}) \union {NoFile}
  BY FullIsText, EmptySeq DEF Content

LEMMA WrittenContent ==
  ASSUME NEW old \in Content, NEW r \in WriteResults(old, Full)
  PROVE  r.file \in Content /\ (r.ok = TRUE \/ r.ok = FALSE)
  <1>1. ASSUME NEW f \in Prefixes(Full) PROVE f \in Content
    <2>1. PICK n \in 0..1 : f = SubSeq(Full, 1, n)
      BY FullIsText DEF Prefixes
    <2>2. CASE n = 0
      BY <2>1, <2>2 DEF Full, Content
    <2>3. CASE n = 1
      BY <2>1, <2>3, FullIsText, SubSeqFull DEF Content
    <2> QED
      BY <2>1, <2>2, <2>3
  <1>2. Overlay(old, Full) \in Content
    <2>1. CASE old = NoFile
      BY <2>1, FullIsText DEF Size, Overlay, Content
    <2>2. CASE old # NoFile
      <3>1. Size(old) = Len(old) /\ Len(old) \in {0, 1}
        BY <2>2, FullIsText DEF Size, Content
      <3> QED
        BY <3>1, FullIsText DEF Overlay, Content
    <2> QED
      BY <2>1, <2>2
  <1>3. PICK f \in Prefixes(Full) \union {old, Full, NoFile, Overlay(old, Full)} :
          r = [ok |-> TRUE, file |-> f] \/ r = [ok |-> FALSE, file |-> f]
    BY DEF WriteResults, WriteDone, WriteFaults
  <1>4. f \in Content
    BY <1>1, <1>2 DEF Content
  <1> QED
    BY <1>3, <1>4

-----------------------------------------------------------------------------
(* One call of the medium *)

MediumCall == {"ensure", "exists", "write", "verify", "read", "list"}

\* What a call that succeeds has seen or done.
Achieved ==
  /\ \A d \in Range(Dirs) : Head(todo) = On("ensure", d) => tree'[Target][d] # "none"
  /\ Head(todo) = On("write", "marker") =>
       \A d \in Way("marker") : tree'[Target][d] = "directory"
  /\ Head(todo) = On("verify", "marker") => file'[Target]["marker"] = Full

\* Whatever the medium answers to one call.
Served ==
  /\ todo # <<>> /\ Head(todo).op \in MediumCall
  /\ UNCHANGED <<mode, Rest>>
  /\ tree' \in [Volume -> [Range(Dirs) -> Node]] /\ TreeKept
  /\ file' \in [Volume -> [Path -> Content]]
  /\ file' # file => Head(todo).op = "write"
  /\ \A v \in Volume, p \in Path :
       file'[v][p] # file[v][p] => v = Target /\ Head(todo).path = p
  /\ faults' \in 0..MAX_FAULTS /\ last_error' \in {"ok", "error"}
  /\ \/ Done /\ Achieved
     \/ \E e \in Seq(Call) : Printing(e) /\ Failed(e)

LEMMA FaultType ==
  ASSUME NEW cost \in {0, 1}, Fault(cost), faults \in 0..MAX_FAULTS
  PROVE  faults' \in 0..MAX_FAULTS
  BY BoundsAssumption DEF Fault

LEMMA TreeStays ==
  ASSUME TypeOK, UNCHANGED tree
  PROVE  tree' \in [Volume -> [Range(Dirs) -> Node]] /\ TreeKept
  BY DEF TypeOK, TreeKept

LEMMA FileStays ==
  ASSUME TypeOK, UNCHANGED file
  PROVE  file' \in [Volume -> [Path -> Content]]
  BY DEF TypeOK, Content

LEMMA FailedPrints ==
  ASSUME NEW e, e \in {Epilogue("failed"), Mismatch, <<>>}, Failed(e)
  PROVE  \E f \in Seq(Call) : Printing(f) /\ Failed(f)
  BY EpilogueCalls

LEMMA EnsureServed ==
  ASSUME TypeOK, DoEnsure
  PROVE  Served
  <1> DEFINE d == Head(todo).path
  <1>1. /\ Head(todo) \in Call /\ Head(todo).op = "ensure" /\ d \in Range(Dirs)
        /\ todo # <<>>
    BY NowCall DEF DoEnsure, Now
  <1>2. file' \in [Volume -> [Path -> Content]] /\ UNCHANGED <<mode, file, Rest>>
    BY FileStays DEF DoEnsure
  <1>3. faults' \in 0..MAX_FAULTS
    BY FaultType DEF DoEnsure, TypeOK
  <1>4. CASE tree' = Made({d}) /\ last_error' = "ok" /\ Done
    <2>1. tree' \in [Volume -> [Range(Dirs) -> Node]] /\ TreeKept /\ tree'[Target][d] # "none"
      BY <1>1, <1>4, MadeType
    <2>2. Achieved
      BY <1>1, <2>1 DEF Achieved, On
    <2> QED
      BY <1>1, <1>2, <1>3, <1>4, <2>1, <2>2 DEF Served, MediumCall
  <1>5. CASE last_error' = "error" /\ Failed(Epilogue("failed")) /\ UNCHANGED tree
    <2>1. tree' \in [Volume -> [Range(Dirs) -> Node]] /\ TreeKept
      BY <1>5, TreeStays
    <2>2. \E e \in Seq(Call) : Printing(e) /\ Failed(e)
      BY <1>5, FailedPrints
    <2> QED
      BY <1>1, <1>2, <1>3, <1>5, <2>1, <2>2 DEF Served, MediumCall
  <1> QED
    BY <1>4, <1>5 DEF DoEnsure

\* A call that only looks at the medium.
LEMMA LookServed ==
  ASSUME TypeOK, todo # <<>>, NEW op \in {"exists", "verify", "read", "list"}, Now(op),
         UNCHANGED <<medium, Rest>>, faults' \in 0..MAX_FAULTS,
         last_error' \in {"ok", "error"},
         \/ /\ Done
            /\ Head(todo) = On("verify", "marker") => file[Target]["marker"] = Full
         \/ \E e \in Seq(Call) : Printing(e) /\ Failed(e)
  PROVE  Served
  <1>1. Head(todo).op = op /\ UNCHANGED <<mode, tree, file, Rest>>
    BY DEF Now, medium
  <1>2. /\ tree' \in [Volume -> [Range(Dirs) -> Node]] /\ TreeKept
        /\ file' \in [Volume -> [Path -> Content]]
    BY <1>1, TreeStays, FileStays
  <1>3. /\ \A d \in Range(Dirs) : Head(todo) # On("ensure", d)
        /\ Head(todo) # On("write", "marker")
    BY <1>1 DEF On
  <1>4. Done => Achieved \/ \E e \in Seq(Call) : Printing(e) /\ Failed(e)
    BY <1>1, <1>3 DEF Achieved
  <1> QED
    BY <1>1, <1>2, <1>4 DEF Served, MediumCall

LEMMA ExistsServed ==
  ASSUME TypeOK, DoExists
  PROVE  Served
  <1>1. Now("exists") /\ todo # <<>> /\ UNCHANGED <<medium, Rest>>
    BY DEF DoExists, Now
  <1>2. faults' \in 0..MAX_FAULTS
    BY FaultType DEF DoExists, TypeOK
  <1>3. last_error' \in {"ok", "error"} /\ (Done \/ Failed(Epilogue("failed")))
    BY DEF DoExists, TypeOK
  <1>4. Head(todo) # On("verify", "marker")
    BY <1>1 DEF Now, On
  <1> QED
    BY <1>1, <1>2, <1>3, <1>4, FailedPrints, LookServed

LEMMA ListServed ==
  ASSUME TypeOK, DoList
  PROVE  Served
  <1>1. Now("list") /\ todo # <<>> /\ UNCHANGED <<medium, Rest>>
    BY DEF DoList, Now
  <1>2. faults' \in 0..MAX_FAULTS
    BY FaultType DEF DoList, TypeOK
  <1>3. last_error' \in {"ok", "error"} /\ (Done \/ Failed(Epilogue("failed")) \/ Failed(<<>>))
    BY DEF DoList
  <1>4. Head(todo) # On("verify", "marker")
    BY <1>1 DEF Now, On
  <1> QED
    BY <1>1, <1>2, <1>3, <1>4, FailedPrints, LookServed

\* Whatever is read, one line fits: what comes back whole is the whole file.
LEMMA ReadTargetWhole ==
  ASSUME TypeOK, NEW p \in Path, NEW r \in ReadTarget(p) \union {ReadFault},
         r.ok, r.text = Full
  PROVE  file[Target][p] = Full
  <1>1. file[Target][p] \in Content
    BY TargetIsVolume DEF TypeOK, Content
  <1>2. file[Target][p] \in Seq({"text"}) \union {NoFile}
    BY <1>1, ContentIsText
  <1>3. r \in ReadResults(file[Target][p], 2)
    BY DEF ReadTarget, ReadResults, ReadFault
  <1>4. Len(r.text) < 2
    BY FullIsText
  <1> QED
    BY <1>2, <1>3, <1>4, ShortReadIsWhole

LEMMA ReadServed ==
  ASSUME TypeOK, DoRead
  PROVE  Served
  <1>1. Now("read") /\ todo # <<>> /\ UNCHANGED <<medium, Rest>>
    BY DEF DoRead, Now
  <1>2. PICK r : /\ Fault(Cost(r, ReadTarget(Head(todo).path)))
                 /\ last_error' = IF r.ok THEN "ok" ELSE "error"
                 /\ IF r.ok THEN Done ELSE Failed(Epilogue("failed"))
    BY DEF DoRead
  <1>3. faults' \in 0..MAX_FAULTS
    BY <1>2, FaultType, CostType DEF TypeOK
  <1>4. last_error' \in {"ok", "error"} /\ (Done \/ Failed(Epilogue("failed")))
    BY <1>2
  <1>5. Head(todo) # On("verify", "marker")
    BY <1>1 DEF Now, On
  <1> QED
    BY <1>1, <1>3, <1>4, <1>5, FailedPrints, LookServed

LEMMA VerifyServed ==
  ASSUME TypeOK, DoVerify
  PROVE  Served
  <1> DEFINE p == Head(todo).path
  <1>1. Now("verify") /\ todo # <<>> /\ UNCHANGED <<medium, Rest>> /\ p \in Path
    BY NowCall DEF DoVerify, Now
  <1>2. PICK r \in ReadTarget(p) \union {ReadFault} :
          /\ Fault(Cost(r, ReadTarget(p)))
          /\ last_error' = IF r.ok /\ (r.text = Full \/ p = "test") THEN "ok" ELSE "error"
          /\ IF r.ok /\ r.text = Full THEN Done
             ELSE IF r.ok THEN Failed(Mismatch)
             ELSE Failed(Epilogue("failed"))
    BY DEF DoVerify
  <1>3. faults' \in 0..MAX_FAULTS
    BY <1>2, FaultType, CostType DEF TypeOK
  <1>4. last_error' \in {"ok", "error"}
    BY <1>2
  <1>5. CASE r.ok /\ r.text = Full
    <2>1. file[Target][p] = Full
      BY <1>1, <1>5, ReadTargetWhole
    <2>2. Done /\ (Head(todo) = On("verify", "marker") => file[Target]["marker"] = Full)
      BY <1>2, <1>5, <2>1 DEF On
    <2> QED
      BY <1>1, <1>3, <1>4, <2>2, LookServed
  <1>6. CASE ~(r.ok /\ r.text = Full)
    <2>1. \E e \in Seq(Call) : Printing(e) /\ Failed(e)
      BY <1>2, <1>6, FailedPrints
    <2> QED
      BY <1>1, <1>3, <1>4, <2>1, LookServed
  <1> QED
    BY <1>5, <1>6

LEMMA WriteServed ==
  ASSUME TypeOK, DoWrite
  PROVE  Served
  <1> DEFINE p == Head(todo).path
             old == file[Target][p]
             possible == mode[Target] = "rw" /\ \A d \in Way(p) : tree[Target][d] # "file"
             refused == [ok |-> FALSE, file |-> old]
             asked == IF possible THEN WriteDone(Full) ELSE {refused}
             faulty == IF possible THEN WriteFaults(old, Full) ELSE {}
  <1>1. Now("write") /\ todo # <<>> /\ Head(todo).op = "write" /\ p \in Path
    BY NowCall DEF DoWrite, Now
  <1>2. UNCHANGED <<mode, Rest>>
    BY DEF DoWrite
  <1>3. Target \in Volume /\ old \in Content
    BY <1>1, TargetIsVolume DEF TypeOK, Content
  <1>4. PICK r \in asked \union faulty :
          /\ Fault(Cost(r, asked))
          /\ file' = [file EXCEPT ![Target][p] = r.file]
          /\ last_error' = IF r.ok THEN "ok" ELSE "error"
          /\ IF r.ok THEN Done ELSE Failed(Epilogue("failed"))
          /\ IF ~possible THEN UNCHANGED tree
             ELSE \E made \in UpperPartsOf(Way(p)) :
                    /\ made # Way(p) => r = refused
                    /\ tree' = Made(made)
    BY DEF DoWrite
  <1>5. r \in WriteResults(old, Full) \/ (~possible /\ r = refused)
    BY DEF WriteResults
  <1>6. r.file \in Content /\ (r.ok => possible /\ r # refused)
    <2>1. refused.ok = FALSE /\ refused.file = old
      OBVIOUS
    <2>2. ~possible => r = refused
      BY <1>4
    <2> HIDE DEF refused, possible
    <2>3. r.file \in Content
      BY <1>3, <1>5, <2>1, WrittenContent
    <2> QED
      BY <2>1, <2>2, <2>3
  <1>7. faults' \in 0..MAX_FAULTS /\ last_error' \in {"ok", "error"}
    BY <1>4, FaultType, CostType DEF TypeOK
  <1>8. /\ file' \in [Volume -> [Path -> Content]]
        /\ \A v \in Volume, q \in Path : file'[v][q] # file[v][q] => v = Target /\ p = q
    BY <1>1, <1>3, <1>4, <1>6 DEF TypeOK, Content
  <1>9. tree' \in [Volume -> [Range(Dirs) -> Node]] /\ TreeKept
    <2>1. UNCHANGED tree \/ \E made : tree' = Made(made)
      BY <1>4
    <2> QED
      BY <2>1, TreeStays, MadeType
  <1>10. CASE r.ok
    <2>1. possible /\ tree' = Made(Way(p)) /\ Done
      BY <1>4, <1>6, <1>10
    <2>2. \A d \in Way(p) : tree'[Target][d] = "directory"
      BY <1>1, <2>1, MadeType, WayIsNamed
    <2>3. Achieved
      BY <1>1, <2>2 DEF Achieved, On
    <2> QED
      BY <1>1, <1>2, <1>7, <1>8, <1>9, <2>1, <2>3 DEF Served, MediumCall
  <1>11. CASE ~r.ok
    <2>1. \E e \in Seq(Call) : Printing(e) /\ Failed(e)
      BY <1>4, <1>11, FailedPrints
    <2> QED
      BY <1>1, <1>2, <1>7, <1>8, <1>9, <2>1 DEF Served, MediumCall
  <1> QED
    BY <1>10, <1>11

LEMMA CallsAreServed ==
  ASSUME TypeOK, DoEnsure \/ DoExists \/ DoWrite \/ DoVerify \/ DoRead \/ DoList
  PROVE  Served
  BY EnsureServed, ExistsServed, WriteServed, VerifyServed, ReadServed, ListServed

-----------------------------------------------------------------------------
(* Types *)

\* What is done to a volume that is being tried does not touch the marker.
IsTrial(c) == c.op \in MediumCall /\ c # On("write", "marker")

\* A volume is being tried exactly while the return from the loop still waits,
\* behind calls of the medium; only the commands that select a volume have
\* such calls to make.
Orderly ==
  /\ \A i \in DOMAIN todo : todo[i].op \in {"select", "selected"} => job \in Selects
  /\ candidate = 0 => \A i \in DOMAIN todo : todo[i].op # "selected"
  /\ candidate # 0 =>
       /\ todo # <<>> /\ todo[Len(todo)].op = "selected"
       /\ \A i \in 1..(Len(todo) - 1) : IsTrial(todo[i])
       /\ uefi_fs_handle = Candidates[candidate] /\ ~bootstrap_verified

LEMMA FailedType ==
  ASSUME TypeOK, NEW e \in Seq(Call), Failed(e)
  PROVE  /\ todo' \in Seq(Call) /\ candidate' \in 0..Len(Candidates)
         /\ uefi_fs_handle' \in Volume \union {NoVolume}
         /\ bootstrap_verified' \in BOOLEAN /\ result' \in {"ok", "failed"}
  <1>1. Len(Candidates) \in Nat \ {0} /\ candidate \in 0..Len(Candidates)
    BY VolumesAreNamed DEF TypeOK
  <1>2. bootstrap_verified' \in BOOLEAN
    BY DEF Failed, TypeOK
  <1>3. CASE candidate \in 1..(Len(Candidates) - 1)
    <2>1. candidate + 1 \in 1..Len(Candidates)
      BY <1>1, <1>3
    <2>2. /\ candidate' = candidate + 1 /\ uefi_fs_handle' = Candidates[candidate + 1]
          /\ todo' = Trial /\ UNCHANGED result
      BY <1>3 DEF Failed
    <2> QED
      BY <1>2, <2>1, <2>2, TrialCalls, VolumesAreNamed DEF TypeOK
  <1>4. CASE ~(candidate \in 1..(Len(Candidates) - 1))
    <2>1. /\ uefi_fs_handle' = IF candidate = 0 THEN uefi_fs_handle ELSE NoVolume
          /\ candidate' = 0 /\ todo' = e /\ result' = "failed"
      BY <1>4 DEF Failed
    <2> QED
      BY <1>1, <1>2, <2>1 DEF TypeOK
  <1> QED
    BY <1>3, <1>4

LEMMA ServedType ==
  ASSUME TypeOK, Served
  PROVE  TypeOK'
  <1>1. todo # <<>> /\ job # "idle" /\ UNCHANGED <<job, mode, transcript, shown, changes>>
    BY DEF Served, Rest, TypeOK, Idle
  <1>2. /\ tree' \in [Volume -> [Range(Dirs) -> Node]]
        /\ file' \in [Volume -> [Path -> {NoFile, <<>>, Full}]]
        /\ faults' \in 0..MAX_FAULTS /\ last_error' \in {"ok", "error"}
    BY DEF Served, Content
  <1>3. /\ todo' \in Seq(Call) /\ candidate' \in 0..Len(Candidates)
        /\ uefi_fs_handle' \in Volume \union {NoVolume}
        /\ bootstrap_verified' \in BOOLEAN /\ result' \in {"ok", "failed"}
    <2>1. CASE Done
      BY <1>1, <2>1, TailCalls DEF Done, TypeOK
    <2>2. CASE \E e \in Seq(Call) : Printing(e) /\ Failed(e)
      BY <2>2, FailedType
    <2> QED
      BY <2>1, <2>2 DEF Served
  <1> QED
    BY <1>1, <1>2, <1>3 DEF TypeOK, Idle

LEMMA InitType == Init => TypeOK /\ Orderly
  <1> SUFFICES ASSUME Init PROVE TypeOK /\ Orderly
    OBVIOUS
  <1>1. todo \in Seq(Call) /\ Len(todo) = 1 /\ todo[1] = Simple("select")
    BY CallKinds DEF Init
  <1>2. tree \in [Volume -> [Range(Dirs) -> Node]]
    BY TreeAssumption DEF Init
  <1>3. 0 \in 0..MAX_FAULTS /\ 0 \in 0..MAX_CHANGES /\ 0 \in 0..Len(Candidates)
    BY BoundsAssumption, VolumesAreNamed
  <1>4. TypeOK
    BY <1>1, <1>2, <1>3 DEF Init, TypeOK, Idle
  <1>5. Orderly
    BY <1>1 DEF Init, Orderly, Simple, Selects
  <1> QED
    BY <1>4, <1>5

\* The calls that a command sets out with.
LEMMA CommandCalls ==
  ASSUME NEW j \in Commands, Command(j)
  PROVE  /\ todo' \in Seq(Call)
         /\ \A i \in DOMAIN todo' : todo'[i].op # "selected" /\ todo'[i].op # "accept"
         /\ \A i \in DOMAIN todo' : todo'[i].op = "select" => j \in Selects
         /\ \A i \in DOMAIN todo' : todo'[i] # On("write", "marker")
  <1> DEFINE log == <<Simple("log")>>
             select == <<Simple("select")>>
             calls == Calls(j) \o <<Simple("finish")>>
  <1>1. log \in Seq(Call) /\ Plain(log) /\ select \in Seq(Call) /\ log \o select \in Seq(Call)
    BY CallKinds, PlainCalls, PlainPairs, ConcatElements
  <1>2. CASE j \in Selects
    <2>1. todo' = log \o select
      BY <1>2 DEF Command
    <2>2. Len(log) = 1 /\ Len(select) = 1 /\ log[1] = Simple("log") /\ select[1] = Simple("select")
      OBVIOUS
    <2> HIDE DEF log, select
    <2>3. /\ Len(log \o select) = 2
          /\ (log \o select)[1] = Simple("log") /\ (log \o select)[2] = Simple("select")
      BY <1>1, <2>2, ConcatElements
    <2>4. DOMAIN (log \o select) = {1, 2}
      BY <1>1, <2>3, LenProperties
    <2> QED
      BY <1>1, <1>2, <2>1, <2>3, <2>4 DEF Simple, On
  <1>3. CASE j \notin Selects
    <2>1. todo' = log \o calls
      BY <1>3 DEF Command
    <2>2. calls \in Seq(Call) /\ Plain(calls)
      BY <1>3, CallsOfCommands
    <2> HIDE DEF log, calls
    <2>3. todo' \in Seq(Call) /\ Plain(todo')
      BY <1>1, <2>1, <2>2, PlainConcat
    <2> QED
      BY <2>3 DEF Plain, IsPlain
  <1> QED
    BY <1>2, <1>3

LEMMA SelectType ==
  ASSUME TypeOK, Select
  PROVE  TypeOK'
  <1>1. /\ job # "idle" /\ UNCHANGED <<job, mode, tree, file, transcript, shown, changes>>
        /\ bootstrap_verified' = FALSE
    BY DEF Select, Now, medium, Rest, TypeOK, Idle
  <1>2. faults' \in 0..MAX_FAULTS
    BY FaultType DEF Select, TypeOK
  <1>3. /\ todo' \in Seq(Call) /\ candidate' \in 0..Len(Candidates)
        /\ uefi_fs_handle' \in Volume \union {NoVolume}
        /\ result' \in {"ok", "failed"} /\ last_error' \in {"ok", "error"}
    BY TrialCalls, EpilogueCalls, VolumesAreNamed DEF Select, TypeOK
  <1> QED
    BY <1>1, <1>2, <1>3 DEF TypeOK, Idle

LEMMA SelectedType ==
  ASSUME TypeOK, Orderly, Selected
  PROVE  TypeOK'
  <1>1. /\ todo # <<>> /\ UNCHANGED <<job, mode, tree, file, transcript, shown, changes>>
        /\ UNCHANGED <<uefi_fs_handle, bootstrap_verified, result, faults>>
        /\ candidate' = 0 /\ last_error' = "ok" /\ 0 \in 0..Len(Candidates)
    BY VolumesAreNamed DEF Selected, Now, medium, Rest
  <1>2. job \in Selects
    BY <1>1, TailCalls DEF Selected, Now, Orderly, TypeOK
  <1>3. todo' \in Seq(Call)
    <2>1. PICK rest \in Seq(Call) : Calls(job) \o <<Simple("finish")>> = Bootstrap \o rest
      BY <1>2, CallsOfSelects
    <2>2. Bootstrap \o rest \in Seq(Call)
      BY BootstrapCalls, ConcatElements
    <2> QED
      BY <2>1, <2>2 DEF Selected
  <1> QED
    BY <1>1, <1>2, <1>3 DEF TypeOK, Idle, Selects

\* What a command prints, and the rest of its moves.
LEMMA PrintType ==
  ASSUME TypeOK, SetMismatch \/ Log \/ ShowError \/ Accept \/ Finish
  PROVE  TypeOK'
  <1>1. todo # <<>> /\ job # "idle" /\ UNCHANGED <<job, mode, tree, file, candidate, changes>>
    BY DEF SetMismatch, Log, ShowError, Accept, Finish, Now, medium, Rest, TypeOK, Idle
  <1>2. UNCHANGED uefi_fs_handle
    BY DEF SetMismatch, Log, ShowError, Accept, Finish, g_storage
  <1>3. todo' \in Seq(Call)
    BY <1>1, TailCalls, EpilogueCalls
      DEF SetMismatch, Log, ShowError, Accept, Finish, TypeOK
  <1>4. faults' \in 0..MAX_FAULTS
    <2>1. CASE Log
      BY <2>1, FaultType DEF Log, TypeOK
    <2>2. CASE ~Log
      BY <2>2 DEF SetMismatch, ShowError, Accept, Finish, TypeOK
    <2> QED
      BY <2>1, <2>2
  <1>5. /\ last_error' \in {"ok", "error"} /\ transcript' \in BOOLEAN
        /\ bootstrap_verified' \in BOOLEAN /\ result' \in {"ok", "failed"}
        /\ shown' \in {"nothing", "ok", "error"}
    BY DEF SetMismatch, Log, ShowError, Accept, Finish, g_storage, Rest, TypeOK
  <1> QED
    BY <1>1, <1>2, <1>3, <1>4, <1>5 DEF TypeOK, Idle

LEMMA ReturnType ==
  ASSUME TypeOK, Orderly, Return
  PROVE  TypeOK'
  <1>1. candidate = 0 /\ todo = <<>> /\ job' = "idle" /\ transcript' \in BOOLEAN
    BY DEF Return, Orderly, TypeOK
  <1> QED
    BY <1>1 DEF Return, medium, g_storage, TypeOK, Idle

LEMMA CommandType ==
  ASSUME TypeOK, (\E j \in Commands : Command(j)) \/ CommandLastError
  PROVE  TypeOK'
  <1>1. /\ job' \in Commands \union {"last-error"} /\ job' # "idle" /\ shown' = "nothing"
        /\ UNCHANGED <<medium, g_storage, candidate, transcript, result, faults, changes>>
    BY DEF Command, CommandLastError, Commands
  <1>2. todo' \in Seq(Call)
    <2>1. CASE \E j \in Commands : Command(j)
      BY <2>1, CommandCalls
    <2>2. CASE CommandLastError
      BY <2>2, CallKinds DEF CommandLastError
    <2> QED
      BY <2>1, <2>2
  <1> QED
    BY <1>1, <1>2 DEF medium, g_storage, TypeOK, Idle

LEMMA ChangeType ==
  ASSUME TypeOK, NEW v \in Volume, NEW m \in Mode, Change(v, m)
  PROVE  TypeOK'
  <1>1. changes' \in 0..MAX_CHANGES
    BY BoundsAssumption DEF Change, TypeOK
  <1>2. mode' \in [Volume -> Mode]
    BY DEF Change, TypeOK
  <1> QED
    BY <1>1, <1>2 DEF Change, g_storage, control, TypeOK, Idle

LEMMA NextType ==
  ASSUME TypeOK, Orderly, [Next]_vars
  PROVE  TypeOK'
  <1>1. CASE DoEnsure \/ DoExists \/ DoWrite \/ DoVerify \/ DoRead \/ DoList
    BY <1>1, CallsAreServed, ServedType
  <1>2. CASE SetMismatch \/ Log \/ ShowError \/ Accept \/ Finish
    BY <1>2, PrintType
  <1>3. CASE UNCHANGED vars
    BY <1>3 DEF vars, medium, g_storage, control, TypeOK, Idle
  <1> QED
    BY <1>1, <1>2, <1>3, SelectType, SelectedType, ReturnType, CommandType, ChangeType
      DEF Next, Step

-----------------------------------------------------------------------------
(* The order of the calls *)

LEMMA TrialOrder ==
  /\ Trial # <<>> /\ Len(Trial) \in Nat \ {0} /\ DOMAIN Trial = 1..Len(Trial)
  /\ Trial[Len(Trial)].op = "selected"
  /\ \A i \in 1..(Len(Trial) - 1) : IsTrial(Trial[i])
  /\ \A i \in DOMAIN Trial : Trial[i].op \notin {"select", "accept"}
                              /\ Trial[i] # On("write", "marker")
  <1>1. Len(Dirs) \in Nat /\ DOMAIN Trial = 1..Len(Trial) /\ Len(Trial) = Len(Dirs) + 3
    BY TrialCalls, DirsAreNamed, LenProperties
  <1>2. Trial # <<>>
    BY <1>1
  <1>3. Trial[Len(Trial)] = Simple("selected")
    BY <1>1, TrialCalls
  <1>4. ASSUME NEW i \in 1..(Len(Trial) - 1) PROVE IsTrial(Trial[i])
    <2>1. i \in 1..Len(Dirs) \/ i = Len(Dirs) + 1 \/ i = Len(Dirs) + 2
      BY <1>1
    <2>2. Trial[i] \in {On("ensure", d) : d \in Range(Dirs)}
                         \union {On("write", "probe"), On("verify", "probe")}
      BY <2>1, TrialCalls, DirsAreNamed
    <2> QED
      BY <2>2 DEF IsTrial, MediumCall, On
  <1>5. ASSUME NEW i \in DOMAIN Trial
        PROVE  Trial[i].op \notin {"select", "accept"} /\ Trial[i] # On("write", "marker")
    <2>1. i \in 1..(Len(Trial) - 1) \/ i = Len(Trial)
      BY <1>1
    <2> QED
      BY <1>3, <1>4, <2>1 DEF IsTrial, MediumCall, Simple, On
  <1> QED
    BY <1>1, <1>2, <1>3, <1>4, <1>5 DEF Simple

\* The next call is taken from the list.
LEMMA PopOrderly ==
  ASSUME TypeOK, Orderly, todo # <<>>, Head(todo).op # "selected", todo' = Tail(todo),
         UNCHANGED <<job, candidate, uefi_fs_handle>>,
         candidate # 0 => UNCHANGED bootstrap_verified
  PROVE  Orderly'
  <1>1. /\ Len(todo) \in Nat \ {0} /\ DOMAIN todo = 1..Len(todo) /\ Head(todo) = todo[1]
        /\ todo' \in Seq(Call) /\ Len(todo') = Len(todo) - 1
        /\ DOMAIN todo' = 1..(Len(todo) - 1)
        /\ \A i \in 1..(Len(todo) - 1) : todo'[i] = todo[i + 1]
    BY TailCalls DEF TypeOK
  <1>2. \A i \in DOMAIN todo' : i + 1 \in DOMAIN todo /\ todo'[i] = todo[i + 1]
    BY <1>1
  <1>3. \A i \in DOMAIN todo' : todo'[i].op \in {"select", "selected"} => job' \in Selects
    BY <1>2 DEF Orderly
  <1>4. candidate' = 0 => \A i \in DOMAIN todo' : todo'[i].op # "selected"
    BY <1>2 DEF Orderly
  <1>5. ASSUME candidate' # 0
        PROVE  /\ todo' # <<>> /\ todo'[Len(todo')].op = "selected"
               /\ \A i \in 1..(Len(todo') - 1) : IsTrial(todo'[i])
               /\ uefi_fs_handle' = Candidates[candidate'] /\ ~bootstrap_verified'
    <2>1. /\ todo[Len(todo)].op = "selected"
          /\ \A i \in 1..(Len(todo) - 1) : IsTrial(todo[i])
          /\ uefi_fs_handle = Candidates[candidate] /\ ~bootstrap_verified
      BY <1>5 DEF Orderly
    <2>2. Len(todo') \in Nat \ {0}
      BY <1>1, <2>1
    <2>3. todo' # <<>>
      BY <2>2
    <2>4. todo'[Len(todo')] = todo[Len(todo)]
      BY <1>1, <2>2
    <2>5. ASSUME NEW i \in 1..(Len(todo') - 1) PROVE IsTrial(todo'[i])
      <3>1. i + 1 \in 1..(Len(todo) - 1) /\ todo'[i] = todo[i + 1]
        BY <1>1
      <3> QED
        BY <2>1, <3>1
    <2> QED
      BY <1>5, <2>1, <2>3, <2>4, <2>5
  <1> QED
    BY <1>3, <1>4, <1>5 DEF Orderly

\* A call has failed.
LEMMA FailedOrderly ==
  ASSUME TypeOK, Orderly, NEW e \in Seq(Call), Printing(e), Failed(e), UNCHANGED job
  PROVE  Orderly'
  <1>1. Len(Candidates) \in Nat \ {0} /\ candidate \in 0..Len(Candidates)
    BY VolumesAreNamed DEF TypeOK
  <1>2. CASE candidate \in 1..(Len(Candidates) - 1)
    <2>1. /\ candidate' = candidate + 1 /\ uefi_fs_handle' = Candidates[candidate']
          /\ todo' = Trial /\ UNCHANGED bootstrap_verified
      BY <1>2 DEF Failed
    <2>2. candidate # 0 /\ candidate' # 0
      BY <1>2, <2>1
    <2>3. job \in Selects /\ ~bootstrap_verified
      BY <2>2, TailCalls DEF Orderly, TypeOK
    <2> QED
      BY <2>1, <2>2, <2>3, TrialOrder DEF Orderly
  <1>3. CASE ~(candidate \in 1..(Len(Candidates) - 1))
    <2>1. candidate' = 0 /\ todo' = e
      BY <1>3 DEF Failed
    <2> QED
      BY <2>1 DEF Orderly, Printing
  <1> QED
    BY <1>2, <1>3

LEMMA ServedOrderly ==
  ASSUME TypeOK, Orderly, Served
  PROVE  Orderly'
  <1>1. todo # <<>> /\ Head(todo).op # "selected" /\ UNCHANGED job
    BY DEF Served, MediumCall, Rest
  <1>2. CASE Done
    BY <1>1, <1>2, PopOrderly DEF Done
  <1>3. CASE \E e \in Seq(Call) : Printing(e) /\ Failed(e)
    BY <1>1, <1>3, FailedOrderly
  <1> QED
    BY <1>2, <1>3 DEF Served

\* Only where no volume is being tried is there anything to accept or to finish.
LEMMA OnlyTrialsWhileTrying ==
  ASSUME TypeOK, Orderly, todo # <<>>,
         \E op \in {"select", "accept", "finish"} : Now(op)
  PROVE  candidate = 0
  <1> SUFFICES ASSUME candidate # 0 PROVE FALSE
    OBVIOUS
  <1>1. /\ todo[Len(todo)].op = "selected" /\ \A i \in 1..(Len(todo) - 1) : IsTrial(todo[i])
        /\ todo # <<>> /\ todo \in Seq(Call)
    BY DEF Orderly, TypeOK
  <1>2. Len(todo) \in Nat \ {0} /\ todo[1].op \in {"select", "accept", "finish"}
    BY <1>1, TailCalls DEF Now
  <1> QED
    BY <1>1, <1>2 DEF IsTrial, MediumCall

LEMMA SelectOrderly ==
  ASSUME TypeOK, Orderly, Select
  PROVE  Orderly'
  <1>1. job \in Selects /\ UNCHANGED job
    BY TailCalls DEF Select, Now, Rest, Orderly, TypeOK
  <1>2. candidate = 0
    BY OnlyTrialsWhileTrying DEF Select, Now
  <1>3. CASE candidate' = 1 /\ uefi_fs_handle' = Candidates[1] /\ todo' = Trial
    BY <1>1, <1>3, TrialOrder DEF Select, Orderly
  <1>4. CASE todo' = Epilogue("failed") /\ UNCHANGED candidate
    BY <1>1, <1>2, <1>4, EpilogueCalls DEF Orderly, Printing
  <1> QED
    BY <1>3, <1>4 DEF Select

LEMMA SelectedOrderly ==
  ASSUME TypeOK, Orderly, Selected
  PROVE  Orderly'
  <1>1. job \in Selects /\ UNCHANGED job /\ candidate' = 0
    BY TailCalls DEF Selected, Now, Rest, Orderly, TypeOK
  <1>2. PICK rest \in Seq(Call) : Plain(rest) /\ todo' = Bootstrap \o rest
    BY <1>1, CallsOfSelects DEF Selected
  <1>3. ASSUME NEW i \in DOMAIN todo' PROVE todo'[i].op \notin {"select", "selected"}
    <2> DEFINE n == 2 * Len(Dirs) + 3
    <2>1. /\ i \in 1..Len(todo')
          /\ todo'[n - 2] = On("write", "marker") /\ todo'[n] = Simple("accept")
          /\ i \notin {n - 2, n} => IsPlain(todo'[i])
      BY <1>2, <1>3, BootstrapBefore
    <2> HIDE DEF n
    <2> QED
      BY <2>1 DEF IsPlain, On, Simple
  <1> QED
    BY <1>1, <1>3 DEF Orderly

LEMMA PrintOrderly ==
  ASSUME TypeOK, Orderly, SetMismatch \/ Log \/ ShowError \/ Accept \/ Finish
  PROVE  Orderly'
  <1>1. CASE SetMismatch \/ Log \/ ShowError
    <2>1. /\ todo # <<>> /\ Head(todo).op # "selected" /\ todo' = Tail(todo)
          /\ UNCHANGED <<job, candidate, uefi_fs_handle, bootstrap_verified>>
      BY <1>1 DEF SetMismatch, Log, ShowError, Now, Rest, g_storage
    <2> QED
      BY <2>1, PopOrderly
  <1>2. CASE Accept
    <2>1. /\ todo # <<>> /\ Head(todo).op # "selected" /\ todo' = Tail(todo)
          /\ UNCHANGED <<job, candidate, uefi_fs_handle>>
      BY <1>2 DEF Accept, Now, Rest
    <2>2. candidate = 0
      BY <1>2, OnlyTrialsWhileTrying DEF Accept, Now
    <2> QED
      BY <2>1, <2>2, PopOrderly
  <1>3. CASE Finish
    <2>1. candidate' = 0
      BY <1>3, OnlyTrialsWhileTrying DEF Finish, Now
    <2>2. todo' = Epilogue("ok")
      BY <1>3 DEF Finish
    <2> QED
      BY <2>1, <2>2, EpilogueCalls DEF Orderly, Printing
  <1> QED
    BY <1>1, <1>2, <1>3

LEMMA CommandOrderly ==
  ASSUME TypeOK, Orderly, (\E j \in Commands : Command(j)) \/ CommandLastError
  PROVE  Orderly'
  <1>1. candidate' = 0
    BY DEF Command, CommandLastError, TypeOK
  <1>2. CASE \E j \in Commands : Command(j)
    <2>1. PICK j \in Commands : Command(j)
      BY <1>2
    <2>2. job' = j
      BY <2>1 DEF Command
    <2> QED
      BY <1>1, <2>1, <2>2, CommandCalls DEF Orderly
  <1>3. CASE CommandLastError
    <2>1. todo' = <<Simple("log"), Simple("show")>>
      BY <1>3 DEF CommandLastError
    <2> QED
      BY <1>1, <2>1 DEF Orderly, Simple
  <1> QED
    BY <1>2, <1>3

LEMMA NextOrderly ==
  ASSUME TypeOK, Orderly, [Next]_vars
  PROVE  Orderly'
  <1>1. CASE DoEnsure \/ DoExists \/ DoWrite \/ DoVerify \/ DoRead \/ DoList
    BY <1>1, CallsAreServed, ServedOrderly
  <1>2. CASE SetMismatch \/ Log \/ ShowError \/ Accept \/ Finish
    BY <1>2, PrintOrderly
  <1>3. CASE Return
    BY <1>3 DEF Return, Orderly
  <1>4. CASE UNCHANGED vars \/ \E v \in Volume, m \in Mode : Change(v, m)
    <2>1. UNCHANGED <<job, candidate, todo, uefi_fs_handle, bootstrap_verified>>
      BY <1>4 DEF vars, g_storage, control, Change
    <2> QED
      BY <2>1 DEF Orderly
  <1> QED
    BY <1>1, <1>2, <1>3, <1>4, SelectOrderly, SelectedOrderly, CommandOrderly
      DEF Next, Step

\* Every variable of the storage layer stays in its domain.
THEOREM TypeCorrect == Spec => []TypeOK
  <1> DEFINE Inv == TypeOK /\ Orderly
  <1>1. Init => Inv
    BY InitType
  <1>2. Inv /\ [Next]_vars => Inv'
    BY NextType, NextOrderly
  <1>3. Inv => TypeOK
    OBVIOUS
  <1> QED
    BY <1>1, <1>2, <1>3, PTL DEF Spec

-----------------------------------------------------------------------------
(* What a verified volume has been through *)

\* By the time the call k, which accepts the volume, is made, each directory is
\* there, the way to the marker has been made, and the marker has been read
\* back after the last time it was written.
Earned(k) ==
  /\ uefi_fs_handle \in Range(Candidates)
  /\ \A d \in Range(Dirs) : \/ tree[uefi_fs_handle][d] # "none"
                            \/ \E i \in 1..(k - 1) : todo[i] = On("ensure", d)
  /\ \/ \A d \in Way("marker") : tree[uefi_fs_handle][d] = "directory"
     \/ \E i \in 1..(k - 1) : todo[i] = On("write", "marker")
  /\ \/ file[uefi_fs_handle]["marker"] = Full
     \/ \E i \in 1..(k - 1) : todo[i] = On("verify", "marker")
  /\ \A i \in 1..(k - 1) : todo[i] = On("write", "marker") =>
       \E j \in (i + 1)..(k - 1) : todo[j] = On("verify", "marker")
  /\ \A i \in (k + 1)..Len(todo) : IsPlain(todo[i])

\* Nothing else touches the marker of a volume that is verified.
Accounted ==
  /\ bootstrap_verified => /\ candidate = 0
                           /\ \A i \in DOMAIN todo : /\ todo[i].op # "accept"
                                                     /\ todo[i] # On("write", "marker")
  /\ \A k \in DOMAIN todo : todo[k].op = "accept" => Earned(k)
  /\ VerifiedIsMarked

\* The selected volume, its tree and its marker stay as they are.
Undisturbed ==
  /\ UNCHANGED <<uefi_fs_handle, bootstrap_verified>>
  /\ TreeKept
  /\ \A v \in Volume : file'[v]["marker"] = file[v]["marker"]

LEMMA UndisturbedMark ==
  ASSUME TypeOK, VerifiedIsMarked, Undisturbed
  PROVE  VerifiedIsMarked'
  <1> SUFFICES ASSUME bootstrap_verified'
               PROVE  /\ uefi_fs_handle' \in Range(Candidates)
                      /\ \A d \in Range(Dirs) : tree'[uefi_fs_handle'][d] # "none"
                      /\ \A d \in Way("marker") : tree'[uefi_fs_handle'][d] = "directory"
                      /\ file'[uefi_fs_handle']["marker"] = Full
    BY DEF VerifiedIsMarked
  <1>1. /\ uefi_fs_handle' = uefi_fs_handle
        /\ uefi_fs_handle \in Range(Candidates)
        /\ \A d \in Range(Dirs) : tree[uefi_fs_handle][d] # "none"
        /\ \A d \in Way("marker") : tree[uefi_fs_handle][d] = "directory"
        /\ file[uefi_fs_handle]["marker"] = Full
    BY DEF VerifiedIsMarked, Undisturbed
  <1>2. uefi_fs_handle \in Volume
    BY <1>1 DEF Volume
  <1>3. \A d \in Way("marker") : d \in Range(Dirs)
    BY WayIsNamed DEF Path
  <1> QED
    BY <1>1, <1>2, <1>3 DEF Undisturbed, TreeKept

LEMMA TargetOfCandidates ==
  ASSUME uefi_fs_handle \in Range(Candidates)
  PROVE  Target = uefi_fs_handle /\ uefi_fs_handle \in Volume
  BY VolumesAssumption DEF Target, Volume

\* A call has been made and has come to what was asked for.
LEMMA EarnedPop ==
  ASSUME TypeOK, todo # <<>>, todo' = Tail(todo), UNCHANGED uefi_fs_handle, TreeKept,
         Achieved, Head(todo).op # "accept",
         \A v \in Volume : file'[v]["marker"] # file[v]["marker"] =>
           Head(todo) = On("write", "marker"),
         NEW k \in DOMAIN todo', Earned(k + 1)
  PROVE  Earned(k)'
  <1> DEFINE h == uefi_fs_handle
  <1>1. /\ Len(todo) \in Nat \ {0} /\ Head(todo) = todo[1]
        /\ Len(todo') = Len(todo) - 1 /\ k \in 1..(Len(todo) - 1)
        /\ \A i \in 1..(Len(todo) - 1) : todo'[i] = todo[i + 1]
    BY TailCalls DEF TypeOK
  <1>2. /\ h \in Range(Candidates) /\ h' = h /\ h \in Volume /\ Target = h
    BY TargetOfCandidates DEF Earned
  <1>3. ASSUME NEW c, \E i \in 1..k : todo[i] = c
        PROVE  Head(todo) = c \/ \E i \in 1..(k - 1) : todo'[i] = c
    <2>1. PICK i \in 1..k : todo[i] = c
      BY <1>3
    <2>2. CASE i = 1
      BY <1>1, <2>1, <2>2
    <2>3. CASE i # 1
      <3>1. i - 1 \in 1..(k - 1) /\ i - 1 \in 1..(Len(todo) - 1) /\ (i - 1) + 1 = i
        BY <1>1, <2>3
      <3>2. todo'[i - 1] = c
        BY <1>1, <2>1, <3>1
      <3> QED
        BY <3>1, <3>2
    <2> QED
      BY <2>2, <2>3
  <1>4. ASSUME NEW d \in Range(Dirs)
        PROVE  tree'[h][d] # "none" \/ \E i \in 1..(k - 1) : todo'[i] = On("ensure", d)
    <2>1. tree[h][d] # "none" \/ \E i \in 1..k : todo[i] = On("ensure", d)
      BY <1>1 DEF Earned
    <2>2. CASE tree[h][d] # "none"
      BY <1>2, <2>2 DEF TreeKept
    <2>3. CASE \E i \in 1..k : todo[i] = On("ensure", d)
      BY <1>2, <1>3, <2>3 DEF Achieved
    <2> QED
      BY <2>1, <2>2, <2>3
  <1>5. \/ \A d \in Way("marker") : tree'[h][d] = "directory"
        \/ \E i \in 1..(k - 1) : todo'[i] = On("write", "marker")
    <2>1. \/ \A d \in Way("marker") : tree[h][d] = "directory"
          \/ \E i \in 1..k : todo[i] = On("write", "marker")
      BY <1>1 DEF Earned
    <2>2. CASE \A d \in Way("marker") : tree[h][d] = "directory"
      <3>1. \A d \in Way("marker") : d \in Range(Dirs)
        BY WayIsNamed DEF Path
      <3> QED
        BY <1>2, <2>2, <3>1 DEF TreeKept
    <2>3. CASE \E i \in 1..k : todo[i] = On("write", "marker")
      BY <1>2, <1>3, <2>3 DEF Achieved
    <2> QED
      BY <2>1, <2>2, <2>3
  <1>6. ASSUME NEW i \in 1..(k - 1), todo'[i] = On("write", "marker")
        PROVE  \E j \in (i + 1)..(k - 1) : todo'[j] = On("verify", "marker")
    <2>1. i + 1 \in 1..((k + 1) - 1) /\ todo[i + 1] = On("write", "marker")
      BY <1>1, <1>6
    <2>2. PICK j \in ((i + 1) + 1)..((k + 1) - 1) : todo[j] = On("verify", "marker")
      BY <2>1 DEF Earned
    <2>3. j - 1 \in (i + 1)..(k - 1) /\ j - 1 \in 1..(Len(todo) - 1) /\ (j - 1) + 1 = j
      BY <1>1, <2>2
    <2> QED
      BY <1>1, <2>2, <2>3
  <1>7. \/ file'[h]["marker"] = Full
        \/ \E i \in 1..(k - 1) : todo'[i] = On("verify", "marker")
    <2>1. CASE Head(todo) = On("write", "marker")
      <3>1. 1 \in 1..((k + 1) - 1) /\ todo[1] = On("write", "marker")
        BY <1>1, <2>1
      <3>2. PICK j \in (1 + 1)..((k + 1) - 1) : todo[j] = On("verify", "marker")
        BY <3>1 DEF Earned
      <3>3. j - 1 \in 1..(k - 1) /\ j - 1 \in 1..(Len(todo) - 1) /\ (j - 1) + 1 = j
        BY <1>1, <3>2
      <3> QED
        BY <1>1, <3>2, <3>3
    <2>2. CASE Head(todo) # On("write", "marker")
      <3>1. file'[h]["marker"] = file[h]["marker"]
        BY <1>2, <2>2
      <3>2. file[h]["marker"] = Full \/ \E i \in 1..k : todo[i] = On("verify", "marker")
        BY <1>1 DEF Earned
      <3> QED
        BY <1>2, <1>3, <3>1, <3>2 DEF Achieved
    <2> QED
      BY <2>1, <2>2
  <1>8. ASSUME NEW i \in (k + 1)..Len(todo') PROVE IsPlain(todo'[i])
    <2>1. i + 1 \in ((k + 1) + 1)..Len(todo) /\ i \in 1..(Len(todo) - 1)
      BY <1>1
    <2> QED
      BY <1>1, <2>1 DEF Earned
  <1> QED
    BY <1>2, <1>4, <1>5, <1>6, <1>7, <1>8 DEF Earned

LEMMA PopAccounted ==
  ASSUME TypeOK, Accounted, todo # <<>>, Head(todo).op # "accept", todo' = Tail(todo),
         UNCHANGED <<candidate, uefi_fs_handle, bootstrap_verified>>, TreeKept, Achieved,
         \A v \in Volume : file'[v]["marker"] # file[v]["marker"] =>
           Head(todo) = On("write", "marker")
  PROVE  Accounted'
  <1>1. /\ DOMAIN todo = 1..Len(todo) /\ Head(todo) = todo[1] /\ Len(todo) \in Nat \ {0}
        /\ DOMAIN todo' = 1..(Len(todo) - 1)
        /\ \A i \in 1..(Len(todo) - 1) : todo'[i] = todo[i + 1]
    BY TailCalls DEF TypeOK
  <1>2. \A i \in DOMAIN todo' : i + 1 \in DOMAIN todo /\ todo'[i] = todo[i + 1]
    BY <1>1
  <1>3. bootstrap_verified' =>
          /\ candidate' = 0
          /\ \A i \in DOMAIN todo' : todo'[i].op # "accept" /\ todo'[i] # On("write", "marker")
    BY <1>2 DEF Accounted
  <1>4. ASSUME NEW k \in DOMAIN todo', todo'[k].op = "accept" PROVE Earned(k)'
    <2>1. Earned(k + 1)
      BY <1>2, <1>4 DEF Accounted
    <2> QED
      BY <2>1, EarnedPop
  <1>5. VerifiedIsMarked'
    <2>1. CASE bootstrap_verified
      <3>1. Head(todo) # On("write", "marker")
        BY <1>1, <2>1 DEF Accounted
      <3>2. Undisturbed
        BY <3>1 DEF Undisturbed
      <3> QED
        BY <3>2, UndisturbedMark DEF Accounted
    <2>2. CASE ~bootstrap_verified
      BY <2>2 DEF VerifiedIsMarked
    <2> QED
      BY <2>1, <2>2
  <1> QED
    BY <1>3, <1>4, <1>5 DEF Accounted

\* When a call fails, what is left to do accepts nothing.
LEMMA FailedAccounted ==
  ASSUME TypeOK, Orderly, Accounted, todo # <<>>, NEW e \in Seq(Call), Printing(e), Failed(e),
         TreeKept,
         \A v \in Volume : file'[v]["marker"] # file[v]["marker"] =>
           Head(todo) = On("write", "marker")
  PROVE  Accounted'
  <1>1. UNCHANGED bootstrap_verified /\ candidate \in 0..Len(Candidates)
    BY DEF Failed, TypeOK
  <1>2. \A i \in DOMAIN todo' : todo'[i].op # "accept" /\ todo'[i] # On("write", "marker")
    <2>1. todo' = Trial \/ todo' = e
      BY DEF Failed
    <2> QED
      BY <2>1, TrialOrder DEF Printing, On
  <1>3. CASE bootstrap_verified
    <2>1. candidate = 0
      BY <1>3 DEF Accounted
    <2>2. candidate' = 0 /\ UNCHANGED uefi_fs_handle
      BY <2>1 DEF Failed
    <2>3. Head(todo) # On("write", "marker")
      BY <1>3, TailCalls DEF Accounted, TypeOK
    <2>4. Undisturbed
      BY <1>1, <2>2, <2>3 DEF Undisturbed
    <2> QED
      BY <1>2, <2>2, <2>4, UndisturbedMark DEF Accounted
  <1>4. CASE ~bootstrap_verified
    BY <1>1, <1>2, <1>4 DEF Accounted, VerifiedIsMarked
  <1> QED
    BY <1>3, <1>4

LEMMA ServedAccounted ==
  ASSUME TypeOK, Orderly, Accounted, Served
  PROVE  Accounted'
  <1>1. todo # <<>> /\ Head(todo).op # "accept" /\ TreeKept
    BY DEF Served, MediumCall
  <1>2. ASSUME NEW v \in Volume, file'[v]["marker"] # file[v]["marker"]
        PROVE  Head(todo) = On("write", "marker")
    <2>1. "marker" \in Path
      BY DEF Path
    <2>2. Head(todo).path = "marker" /\ Head(todo).op = "write" /\ Head(todo) \in Call
      BY <1>1, <1>2, <2>1, TailCalls DEF Served, TypeOK
    <2> QED
      BY <2>2 DEF Call, On
  <1>3. CASE Done /\ Achieved
    BY <1>1, <1>2, <1>3, PopAccounted DEF Done
  <1>4. CASE \E e \in Seq(Call) : Printing(e) /\ Failed(e)
    BY <1>1, <1>2, <1>4, FailedAccounted
  <1> QED
    BY <1>3, <1>4 DEF Served

\* A command that has only to print leaves everything as it is.
LEMMA QuietAccounted ==
  ASSUME TypeOK, Accounted, Undisturbed,
         bootstrap_verified => candidate' = 0,
         \A i \in DOMAIN todo' : todo'[i].op # "accept" /\ todo'[i] # On("write", "marker")
  PROVE  Accounted'
  <1>1. VerifiedIsMarked'
    BY UndisturbedMark DEF Accounted
  <1> QED
    BY <1>1 DEF Accounted, Undisturbed

LEMMA MediumUndisturbed ==
  ASSUME UNCHANGED <<medium, uefi_fs_handle, bootstrap_verified>>
  PROVE  Undisturbed
  BY DEF Undisturbed, TreeKept, medium

LEMMA InitAccounted == Init => Accounted
  BY DEF Init, Accounted, VerifiedIsMarked, Simple

LEMMA SelectAccounted ==
  ASSUME TypeOK, Select
  PROVE  Accounted'
  <1>1. bootstrap_verified' = FALSE
    BY DEF Select
  <1>2. todo' = Trial \/ todo' = Epilogue("failed")
    BY DEF Select
  <1>3. \A i \in DOMAIN todo' : todo'[i].op # "accept"
    BY <1>2, TrialOrder, EpilogueCalls DEF Printing
  <1> QED
    BY <1>1, <1>3 DEF Accounted, VerifiedIsMarked

\* With the volume that has been found begins all that it takes to verify it.
LEMMA SelectedAccounted ==
  ASSUME TypeOK, Orderly, Accounted, Selected
  PROVE  Accounted'
  <1> DEFINE n == 2 * Len(Dirs) + 3
  <1>1. todo # <<>> /\ job \in Selects /\ candidate # 0
    BY TailCalls DEF Selected, Now, Orderly, TypeOK
  <1>2. /\ uefi_fs_handle = Candidates[candidate] /\ ~bootstrap_verified
        /\ candidate \in 1..Len(Candidates)
    BY <1>1, VolumesAreNamed DEF Orderly, TypeOK
  <1>3. UNCHANGED <<uefi_fs_handle, bootstrap_verified>>
    BY DEF Selected
  <1>4. PICK rest \in Seq(Call) : Plain(rest) /\ todo' = Bootstrap \o rest
    BY <1>1, CallsOfSelects DEF Selected
  <1>5. /\ Len(Dirs) \in Nat /\ n \in 1..Len(todo') /\ DOMAIN todo' = 1..Len(todo')
        /\ \A i \in 1..Len(Dirs) : todo'[i] = On("ensure", Dirs[i])
        /\ todo'[n - 2] = On("write", "marker")
        /\ todo'[n - 1] = On("verify", "marker")
        /\ \A i \in 1..Len(todo') : i \notin {n - 2, n} => IsPlain(todo'[i])
    BY <1>4, BootstrapBefore
  <1>6. ASSUME NEW k \in DOMAIN todo', todo'[k].op = "accept" PROVE k = n
    <2>1. k # n - 2
      BY <1>5, <1>6 DEF On
    <2> QED
      BY <1>5, <1>6, <2>1 DEF IsPlain
  <1>7. Earned(n)'
    <2>1. uefi_fs_handle' \in Range(Candidates)
      BY <1>2, <1>3, VolumesAreNamed
    <2>2. ASSUME NEW d \in Range(Dirs)
          PROVE  \E i \in 1..(n - 1) : todo'[i] = On("ensure", d)
      <3>1. PICK i \in 1..Len(Dirs) : d = Dirs[i]
        BY DirsAreNamed
      <3>2. i \in 1..(n - 1)
        BY <1>5, <3>1
      <3> QED
        BY <1>5, <3>1, <3>2
    <2>3. n - 2 \in 1..(n - 1) /\ n - 1 \in 1..(n - 1)
      BY <1>5
    <2>4. ASSUME NEW i \in 1..(n - 1), todo'[i] = On("write", "marker")
          PROVE  \E j \in (i + 1)..(n - 1) : todo'[j] = On("verify", "marker")
      <3>1. i = n - 2
        <4>1. i \in 1..Len(todo') /\ i # n
          BY <1>5
        <4> QED
          BY <1>5, <2>4, <4>1 DEF IsPlain
      <3>2. n - 1 \in (i + 1)..(n - 1)
        BY <1>5, <3>1
      <3> QED
        BY <1>5, <3>2
    <2>5. \A i \in (n + 1)..Len(todo') : IsPlain(todo'[i])
      <3>1. \A i \in (n + 1)..Len(todo') : i \in 1..Len(todo') /\ i \notin {n - 2, n}
        BY <1>5
      <3> QED
        BY <1>5, <3>1
    <2> QED
      BY <1>5, <2>1, <2>2, <2>3, <2>4, <2>5 DEF Earned
  <1> QED
    BY <1>2, <1>3, <1>6, <1>7 DEF Accounted, VerifiedIsMarked

\* The volume is accepted: everything has been done to it before.
LEMMA AcceptAccounted ==
  ASSUME TypeOK, Orderly, Accounted, Accept
  PROVE  Accounted'
  <1>1. /\ todo # <<>> /\ Head(todo).op = "accept" /\ todo' = Tail(todo)
        /\ UNCHANGED <<tree, file, uefi_fs_handle, candidate>>
    BY DEF Accept, Now, medium
  <1>2. /\ DOMAIN todo = 1..Len(todo) /\ Head(todo) = todo[1] /\ Len(todo) \in Nat \ {0}
        /\ DOMAIN todo' = 1..(Len(todo) - 1)
        /\ \A i \in 1..(Len(todo) - 1) : todo'[i] = todo[i + 1]
    BY <1>1, TailCalls DEF TypeOK
  <1>3. Earned(1)
    BY <1>1, <1>2 DEF Accounted
  <1>4. 1..(1 - 1) = {}
    OBVIOUS
  <1>5. VerifiedIsMarked'
    BY <1>1, <1>3, <1>4 DEF Earned, VerifiedIsMarked
  <1>6. \A i \in DOMAIN todo' : IsPlain(todo'[i])
    <2>1. \A i \in 1..(Len(todo) - 1) : i + 1 \in (1 + 1)..Len(todo)
      BY <1>2
    <2> QED
      BY <1>2, <1>3, <2>1 DEF Earned
  <1>7. candidate' = 0
    BY <1>1, OnlyTrialsWhileTrying DEF Accept
  <1> QED
    BY <1>5, <1>6, <1>7 DEF Accounted, IsPlain

LEMMA PrintAccounted ==
  ASSUME TypeOK, Orderly, Accounted, SetMismatch \/ Log \/ ShowError \/ Finish
  PROVE  Accounted'
  <1>1. Undisturbed /\ UNCHANGED candidate
    BY MediumUndisturbed DEF SetMismatch, Log, ShowError, Finish, g_storage
  <1>2. CASE SetMismatch \/ Log \/ ShowError
    <2>1. /\ todo # <<>> /\ Head(todo).op \in {"mismatch", "log", "show"} /\ todo' = Tail(todo)
          /\ UNCHANGED <<candidate, uefi_fs_handle, bootstrap_verified>>
      BY <1>2 DEF SetMismatch, Log, ShowError, Now, g_storage
    <2>2. Achieved /\ Head(todo).op # "accept"
      BY <2>1 DEF Achieved, On
    <2> QED
      BY <1>1, <2>1, <2>2, PopAccounted DEF Undisturbed
  <1>3. CASE Finish
    <2>1. todo' = Epilogue("ok") /\ candidate = 0
      BY <1>3, OnlyTrialsWhileTrying DEF Finish, Now
    <2> QED
      BY <1>1, <2>1, EpilogueCalls, QuietAccounted DEF Printing, On
  <1> QED
    BY <1>2, <1>3

LEMMA CommandAccounted ==
  ASSUME TypeOK, Accounted, (\E j \in Commands : Command(j)) \/ CommandLastError
  PROVE  Accounted'
  <1>1. Undisturbed /\ candidate' = 0
    BY MediumUndisturbed DEF Command, CommandLastError, g_storage, TypeOK
  <1>2. \A i \in DOMAIN todo' : todo'[i].op # "accept" /\ todo'[i] # On("write", "marker")
    <2>1. CASE \E j \in Commands : Command(j)
      BY <2>1, CommandCalls
    <2>2. CASE CommandLastError
      BY <2>2 DEF CommandLastError, Simple, On
    <2> QED
      BY <2>1, <2>2
  <1> QED
    BY <1>1, <1>2, QuietAccounted

LEMMA NextAccounted ==
  ASSUME TypeOK, Orderly, Accounted, [Next]_vars
  PROVE  Accounted'
  <1>1. CASE DoEnsure \/ DoExists \/ DoWrite \/ DoVerify \/ DoRead \/ DoList
    BY <1>1, CallsAreServed, ServedAccounted
  <1>2. CASE SetMismatch \/ Log \/ ShowError \/ Finish
    BY <1>2, PrintAccounted
  <1>3. CASE Return
    <2>1. UNCHANGED <<tree, file, uefi_fs_handle, bootstrap_verified, candidate, todo>>
      BY <1>3 DEF Return, medium, g_storage
    <2> QED
      BY <2>1 DEF Accounted, Earned, VerifiedIsMarked
  <1>4. CASE UNCHANGED vars \/ \E v \in Volume, m \in Mode : Change(v, m)
    <2>1. UNCHANGED <<tree, file, uefi_fs_handle, bootstrap_verified, candidate, todo>>
      BY <1>4 DEF vars, medium, g_storage, control, Change
    <2> QED
      BY <2>1 DEF Accounted, Earned, VerifiedIsMarked
  <1> QED
    BY <1>1, <1>2, <1>3, <1>4, SelectAccounted, SelectedAccounted, AcceptAccounted,
       CommandAccounted DEF Next, Step

\* uefi_fs_handle, g_storage.bootstrap_verified: a volume counts as verified
\* only with the whole tree and the marker on it, on whatever volumes and
\* directories, and however calls fail and volumes come and go.
THEOREM AlwaysMarked == Spec => []VerifiedIsMarked
  <1> DEFINE Inv == TypeOK /\ Orderly /\ Accounted
  <1>1. Init => Inv
    BY InitType, InitAccounted
  <1>2. Inv /\ [Next]_vars => Inv'
    BY NextType, NextOrderly, NextAccounted
  <1>3. Inv => VerifiedIsMarked
    BY DEF Accounted
  <1> QED
    BY <1>1, <1>2, <1>3, PTL DEF Spec

-----------------------------------------------------------------------------
(* The first writable volume *)

\* The calls by which a volume is tried and bootstrapped.
IsStep(c) ==
  \/ c.op \in {"ensure", "exists"}
  \/ \E p \in {"probe", "marker"} : c \in {On("write", p), On("verify", p)}

\* What the calls before the call k need is there, or is made by one before them.
Ready(k) ==
  \A i \in 1..(k - 1) :
    /\ todo[i].op \in {"ensure", "exists"} =>
         \A a \in Above[todo[i].path] : \/ tree[uefi_fs_handle][a] # "none"
                                        \/ \E j \in 1..(i - 1) : todo[j] = On("ensure", a)
    /\ todo[i].op = "exists" =>
         \/ tree[uefi_fs_handle][todo[i].path] # "none"
         \/ \E j \in 1..(i - 1) : todo[j] = On("ensure", todo[i].path)
    /\ \A p \in {"probe", "marker"} : todo[i] = On("verify", p) =>
         \/ file[uefi_fs_handle][p] = Full
         \/ \E j \in 1..(i - 1) : todo[j] = On("write", p)

\* What the calls before the call k have not shown yet of the volume they try.
Tried(k) ==
  /\ \A d \in Range(Dirs) :
       \/ \A a \in Above[d] : tree[uefi_fs_handle][a] = "directory"
       \/ \E i \in 1..(k - 1) : todo[i] = On("ensure", d)
  /\ \/ /\ mode[uefi_fs_handle] = "rw"
        /\ \A d \in Way("probe") : tree[uefi_fs_handle][d] = "directory"
     \/ \E i \in 1..(k - 1) : todo[i] = On("write", "probe")

\* Nothing in front of the candidate c could have been taken.
Foremost(c) == c \in DOMAIN Candidates /\ \A i \in 1..(c - 1) : ~Writable(i)

\* The volume c is tried by the calls before the call k, or is bootstrapped.
Working(c, k) ==
  /\ Foremost(c) /\ uefi_fs_handle = Candidates[c]
  /\ Writable(c) => Ready(k)
  /\ todo[k].op = "accept"   => Writable(c)
  /\ todo[k].op = "selected" => c = candidate /\ Tried(k)

\* A selection has come to its end.
Settled ==
  \/ /\ bootstrap_verified
     /\ \E c \in DOMAIN Candidates :
          Foremost(c) /\ Writable(c) /\ uefi_fs_handle = Candidates[c]
  \/ ~bootstrap_verified /\ \A i \in DOMAIN Candidates : ~Writable(i)

\* No volume behind a writable one is written to.
Untouched ==
  \A i, j \in DOMAIN Candidates :
    i < j /\ Writable(i) => \A p \in Path : file[Candidates[j]][p] = NoFile

Chosen ==
  /\ \A k \in DOMAIN todo : todo[k].op = "select" =>
       \A i \in DOMAIN todo : todo[i].op \in {"log", "select"}
  /\ \A k \in DOMAIN todo : todo[k].op \in {"selected", "accept"} =>
       /\ \E c \in DOMAIN Candidates : Working(c, k)
       /\ \A i \in 1..(k - 1) : IsStep(todo[i])
  /\ (\A i \in DOMAIN todo : todo[i].op \notin {"select", "selected", "accept"}) => Settled
  /\ Untouched

LEMMA CandidatesDiffer ==
  ASSUME NEW i \in DOMAIN Candidates, NEW j \in DOMAIN Candidates, Candidates[i] = Candidates[j]
  PROVE  i = j
  BY VolumesAssumption

\* As long as the mode of no volume changes, a volume stays as writable as it is.
LEMMA WritableKept ==
  ASSUME TypeOK, TreeKept, UNCHANGED mode, NEW i \in DOMAIN Candidates
  PROVE  Writable(i)' <=> Writable(i)
  <1>1. Candidates[i] \in Volume
    BY VolumesAreNamed
  <1>2. \A d \in Range(Dirs) : tree'[Candidates[i]][d] = "file" <=> tree[Candidates[i]][d] = "file"
    BY <1>1 DEF TreeKept
  <1> QED
    BY <1>2 DEF Writable

LEMMA ForemostKept ==
  ASSUME TypeOK, TreeKept, UNCHANGED mode, NEW c, Foremost(c)
  PROVE  Foremost(c)'
  <1>1. c \in 1..Len(Candidates) /\ DOMAIN Candidates = 1..Len(Candidates)
          /\ Len(Candidates) \in Nat
    BY VolumesAreNamed DEF Foremost
  <1>2. \A i \in 1..(c - 1) : i \in DOMAIN Candidates
    BY <1>1
  <1> QED
    BY <1>2, WritableKept DEF Foremost

LEMMA SettledKept ==
  ASSUME TypeOK, TreeKept, UNCHANGED <<mode, uefi_fs_handle, bootstrap_verified>>, Settled
  PROVE  Settled'
  BY WritableKept, ForemostKept DEF Settled

\* The volume that calls are made of has none in front of it that could have been taken.
Leading ==
  \A i, j \in DOMAIN Candidates : i < j /\ Target = Candidates[j] => ~Writable(i)

LEMMA ForemostLeads ==
  ASSUME NEW c \in DOMAIN Candidates, Foremost(c), uefi_fs_handle = Candidates[c]
  PROVE  Leading
  <1>1. Target = Candidates[c]
    BY VolumesAreNamed, TargetOfCandidates
  <1>2. DOMAIN Candidates = 1..Len(Candidates) /\ Len(Candidates) \in Nat
    BY VolumesAreNamed
  <1>3. ASSUME NEW i \in DOMAIN Candidates, NEW j \in DOMAIN Candidates,
               i < j, Target = Candidates[j]
        PROVE  ~Writable(i)
    <2>1. j = c
      BY <1>1, <1>3, CandidatesDiffer
    <2>2. i \in 1..(c - 1)
      BY <1>2, <1>3, <2>1
    <2> QED
      BY <2>2 DEF Foremost
  <1> QED
    BY <1>3 DEF Leading

LEMMA ChosenLeads ==
  ASSUME TypeOK, Chosen, todo # <<>>, Head(todo).op \in MediumCall
  PROVE  Leading
  <1>1. \A k \in DOMAIN todo : todo[k].op # "select"
    <2>1. 1 \in DOMAIN todo /\ todo[1].op \in MediumCall
      BY TailCalls DEF TypeOK
    <2> QED
      BY <2>1 DEF Chosen, MediumCall
  <1>2. CASE \E k \in DOMAIN todo : todo[k].op \in {"selected", "accept"}
    BY <1>2, ForemostLeads DEF Chosen, Working
  <1>3. CASE ~\E k \in DOMAIN todo : todo[k].op \in {"selected", "accept"}
    <2>1. Settled
      BY <1>1, <1>3 DEF Chosen
    <2> QED
      BY <2>1, ForemostLeads DEF Settled, Leading
  <1> QED
    BY <1>2, <1>3

LEMMA UntouchedKept ==
  ASSUME TypeOK, TreeKept, UNCHANGED mode, Untouched,
         file' = file \/ (/\ Leading
                          /\ \A v \in Volume, p \in Path : file'[v][p] # file[v][p] => v = Target)
  PROVE  Untouched'
  <1> SUFFICES ASSUME NEW i \in DOMAIN Candidates, NEW j \in DOMAIN Candidates,
                      i < j, Writable(i)', NEW p \in Path
               PROVE  file'[Candidates[j]][p] = NoFile
    BY DEF Untouched
  <1>1. Writable(i) /\ Candidates[j] \in Volume
    BY WritableKept, VolumesAreNamed
  <1>2. file[Candidates[j]][p] = NoFile
    BY <1>1 DEF Untouched
  <1> QED
    BY <1>1, <1>2 DEF Leading

-----------------------------------------------------------------------------
(* Calls without a fault *)

\* What the next call needs to succeed.
Granted ==
  LET p == Head(todo).path IN
    /\ Head(todo).op = "ensure" => Exists(p) \/ Creatable(p)
    /\ Head(todo).op = "exists" => Exists(p)
    /\ Head(todo).op = "write"  => /\ mode[Target] = "rw"
                                   /\ \A d \in Way(p) : tree[Target][d] # "file"
    /\ Head(todo).op = "verify" => mode[Target] # "gone" /\ file[Target][p] = Full

\* What a call shows of the volume when it succeeds.
Answered ==
  LET p == Head(todo).path IN
    /\ Head(todo).op = "ensure" => Reachable(p) /\ tree'[Target][p] # "none"
    /\ Head(todo).op = "write"  => /\ mode[Target] = "rw"
                                   /\ \A d \in Way(p) : tree'[Target][d] = "directory"
                                   /\ file'[Target][p] = Full

Clean ==
  \/ Done /\ Answered
  \/ /\ ~Granted /\ UNCHANGED file
     /\ \E e \in Seq(Call) : Printing(e) /\ Failed(e)

LEMMA NoFault ==
  ASSUME faults = 0, faults' = 0, NEW cost \in {0, 1}, Fault(cost)
  PROVE  cost = 0
  BY DEF Fault

LEMMA CleanEnsure ==
  ASSUME TypeOK, Sound, Sound', DoEnsure
  PROVE  Clean
  <1> DEFINE d == Head(todo).path
             possible == Exists(d) \/ Creatable(d)
  <1>1. Head(todo).op = "ensure" /\ d \in Range(Dirs) /\ UNCHANGED file
    BY NowCall DEF DoEnsure
  <1>2. CASE possible /\ tree' = Made({d}) /\ Done
    <2>1. Reachable(d) /\ tree'[Target][d] # "none"
      BY <1>1, <1>2, MadeType DEF Exists, Creatable
    <2> QED
      BY <1>1, <1>2, <2>1 DEF Clean, Answered
  <1>3. CASE Failed(Epilogue("failed")) /\ (IF possible THEN Fault(1) ELSE Fault(0))
    <2>1. ~possible
      BY <1>3, NoFault DEF Sound
    <2> QED
      BY <1>1, <1>3, <2>1, FailedPrints DEF Clean, Granted
  <1> QED
    BY <1>2, <1>3 DEF DoEnsure

LEMMA CleanExists ==
  ASSUME TypeOK, Sound, Sound', DoExists
  PROVE  Clean
  <1> DEFINE d == Head(todo).path
  <1>1. Head(todo).op = "exists" /\ UNCHANGED file
    BY NowCall DEF DoExists, medium
  <1>2. CASE Done
    BY <1>1, <1>2 DEF Clean, Answered
  <1>3. CASE Failed(Epilogue("failed")) /\ (IF Exists(d) THEN Fault(1) ELSE Fault(0))
    <2>1. ~Exists(d)
      BY <1>3, NoFault DEF Sound
    <2> QED
      BY <1>1, <1>3, <2>1, FailedPrints DEF Clean, Granted
  <1> QED
    BY <1>2, <1>3 DEF DoExists

LEMMA CleanVerify ==
  ASSUME TypeOK, Sound, Sound', DoVerify
  PROVE  Clean
  <1> DEFINE p == Head(todo).path
  <1>1. Head(todo).op = "verify" /\ UNCHANGED file
    BY NowCall DEF DoVerify, medium
  <1>2. PICK r \in ReadTarget(p) \union {ReadFault} :
          /\ Fault(Cost(r, ReadTarget(p)))
          /\ IF r.ok /\ r.text = Full THEN Done
             ELSE IF r.ok THEN Failed(Mismatch)
             ELSE Failed(Epilogue("failed"))
    BY DEF DoVerify
  <1>3. r \in ReadTarget(p)
    BY <1>2, NoFault DEF Sound, Cost
  <1>4. CASE r.ok /\ r.text = Full
    BY <1>1, <1>2, <1>4 DEF Clean, Answered
  <1>5. CASE ~(r.ok /\ r.text = Full)
    <2>1. \E e \in Seq(Call) : Printing(e) /\ Failed(e)
      BY <1>2, <1>5, FailedPrints
    <2>2. ASSUME mode[Target] # "gone", file[Target][p] = Full PROVE FALSE
      <3>1. r \in ReadDone(Full, 2)
        BY <1>3, <2>2 DEF ReadTarget
      <3>2. Full # NoFile
        BY NoFileAssumption DEF Full
      <3>3. r = [ok |-> TRUE, text |-> SubSeq(Full, 1, 1)]
        BY <3>1, <3>2, FullIsText DEF ReadDone
      <3>4. SubSeq(Full, 1, 1) = Full
        BY FullIsText, SubSeqFull
      <3> QED
        BY <1>5, <3>3, <3>4
    <2> QED
      BY <1>1, <2>1, <2>2 DEF Clean, Granted
  <1> QED
    BY <1>4, <1>5

LEMMA CleanWrite ==
  ASSUME TypeOK, Sound, Sound', DoWrite
  PROVE  Clean
  <1> DEFINE p == Head(todo).path
             old == file[Target][p]
             possible == mode[Target] = "rw" /\ \A d \in Way(p) : tree[Target][d] # "file"
             refused == [ok |-> FALSE, file |-> old]
             asked == IF possible THEN WriteDone(Full) ELSE {refused}
             faulty == IF possible THEN WriteFaults(old, Full) ELSE {}
  <1>1. Head(todo).op = "write" /\ p \in Path /\ Target \in Volume
    BY NowCall, TargetIsVolume DEF DoWrite
  <1>2. PICK r \in asked \union faulty :
          /\ Fault(Cost(r, asked))
          /\ file' = [file EXCEPT ![Target][p] = r.file]
          /\ IF r.ok THEN Done ELSE Failed(Epilogue("failed"))
          /\ IF ~possible THEN UNCHANGED tree
             ELSE \E made \in UpperPartsOf(Way(p)) :
                    /\ made # Way(p) => r = refused
                    /\ tree' = Made(made)
    BY DEF DoWrite
  <1>3. r \in asked
    BY <1>2, NoFault DEF Sound, Cost
  <1>4. CASE possible
    <2>1. r = [ok |-> TRUE, file |-> Full]
      BY <1>3, <1>4 DEF WriteDone
    <2>2. r # refused
      BY <2>1
    <2>3. tree' = Made(Way(p)) /\ Done
      BY <1>2, <1>4, <2>1, <2>2
    <2>4. \A d \in Way(p) : tree'[Target][d] = "directory"
      BY <1>1, <1>4, <2>3, MadeType, WayIsNamed
    <2>5. file'[Target][p] = Full
      BY <1>1, <1>2, <2>1 DEF TypeOK
    <2> QED
      BY <1>1, <1>4, <2>3, <2>4, <2>5 DEF Clean, Answered
  <1>5. CASE ~possible
    <2>1. r = refused
      BY <1>3, <1>5
    <2>2. Failed(Epilogue("failed")) /\ file' = [file EXCEPT ![Target][p] = old]
      BY <1>2, <2>1
    <2>3. UNCHANGED file
      BY <1>1, <2>2 DEF TypeOK
    <2> QED
      BY <1>1, <1>5, <2>2, <2>3, FailedPrints DEF Clean, Granted
  <1> QED
    BY <1>4, <1>5

\* A volume that can be written to grants whatever is asked of it.
LEMMA WritableGrants ==
  ASSUME TypeOK, todo # <<>>, IsStep(Head(todo)), NEW c \in DOMAIN Candidates,
         uefi_fs_handle = Candidates[c], Writable(c), NEW k \in DOMAIN todo, k # 1, Ready(k)
  PROVE  Granted
  <1> DEFINE h == uefi_fs_handle
             p == Head(todo).path
  <1>1. h \in Volume /\ Target = h /\ mode[h] = "rw"
    BY VolumesAreNamed, TargetOfCandidates DEF Writable
  <1>2. 1 \in 1..(k - 1) /\ Head(todo) = todo[1] /\ Head(todo) \in Call
    BY TailCalls DEF TypeOK
  <1>3. \A j \in 1..(1 - 1) : FALSE
    OBVIOUS
  <1>4. /\ todo[1].op \in {"ensure", "exists"} => \A a \in Above[p] : tree[h][a] # "none"
        /\ todo[1].op = "exists" => tree[h][p] # "none"
        /\ \A q \in {"probe", "marker"} : todo[1] = On("verify", q) => file[h][q] = Full
    BY <1>2, <1>3 DEF Ready
  <1>5. CASE Head(todo).op \in {"ensure", "exists"}
    <2>1. p \in Range(Dirs)
      BY <1>2, <1>5 DEF Call
    <2>2. ASSUME NEW a \in Above[p] PROVE tree[h][a] = "directory"
      <3>1. a \in Range(Dirs)
        BY <2>1, TreeAssumption
      <3>2. tree[h][a] # "none" /\ tree[h][a] \in {"none", "directory", "file"}
        BY <1>1, <1>2, <1>4, <1>5, <3>1 DEF TypeOK, Node
      <3>3. tree[h][a] # "file"
        BY <2>1, <3>1 DEF Writable
      <3> QED
        BY <3>2, <3>3
    <2>3. Reachable(p)
      BY <1>1, <2>2 DEF Reachable
    <2> QED
      BY <1>1, <1>2, <1>4, <1>5, <2>3 DEF Granted, Exists, Creatable
  <1>6. CASE \E q \in {"probe", "marker"} : Head(todo) \in {On("write", q), On("verify", q)}
    <2>1. PICK q \in {"probe", "marker"} : Head(todo) \in {On("write", q), On("verify", q)}
      BY <1>6
    <2>2. p = q /\ q \in Path /\ Way(q) = Way("probe")
      BY <2>1, TreeAssumption DEF On, Way, Path
    <2>3. \A d \in Way(q) : tree[h][d] # "file"
      BY <2>2, WayIsNamed DEF Writable
    <2>4. Head(todo) = On("verify", q) => file[h][q] = Full
      BY <1>2, <1>4
    <2> QED
      BY <1>1, <2>1, <2>2, <2>3, <2>4 DEF Granted, On
  <1> QED
    BY <1>5, <1>6 DEF IsStep

\* A call by which a volume was tried or bootstrapped has been made.
Passed ==
  /\ todo # <<>> /\ todo' = Tail(todo) /\ UNCHANGED <<mode, uefi_fs_handle>>
  /\ TreeKept /\ Answered
  /\ \A v \in Volume, p \in Path : file'[v][p] # file[v][p] => Head(todo) = On("write", p)

LEMMA TailOf ==
  ASSUME TypeOK, todo # <<>>, todo' = Tail(todo), NEW k \in DOMAIN todo'
  PROVE  /\ k \in Nat \ {0} /\ k + 1 \in DOMAIN todo /\ k + 1 # 1 /\ todo'[k] = todo[k + 1]
         /\ Head(todo) = todo[1]
         /\ \A i \in 1..(k - 1) : /\ i \in DOMAIN todo' /\ todo'[i] = todo[i + 1]
                                  /\ i + 1 \in 1..((k + 1) - 1)
  <1>1. /\ Len(todo) \in Nat \ {0} /\ DOMAIN todo = 1..Len(todo)
        /\ DOMAIN todo' = 1..(Len(todo) - 1) /\ Head(todo) = todo[1]
        /\ \A i \in 1..(Len(todo) - 1) : todo'[i] = todo[i + 1]
    BY TailCalls DEF TypeOK
  <1> QED
    BY <1>1

\* What was to be made by one of the calls up to i is made now or by one of the rest.
LEMMA HeadOrTail ==
  ASSUME TypeOK, todo # <<>>, todo' = Tail(todo), NEW k \in DOMAIN todo', NEW i \in 1..k,
         NEW c, \E j \in 1..((i + 1) - 1) : todo[j] = c
  PROVE  Head(todo) = c \/ \E j \in 1..(i - 1) : todo'[j] = c
  <1>1. PICK j \in 1..((i + 1) - 1) : todo[j] = c
    OBVIOUS
  <1>2. Head(todo) = todo[1] /\ k \in Nat \ {0}
          /\ \A n \in 1..(k - 1) : todo'[n] = todo[n + 1]
    BY TailOf
  <1>3. CASE j = 1
    BY <1>1, <1>2, <1>3
  <1>4. CASE j # 1
    <2>1. j - 1 \in 1..(i - 1) /\ j - 1 \in 1..(k - 1) /\ (j - 1) + 1 = j
      BY <1>1, <1>2, <1>4
    <2> QED
      BY <1>1, <1>2, <2>1
  <1> QED
    BY <1>3, <1>4

LEMMA ReadyPop ==
  ASSUME TypeOK, Passed, uefi_fs_handle \in Range(Candidates),
         NEW k \in DOMAIN todo', Ready(k + 1)
  PROVE  Ready(k)'
  <1> DEFINE h == uefi_fs_handle
  <1>1. h \in Volume /\ Target = h /\ h' = h
    BY TargetOfCandidates DEF Passed
  <1>2. \A d \in Range(Dirs) : tree[h][d] # "none" => tree'[h][d] # "none"
    BY <1>1 DEF Passed, TreeKept
  <1>3. todo # <<>> /\ todo' = Tail(todo)
    BY DEF Passed
  <1> SUFFICES ASSUME NEW i \in 1..(k - 1)
               PROVE  /\ todo'[i].op \in {"ensure", "exists"} =>
                           \A a \in Above[todo'[i].path] :
                             \/ tree'[h][a] # "none"
                             \/ \E j \in 1..(i - 1) : todo'[j] = On("ensure", a)
                      /\ todo'[i].op = "exists" =>
                           \/ tree'[h][todo'[i].path] # "none"
                           \/ \E j \in 1..(i - 1) : todo'[j] = On("ensure", todo'[i].path)
                      /\ \A p \in {"probe", "marker"} : todo'[i] = On("verify", p) =>
                           \/ file'[h][p] = Full
                           \/ \E j \in 1..(i - 1) : todo'[j] = On("write", p)
    BY <1>1 DEF Ready
  <1>4. /\ todo'[i] = todo[i + 1] /\ i + 1 \in 1..((k + 1) - 1) /\ i \in 1..k
        /\ i \in DOMAIN todo' /\ i + 1 \in DOMAIN todo /\ todo[i + 1] \in Call
    <2>1. /\ todo'[i] = todo[i + 1] /\ i + 1 \in 1..((k + 1) - 1) /\ i \in DOMAIN todo'
          /\ k \in Nat
      BY <1>3, TailOf
    <2>2. i + 1 \in DOMAIN todo
      BY <1>3, <2>1, TailOf
    <2>3. todo[i + 1] \in Call
      BY <2>2 DEF TypeOK
    <2> QED
      BY <2>1, <2>2, <2>3
  <1>5. ASSUME NEW a \in Range(Dirs),
               \/ tree[h][a] # "none"
               \/ \E j \in 1..((i + 1) - 1) : todo[j] = On("ensure", a)
        PROVE  \/ tree'[h][a] # "none"
               \/ \E j \in 1..(i - 1) : todo'[j] = On("ensure", a)
    <2>1. CASE tree[h][a] # "none"
      BY <1>2, <2>1
    <2>2. CASE \E j \in 1..((i + 1) - 1) : todo[j] = On("ensure", a)
      <3>1. Head(todo) = On("ensure", a) \/ \E j \in 1..(i - 1) : todo'[j] = On("ensure", a)
        BY <1>3, <1>4, <2>2, HeadOrTail
      <3>2. Head(todo) = On("ensure", a) => tree'[h][a] # "none"
        BY <1>1 DEF Passed, Answered, On
      <3> QED
        BY <3>1, <3>2
    <2> QED
      BY <1>5, <2>1, <2>2
  <1>6. ASSUME NEW p \in {"probe", "marker"},
               \/ file[h][p] = Full
               \/ \E j \in 1..((i + 1) - 1) : todo[j] = On("write", p)
        PROVE  \/ file'[h][p] = Full
               \/ \E j \in 1..(i - 1) : todo'[j] = On("write", p)
    <2>1. Head(todo) = On("write", p) => file'[h][p] = Full
      BY <1>1 DEF Passed, Answered, On
    <2>2. CASE file[h][p] = Full
      BY <1>1, <2>1, <2>2 DEF Passed, Path
    <2>3. CASE \E j \in 1..((i + 1) - 1) : todo[j] = On("write", p)
      <3>1. Head(todo) = On("write", p) \/ \E j \in 1..(i - 1) : todo'[j] = On("write", p)
        BY <1>3, <1>4, <2>3, HeadOrTail
      <3> QED
        BY <2>1, <3>1
    <2> QED
      BY <1>6, <2>2, <2>3
  <1>7. ASSUME todo'[i].op \in {"ensure", "exists"}
        PROVE  /\ todo'[i].path \in Range(Dirs)
               /\ \A a \in Above[todo'[i].path] : a \in Range(Dirs)
    <2>1. todo'[i].path \in Range(Dirs)
      BY <1>4, <1>7 DEF Call
    <2> QED
      BY <2>1, TreeAssumption
  <1>8. /\ todo'[i].op \in {"ensure", "exists"} =>
             \A a \in Above[todo'[i].path] :
               \/ tree[h][a] # "none"
               \/ \E j \in 1..((i + 1) - 1) : todo[j] = On("ensure", a)
        /\ todo'[i].op = "exists" =>
             \/ tree[h][todo'[i].path] # "none"
             \/ \E j \in 1..((i + 1) - 1) : todo[j] = On("ensure", todo'[i].path)
        /\ \A p \in {"probe", "marker"} : todo'[i] = On("verify", p) =>
             \/ file[h][p] = Full
             \/ \E j \in 1..((i + 1) - 1) : todo[j] = On("write", p)
    BY <1>4 DEF Ready
  <1> HIDE DEF h
  <1>9. todo'[i].op \in {"ensure", "exists"} =>
          \A a \in Above[todo'[i].path] :
            \/ tree'[h][a] # "none"
            \/ \E j \in 1..(i - 1) : todo'[j] = On("ensure", a)
    BY <1>5, <1>7, <1>8
  <1>10. todo'[i].op = "exists" =>
           \/ tree'[h][todo'[i].path] # "none"
           \/ \E j \in 1..(i - 1) : todo'[j] = On("ensure", todo'[i].path)
    BY <1>5, <1>7, <1>8
  <1>11. \A p \in {"probe", "marker"} : todo'[i] = On("verify", p) =>
           \/ file'[h][p] = Full
           \/ \E j \in 1..(i - 1) : todo'[j] = On("write", p)
    BY <1>6, <1>8
  <1> QED
    BY <1>9, <1>10, <1>11

LEMMA TriedPop ==
  ASSUME TypeOK, Passed, uefi_fs_handle \in Range(Candidates),
         NEW k \in DOMAIN todo', Tried(k + 1)
  PROVE  Tried(k)'
  <1> DEFINE h == uefi_fs_handle
  <1>1. h \in Volume /\ Target = h /\ h' = h /\ mode' = mode
    BY TargetOfCandidates DEF Passed
  <1>2. \A d \in Range(Dirs) : tree[h][d] = "directory" => tree'[h][d] = "directory"
    BY <1>1 DEF Passed, TreeKept
  <1>3. todo # <<>> /\ todo' = Tail(todo) /\ k \in 1..k /\ k \in Nat
    BY TailOf DEF Passed
  <1>4. ASSUME NEW d \in Range(Dirs)
        PROVE  \/ \A a \in Above[d] : tree'[h][a] = "directory"
               \/ \E i \in 1..(k - 1) : todo'[i] = On("ensure", d)
    <2>1. \A a \in Above[d] : a \in Range(Dirs)
      BY TreeAssumption
    <2>2. CASE \A a \in Above[d] : tree[h][a] = "directory"
      BY <1>2, <2>1, <2>2
    <2>3. CASE \E i \in 1..((k + 1) - 1) : todo[i] = On("ensure", d)
      <3>1. Head(todo) = On("ensure", d) \/ \E i \in 1..(k - 1) : todo'[i] = On("ensure", d)
        BY <1>3, <2>3, HeadOrTail
      <3>2. CASE Head(todo) = On("ensure", d)
        <4>1. \A a \in Above[d] : tree[h][a] = "directory"
          BY <1>1, <3>2 DEF Passed, Answered, Reachable, On
        <4> QED
          BY <1>2, <2>1, <4>1
      <3> QED
        BY <3>1, <3>2
    <2> QED
      BY <2>2, <2>3 DEF Tried
  <1>5. \/ mode[h] = "rw" /\ \A d \in Way("probe") : tree'[h][d] = "directory"
        \/ \E i \in 1..(k - 1) : todo'[i] = On("write", "probe")
    <2>1. \A d \in Way("probe") : d \in Range(Dirs)
      BY WayIsNamed DEF Path
    <2>2. CASE mode[h] = "rw" /\ \A d \in Way("probe") : tree[h][d] = "directory"
      BY <1>2, <2>1, <2>2
    <2>3. CASE \E i \in 1..((k + 1) - 1) : todo[i] = On("write", "probe")
      <3>1. \/ Head(todo) = On("write", "probe")
            \/ \E i \in 1..(k - 1) : todo'[i] = On("write", "probe")
        BY <1>3, <2>3, HeadOrTail
      <3>2. Head(todo) = On("write", "probe") =>
              mode[h] = "rw" /\ \A d \in Way("probe") : tree'[h][d] = "directory"
        BY <1>1 DEF Passed, Answered, On
      <3> QED
        BY <3>1, <3>2
    <2> QED
      BY <2>2, <2>3 DEF Tried
  <1> QED
    BY <1>1, <1>4, <1>5 DEF Tried

\* A volume that has granted everything can be written to.
LEMMA TriedIsWritable ==
  ASSUME TypeOK, NEW c \in DOMAIN Candidates, uefi_fs_handle = Candidates[c], Tried(1)
  PROVE  Writable(c)
  <1>1. \A i \in 1..(1 - 1) : FALSE
    OBVIOUS
  <1>2. /\ \A e \in Range(Dirs) : \A d \in Above[e] : tree[Candidates[c]][d] = "directory"
        /\ mode[Candidates[c]] = "rw"
        /\ \A d \in Way("probe") : tree[Candidates[c]][d] = "directory"
    BY <1>1 DEF Tried
  <1> QED
    BY <1>2 DEF Writable

-----------------------------------------------------------------------------
(* The first writable volume is chosen *)

LEMMA StepKinds ==
  /\ \A d : IsStep(On("ensure", d)) /\ IsStep(On("exists", d))
  /\ \A p \in {"probe", "marker"} : IsStep(On("write", p)) /\ IsStep(On("verify", p))
  BY DEF IsStep, On

\* storage_tree_repair and the probe need nothing but each other.
LEMMA TrialReady ==
  ASSUME todo' = Trial, NEW k \in DOMAIN todo', todo'[k].op \in {"selected", "accept"}
  PROVE  /\ todo'[k].op = "selected" /\ Ready(k)' /\ Tried(k)'
         /\ \A i \in 1..(k - 1) : IsStep(todo'[i])
  <1> DEFINE n == Len(Dirs)
  <1>1. /\ n \in Nat /\ DOMAIN todo' = 1..(n + 3)
        /\ \A i \in 1..n : todo'[i] = On("ensure", Dirs[i])
        /\ todo'[n + 1] = On("write", "probe")
        /\ todo'[n + 2] = On("verify", "probe")
        /\ todo'[n + 3] = Simple("selected")
    BY TrialCalls, DirsAreNamed, LenProperties
  <1> HIDE DEF n
  <1>2. k = n + 3
    <2>1. k \in 1..n \/ k = n + 1 \/ k = n + 2 \/ k = n + 3
      BY <1>1
    <2>2. k \notin 1..n
      <3>1. \A i \in 1..n : todo'[i].op = "ensure"
        <4>1. \A d : On("ensure", d).op = "ensure"
          BY DEF On
        <4> QED
          BY <1>1, <4>1
      <3> QED
        BY <3>1
    <2> QED
      BY <1>1, <2>1, <2>2 DEF On
  <1>3. ASSUME NEW i \in 1..(k - 1)
        PROVE  \/ i \in 1..n /\ todo'[i] = On("ensure", Dirs[i])
               \/ i = n + 1 /\ todo'[i] = On("write", "probe")
               \/ i = n + 2 /\ todo'[i] = On("verify", "probe")
    BY <1>1, <1>2
  <1>4. \A i \in 1..(k - 1) : IsStep(todo'[i])
    BY <1>3, StepKinds
  <1>5. ASSUME NEW i \in 1..n, NEW a \in Above[Dirs[i]]
        PROVE  \E j \in 1..(i - 1) : todo'[j] = On("ensure", a)
    <2>1. PICK j \in 1..(i - 1) : a = Dirs[j]
      BY DirsAreNamed, TreeAssumption DEF n
    <2>2. j \in 1..n
      BY <1>1, <2>1
    <2> QED
      BY <1>1, <2>1, <2>2
  <1>6. Ready(k)'
    <2> SUFFICES ASSUME NEW i \in 1..(k - 1)
                 PROVE  /\ todo'[i].op \in {"ensure", "exists"} =>
                             /\ todo'[i].op # "exists"
                             /\ \A a \in Above[todo'[i].path] :
                                  \E j \in 1..(i - 1) : todo'[j] = On("ensure", a)
                        /\ \A p \in {"probe", "marker"} : todo'[i] = On("verify", p) =>
                             \E j \in 1..(i - 1) : todo'[j] = On("write", p)
      BY DEF Ready
    <2>1. CASE i \in 1..n /\ todo'[i] = On("ensure", Dirs[i])
      BY <1>5, <2>1 DEF On
    <2>2. CASE i = n + 1 /\ todo'[i] = On("write", "probe")
      BY <2>2 DEF On
    <2>3. CASE i = n + 2 /\ todo'[i] = On("verify", "probe")
      <3>1. n + 1 \in 1..(i - 1)
        BY <1>1, <2>3
      <3> QED
        BY <1>1, <2>3, <3>1 DEF On
    <2> QED
      BY <1>3, <2>1, <2>2, <2>3
  <1>7. Tried(k)'
    <2>1. ASSUME NEW d \in Range(Dirs)
          PROVE  \E i \in 1..(k - 1) : todo'[i] = On("ensure", d)
      <3>1. PICK i \in 1..n : d = Dirs[i]
        BY DirsAreNamed DEF n
      <3>2. i \in 1..(k - 1)
        BY <1>1, <1>2
      <3> QED
        BY <1>1, <3>1, <3>2
    <2>2. n + 1 \in 1..(k - 1) /\ todo'[n + 1] = On("write", "probe")
      BY <1>1, <1>2
    <2> QED
      BY <2>1, <2>2 DEF Tried
  <1> QED
    BY <1>1, <1>2, <1>4, <1>6, <1>7 DEF Simple

\* Neither does the rest of storage_bootstrap_persistent_tree.
LEMMA BootstrapReady ==
  ASSUME NEW rest \in Seq(Call), Plain(rest), todo' = Bootstrap \o rest,
         NEW k \in DOMAIN todo', todo'[k].op \in {"selected", "accept"}
  PROVE  /\ todo'[k].op = "accept" /\ Ready(k)'
         /\ \A i \in 1..(k - 1) : IsStep(todo'[i])
  <1> DEFINE n == Len(Dirs)
             m == 2 * n + 3
  <1>1. /\ n \in Nat /\ DOMAIN todo' = 1..Len(todo') /\ m \in 1..Len(todo')
        /\ todo'[m - 2] = On("write", "marker")
        /\ todo'[m - 1] = On("verify", "marker")
        /\ todo'[m] = Simple("accept")
        /\ \A i \in 1..Len(todo') : i \notin {m - 2, m} => IsPlain(todo'[i])
        /\ \A i \in 1..n : todo'[i] = On("ensure", Dirs[i])
    BY BootstrapBefore
  <1>2. \A i \in 1..n : todo'[n + i] = On("exists", Dirs[i])
    <2> SUFFICES ASSUME NEW i \in 1..n PROVE todo'[n + i] = On("exists", Dirs[i])
      OBVIOUS
    <2>1. Bootstrap \in Seq(Call) /\ Len(Bootstrap) = m
      BY BootstrapCalls
    <2>2. n + i \in 1..Len(Bootstrap)
      BY <1>1, <2>1
    <2>3. todo'[n + i] = Bootstrap[n + i]
      BY <2>1, <2>2, ConcatElements
    <2> QED
      BY <2>3, BootstrapCalls
  <1> HIDE DEF n
  <1>3. k = m
    <2>1. k # m - 2
      BY <1>1 DEF On
    <2> QED
      BY <1>1, <2>1 DEF IsPlain
  <1>4. ASSUME NEW i \in 1..(k - 1)
        PROVE  \/ i \in 1..n /\ todo'[i] = On("ensure", Dirs[i])
               \/ i - n \in 1..n /\ todo'[i] = On("exists", Dirs[i - n])
               \/ i = m - 2 /\ todo'[i] = On("write", "marker")
               \/ i = m - 1 /\ todo'[i] = On("verify", "marker")
    <2>1. n \in Nat /\ k = 2 * n + 3
      BY <1>1, <1>3
    <2>2. i \in 1..n \/ i - n \in 1..n \/ i = m - 2 \/ i = m - 1
      BY <2>1
    <2>3. n + (i - n) = i
      BY <2>1
    <2> HIDE DEF m
    <2> QED
      BY <1>1, <1>2, <2>2, <2>3
  <1>5. \A i \in 1..(k - 1) : IsStep(todo'[i])
    BY <1>4, StepKinds
  <1>6. ASSUME NEW i \in 1..n, NEW a \in Above[Dirs[i]]
        PROVE  \E j \in 1..(i - 1) : todo'[j] = On("ensure", a)
    <2>1. PICK j \in 1..(i - 1) : a = Dirs[j]
      BY DirsAreNamed, TreeAssumption DEF n
    <2>2. j \in 1..n
      BY <1>1, <2>1
    <2> QED
      BY <1>1, <2>1, <2>2
  <1>7. Ready(k)'
    <2> SUFFICES ASSUME NEW i \in 1..(k - 1)
                 PROVE  /\ todo'[i].op \in {"ensure", "exists"} =>
                             \A a \in Above[todo'[i].path] :
                               \E j \in 1..(i - 1) : todo'[j] = On("ensure", a)
                        /\ todo'[i].op = "exists" =>
                             \E j \in 1..(i - 1) : todo'[j] = On("ensure", todo'[i].path)
                        /\ \A p \in {"probe", "marker"} : todo'[i] = On("verify", p) =>
                             \E j \in 1..(i - 1) : todo'[j] = On("write", p)
      BY DEF Ready
    <2>1. CASE i \in 1..n /\ todo'[i] = On("ensure", Dirs[i])
      <3>1. /\ todo'[i].op = "ensure" /\ todo'[i].path = Dirs[i]
            /\ \A p : todo'[i] # On("verify", p)
        BY <2>1 DEF On
      <3> QED
        BY <1>6, <2>1, <3>1
    <2>2. CASE i - n \in 1..n /\ todo'[i] = On("exists", Dirs[i - n])
      <3>1. PICK d : d = i - n
        OBVIOUS
      <3>2. d \in 1..n /\ todo'[i] = On("exists", Dirs[d])
        BY <2>2, <3>1
      <3>3. d \in 1..(i - 1) /\ \A j \in 1..(d - 1) : j \in 1..(i - 1)
        BY <1>1, <2>2, <3>1
      <3>4. todo'[d] = On("ensure", Dirs[d])
        BY <1>1, <3>2
      <3>5. \A a \in Above[Dirs[d]] : \E j \in 1..(i - 1) : todo'[j] = On("ensure", a)
        BY <1>6, <3>2, <3>3
      <3>6. /\ todo'[i].op = "exists" /\ todo'[i].path = Dirs[d]
            /\ \A p : todo'[i] # On("verify", p)
        BY <3>2 DEF On
      <3> QED
        BY <3>3, <3>4, <3>5, <3>6
    <2>3. CASE i = m - 2 /\ todo'[i] = On("write", "marker")
      BY <2>3 DEF On
    <2>4. CASE i = m - 1 /\ todo'[i] = On("verify", "marker")
      <3>1. m - 2 \in 1..(i - 1)
        BY <1>1, <2>4
      <3> QED
        BY <1>1, <2>4, <3>1 DEF On
    <2> QED
      BY <1>4, <2>1, <2>2, <2>3, <2>4
  <1> QED
    BY <1>1, <1>3, <1>5, <1>7 DEF Simple

\* A candidate is about to be tried.
LEMMA TrialChosen ==
  ASSUME todo' = Trial, NEW c \in DOMAIN Candidates, candidate' = c,
         uefi_fs_handle' = Candidates[c], Foremost(c)', Untouched'
  PROVE  Chosen'
  <1>1. \A k \in DOMAIN todo' : todo'[k].op # "select"
    BY TrialOrder
  <1>2. ASSUME NEW k \in DOMAIN todo', todo'[k].op \in {"selected", "accept"}
        PROVE  Working(c, k)' /\ \A i \in 1..(k - 1) : IsStep(todo'[i])
    <2>1. /\ todo'[k].op = "selected" /\ Ready(k)' /\ Tried(k)'
          /\ \A i \in 1..(k - 1) : IsStep(todo'[i])
      BY <1>2, TrialReady
    <2> QED
      BY <2>1 DEF Working
  <1>3. \E i \in DOMAIN todo' : todo'[i].op \in {"select", "selected", "accept"}
    BY TrialOrder
  <1> QED
    BY <1>1, <1>2, <1>3 DEF Chosen

LEMMA SelectChosen ==
  ASSUME TypeOK, Sound, Sound', Chosen, Select
  PROVE  Chosen'
  <1>1. ~Fault(1)
    BY NoFault DEF Sound
  <1>2. candidate' = 1 /\ uefi_fs_handle' = Candidates[1] /\ todo' = Trial
    BY <1>1 DEF Select
  <1>3. UNCHANGED <<mode, tree, file>>
    BY DEF Select, medium
  <1>4. 1 \in DOMAIN Candidates /\ \A i \in 1..(1 - 1) : FALSE
    BY VolumesAreNamed
  <1>5. Foremost(1)'
    BY <1>4 DEF Foremost
  <1>6. Untouched'
    <2>1. TreeKept
      BY <1>3 DEF TreeKept
    <2> QED
      BY <1>3, <2>1, UntouchedKept DEF Chosen
  <1> QED
    BY <1>2, <1>4, <1>5, <1>6, TrialChosen

\* The loop over the candidates has been left with one that can be written to.
LEMMA SelectedChosen ==
  ASSUME TypeOK, Orderly, Chosen, Selected
  PROVE  Chosen'
  <1>1. todo # <<>> /\ job \in Selects
    BY TailCalls DEF Selected, Now, Orderly, TypeOK
  <1>2. 1 \in DOMAIN todo /\ todo[1].op = "selected"
    BY <1>1, TailCalls DEF Selected, Now, TypeOK
  <1>3. PICK c \in DOMAIN Candidates : Working(c, 1)
    BY <1>2 DEF Chosen
  <1>4. Writable(c) /\ Foremost(c) /\ uefi_fs_handle = Candidates[c]
    BY <1>2, <1>3, TriedIsWritable DEF Working
  <1>5. UNCHANGED <<mode, tree, file, uefi_fs_handle>>
    BY DEF Selected, medium
  <1>6. TreeKept
    BY <1>5 DEF TreeKept
  <1>7. Writable(c)' /\ Foremost(c)' /\ uefi_fs_handle' = Candidates[c] /\ Untouched'
    BY <1>4, <1>5, <1>6, WritableKept, ForemostKept, UntouchedKept DEF Chosen
  <1>8. PICK rest \in Seq(Call) : Plain(rest) /\ todo' = Bootstrap \o rest
    BY <1>1, CallsOfSelects DEF Selected
  <1>9. ASSUME NEW k \in DOMAIN todo', todo'[k].op \in {"selected", "accept"}
        PROVE  Working(c, k)' /\ \A i \in 1..(k - 1) : IsStep(todo'[i])
    <2>1. /\ todo'[k].op = "accept" /\ Ready(k)'
          /\ \A i \in 1..(k - 1) : IsStep(todo'[i])
      BY <1>8, <1>9, BootstrapReady
    <2> QED
      BY <1>7, <2>1 DEF Working
  <1>10. /\ \A k \in DOMAIN todo' : todo'[k].op # "select"
         /\ \E k \in DOMAIN todo' : todo'[k].op = "accept"
    <2> DEFINE n == 2 * Len(Dirs) + 3
    <2>1. /\ DOMAIN todo' = 1..Len(todo') /\ n \in DOMAIN todo'
          /\ todo'[n - 2] = On("write", "marker") /\ todo'[n] = Simple("accept")
          /\ \A i \in 1..Len(todo') : i \notin {n - 2, n} => IsPlain(todo'[i])
      BY <1>8, BootstrapBefore
    <2> HIDE DEF n
    <2> QED
      BY <2>1 DEF IsPlain, On, Simple
  <1> QED
    BY <1>7, <1>9, <1>10 DEF Chosen

\* The volume is accepted; nothing is left that would select another one.
LEMMA AcceptChosen ==
  ASSUME TypeOK, Accounted, Chosen, Accept
  PROVE  Chosen'
  <1>1. /\ todo # <<>> /\ Head(todo).op = "accept" /\ todo' = Tail(todo) /\ bootstrap_verified'
        /\ UNCHANGED <<mode, tree, file, uefi_fs_handle>>
    BY DEF Accept, Now, medium
  <1>2. 1 \in DOMAIN todo /\ todo[1].op = "accept"
    BY <1>1, TailCalls DEF TypeOK
  <1>3. PICK c \in DOMAIN Candidates : Working(c, 1)
    BY <1>2 DEF Chosen
  <1>4. TreeKept
    BY <1>1 DEF TreeKept
  <1>5. Settled' /\ Untouched'
    <2>1. Writable(c)' /\ Foremost(c)' /\ uefi_fs_handle' = Candidates[c]
      BY <1>1, <1>2, <1>3, <1>4, WritableKept, ForemostKept DEF Working
    <2> QED
      BY <1>1, <1>4, <2>1, UntouchedKept DEF Settled, Chosen
  <1>6. \A k \in DOMAIN todo' : todo'[k].op \notin {"select", "selected", "accept"}
    <2>1. Earned(1)
      BY <1>2 DEF Accounted
    <2>2. ASSUME NEW k \in DOMAIN todo' PROVE IsPlain(todo'[k])
      <3>1. k + 1 \in (1 + 1)..Len(todo) /\ todo'[k] = todo[k + 1]
        BY <1>1, TailCalls DEF TypeOK
      <3> QED
        BY <2>1, <3>1 DEF Earned
    <2> QED
      BY <2>2 DEF IsPlain
  <1> QED
    BY <1>5, <1>6 DEF Chosen

\* The next call is taken from the list.
LEMMA PopChosen ==
  ASSUME TypeOK, Orderly, Chosen, todo # <<>>, todo' = Tail(todo), TreeKept,
         Head(todo).op \notin {"select", "selected", "accept"},
         UNCHANGED <<mode, candidate, uefi_fs_handle, bootstrap_verified>>,
         IsStep(Head(todo)) => Passed, Untouched'
  PROVE  Chosen'
  <1>1. \A k \in DOMAIN todo' : k + 1 \in DOMAIN todo /\ todo'[k] = todo[k + 1]
    BY TailOf
  <1>2. \A k \in DOMAIN todo' : todo'[k].op = "select" =>
          \A i \in DOMAIN todo' : todo'[i].op \in {"log", "select"}
    BY <1>1 DEF Chosen
  <1>3. ASSUME NEW k \in DOMAIN todo', todo'[k].op \in {"selected", "accept"}
        PROVE  /\ \E c \in DOMAIN Candidates : Working(c, k)'
               /\ \A i \in 1..(k - 1) : IsStep(todo'[i])
    <2>1. /\ k + 1 \in DOMAIN todo /\ todo[k + 1] = todo'[k] /\ k \in Nat \ {0}
          /\ Head(todo) = todo[1] /\ 1 \in 1..((k + 1) - 1)
          /\ \A i \in 1..(k - 1) : /\ todo'[i] = todo[i + 1]
                                   /\ i + 1 \in 1..((k + 1) - 1)
      BY TailOf
    <2>2. PICK c \in DOMAIN Candidates : Working(c, k + 1)
      BY <1>3, <2>1 DEF Chosen
    <2>3. \A i \in 1..((k + 1) - 1) : IsStep(todo[i])
      BY <1>3, <2>1 DEF Chosen
    <2>4. Passed
      BY <2>1, <2>3
    <2>5. uefi_fs_handle \in Range(Candidates) /\ uefi_fs_handle = Candidates[c] /\ Foremost(c)
      BY <2>2, VolumesAreNamed DEF Working
    <2>6. Foremost(c)' /\ (Writable(c)' <=> Writable(c))
      BY <2>5, ForemostKept, WritableKept
    <2>7. Writable(c)' => Ready(k)'
      BY <2>2, <2>4, <2>5, <2>6, ReadyPop DEF Working
    <2>8. todo'[k].op = "selected" => c = candidate' /\ Tried(k)'
      BY <2>1, <2>2, <2>4, <2>5, TriedPop DEF Working
    <2>9. todo'[k].op = "accept" => Writable(c)'
      BY <2>1, <2>2, <2>6 DEF Working
    <2>10. Working(c, k)'
      BY <2>5, <2>6, <2>7, <2>8, <2>9 DEF Working
    <2> QED
      BY <2>1, <2>3, <2>10
  <1>4. ASSUME \A k \in DOMAIN todo' : todo'[k].op \notin {"select", "selected", "accept"}
        PROVE  Settled'
    <2>1. ASSUME NEW k \in DOMAIN todo PROVE todo[k].op \notin {"select", "selected", "accept"}
      <3>1. /\ Len(todo) \in Nat \ {0} /\ DOMAIN todo = 1..Len(todo) /\ Head(todo) = todo[1]
            /\ DOMAIN todo' = 1..(Len(todo) - 1)
        BY TailCalls DEF TypeOK
      <3>2. CASE k = 1
        BY <3>1, <3>2
      <3>3. CASE k # 1
        <4>1. k - 1 \in DOMAIN todo' /\ (k - 1) + 1 = k
          BY <3>1, <3>3
        <4>2. todo'[k - 1] = todo[k]
          BY <1>1, <4>1
        <4> QED
          BY <1>4, <4>1, <4>2
      <3> QED
        BY <3>2, <3>3
    <2>2. Settled
      BY <2>1 DEF Chosen
    <2> QED
      BY <2>2, SettledKept
  <1> QED
    BY <1>2, <1>3, <1>4 DEF Chosen

\* A call has failed. A volume that is being tried or bootstrapped cannot be written to.
LEMMA FailedChosen ==
  ASSUME TypeOK, Orderly, Chosen, todo # <<>>, Head(todo).op \in MediumCall,
         NEW e \in Seq(Call), Printing(e), Failed(e), TreeKept, UNCHANGED mode,
         IsStep(Head(todo)) => ~Granted, Untouched'
  PROVE  Chosen'
  <1>1. /\ Len(todo) \in Nat \ {0} /\ DOMAIN todo = 1..Len(todo) /\ Head(todo) = todo[1]
        /\ 1 \in DOMAIN todo
    BY TailCalls DEF TypeOK
  <1>2. /\ Len(Candidates) \in Nat \ {0} /\ DOMAIN Candidates = 1..Len(Candidates)
        /\ candidate \in 0..Len(Candidates)
    BY VolumesAreNamed DEF TypeOK
  <1>3. ASSUME NEW k \in DOMAIN todo, todo[k].op \in {"selected", "accept"}
        PROVE  /\ todo[k].op = "selected"
               /\ candidate \in DOMAIN Candidates /\ Foremost(candidate) /\ ~Writable(candidate)
    <2>1. PICK c \in DOMAIN Candidates : Working(c, k)
      BY <1>3 DEF Chosen
    <2>2. k # 1
      BY <1>1, <1>3 DEF MediumCall
    <2>3. 1 \in 1..(k - 1)
      BY <1>1, <2>2
    <2>4. IsStep(Head(todo))
      BY <1>1, <1>3, <2>3 DEF Chosen
    <2>5. ~Writable(c)
      BY <2>1, <2>2, <2>4, WritableGrants DEF Working
    <2> QED
      BY <1>3, <2>1, <2>5 DEF Working
  <1>4. candidate # 0 => \E k \in DOMAIN todo : todo[k].op = "selected"
    BY <1>1 DEF Orderly
  <1>5. CASE candidate \in 1..(Len(Candidates) - 1)
    <2>1. /\ candidate' = candidate + 1 /\ uefi_fs_handle' = Candidates[candidate + 1]
          /\ todo' = Trial
      BY <1>5 DEF Failed
    <2>2. candidate # 0 /\ candidate + 1 \in DOMAIN Candidates
      BY <1>2, <1>5
    <2>3. Foremost(candidate) /\ ~Writable(candidate)
      BY <1>3, <1>4, <2>2
    <2>4. Foremost(candidate + 1)
      <3>1. \A i \in 1..((candidate + 1) - 1) : i \in 1..(candidate - 1) \/ i = candidate
        BY <1>2
      <3> QED
        BY <2>2, <2>3, <3>1 DEF Foremost
    <2>5. PICK c \in DOMAIN Candidates : c = candidate + 1
      BY <2>2
    <2>6. Foremost(c)'
      BY <2>4, <2>5, ForemostKept
    <2> QED
      BY <2>1, <2>5, <2>6, TrialChosen
  <1>6. CASE candidate # 0 /\ candidate \notin 1..(Len(Candidates) - 1)
    <2>1. candidate = Len(Candidates)
      <3>1. PICK n \in Nat \ {0} : n = Len(Candidates)
        BY <1>2
      <3>2. candidate \in 0..n /\ candidate # 0 /\ candidate \notin 1..(n - 1)
        BY <1>2, <1>6, <3>1
      <3>3. candidate = n
        BY <3>2
      <3> QED
        BY <3>1, <3>3
    <2>2. ~bootstrap_verified' /\ todo' = e
      BY <1>6 DEF Failed, Orderly
    <2>3. Foremost(candidate) /\ ~Writable(candidate)
      BY <1>3, <1>4, <1>6
    <2>4. \A i \in DOMAIN Candidates : ~Writable(i)
      <3>1. \A i \in DOMAIN Candidates : i \in 1..(candidate - 1) \/ i = candidate
        BY <1>2, <2>1
      <3> QED
        BY <2>3, <3>1 DEF Foremost
    <2>5. Settled'
      BY <2>2, <2>4, WritableKept DEF Settled
    <2> QED
      BY <2>2, <2>5 DEF Chosen, Printing
  <1>7. CASE candidate = 0
    <2>1. todo' = e /\ UNCHANGED <<uefi_fs_handle, bootstrap_verified>>
      BY <1>7 DEF Failed
    <2>2. \A k \in DOMAIN todo : todo[k].op # "select"
      BY <1>1 DEF Chosen, MediumCall
    <2>3. \A k \in DOMAIN todo : todo[k].op \notin {"selected", "accept"}
      BY <1>3, <1>7 DEF Orderly
    <2>4. Settled
      BY <2>2, <2>3 DEF Chosen
    <2>5. Settled'
      BY <2>1, <2>4, SettledKept
    <2> QED
      BY <2>1, <2>5 DEF Chosen, Printing
  <1> QED
    BY <1>2, <1>5, <1>6, <1>7

LEMMA ServedChosen ==
  ASSUME TypeOK, Orderly, Chosen, Sound, Sound',
         DoEnsure \/ DoExists \/ DoWrite \/ DoVerify \/ DoRead \/ DoList
  PROVE  Chosen'
  <1>1. Served
    BY CallsAreServed
  <1>2. /\ todo # <<>> /\ Head(todo).op \in MediumCall /\ TreeKept /\ UNCHANGED mode
        /\ Head(todo) \in Call
    BY <1>1, TailCalls DEF Served, TypeOK
  <1>3. Untouched'
    <2>1. Leading
      BY <1>2, ChosenLeads
    <2>2. \A v \in Volume, p \in Path : file'[v][p] # file[v][p] => v = Target
      BY <1>1 DEF Served
    <2> QED
      BY <1>2, <2>1, <2>2, UntouchedKept DEF Chosen
  <1>4. \A v \in Volume, p \in Path : file'[v][p] # file[v][p] => Head(todo) = On("write", p)
    <2> SUFFICES ASSUME NEW v \in Volume, NEW p \in Path, file'[v][p] # file[v][p]
                 PROVE  Head(todo) = On("write", p)
      OBVIOUS
    <2>1. Head(todo).op = "write" /\ Head(todo).path = p
      BY <1>1 DEF Served
    <2> QED
      BY <1>2, <2>1 DEF Call, On
  <1>5. IsStep(Head(todo)) => Clean
    <2>1. ~DoRead /\ ~DoList => Clean
      BY CleanEnsure, CleanExists, CleanWrite, CleanVerify
    <2>2. DoRead \/ DoList => Head(todo).op \in {"read", "list"}
      BY DEF DoRead, DoList, Now
    <2> QED
      BY <2>1, <2>2 DEF IsStep, On
  <1>6. ASSUME Done, IsStep(Head(todo)) => Answered PROVE Chosen'
    <2>1. /\ todo' = Tail(todo) /\ UNCHANGED <<candidate, uefi_fs_handle, bootstrap_verified>>
          /\ Head(todo).op \notin {"select", "selected", "accept"}
      BY <1>2, <1>6 DEF Done, MediumCall
    <2>2. IsStep(Head(todo)) => Passed
      BY <1>2, <1>4, <1>6, <2>1 DEF Passed
    <2> QED
      BY <1>2, <1>3, <2>1, <2>2, PopChosen
  <1>7. ASSUME NEW e \in Seq(Call), Printing(e), Failed(e), IsStep(Head(todo)) => ~Granted
        PROVE  Chosen'
    BY <1>2, <1>3, <1>7, FailedChosen
  <1>8. CASE IsStep(Head(todo))
    BY <1>5, <1>6, <1>7, <1>8 DEF Clean
  <1>9. CASE ~IsStep(Head(todo))
    BY <1>1, <1>6, <1>7, <1>9 DEF Served
  <1> QED
    BY <1>8, <1>9

LEMMA PrintChosen ==
  ASSUME TypeOK, Orderly, Chosen, SetMismatch \/ Log \/ ShowError \/ Finish
  PROVE  Chosen'
  <1>1. UNCHANGED <<mode, tree, file, candidate, uefi_fs_handle, bootstrap_verified>>
    BY DEF SetMismatch, Log, ShowError, Finish, medium, g_storage
  <1>2. TreeKept
    BY <1>1 DEF TreeKept
  <1>3. Untouched'
    BY <1>1, <1>2, UntouchedKept DEF Chosen
  <1>4. CASE SetMismatch \/ Log \/ ShowError
    <2>1. todo # <<>> /\ Head(todo).op \in {"mismatch", "log", "show"} /\ todo' = Tail(todo)
      BY <1>4 DEF SetMismatch, Log, ShowError, Now
    <2>2. ~IsStep(Head(todo))
      BY <2>1 DEF IsStep, On
    <2> QED
      BY <1>1, <1>2, <1>3, <2>1, <2>2, PopChosen
  <1>5. CASE Finish
    <2>1. todo # <<>> /\ Head(todo).op = "finish" /\ todo' = Epilogue("ok")
      BY <1>5 DEF Finish, Now
    <2>2. /\ Len(todo) \in Nat \ {0} /\ DOMAIN todo = 1..Len(todo) /\ Head(todo) = todo[1]
      BY <2>1, TailCalls DEF TypeOK
    <2>3. \A k \in DOMAIN todo : todo[k].op # "select"
      BY <2>1, <2>2 DEF Chosen
    <2>4. ASSUME NEW k \in DOMAIN todo PROVE todo[k].op \notin {"selected", "accept"}
      <3> SUFFICES ASSUME todo[k].op \in {"selected", "accept"} PROVE FALSE
        OBVIOUS
      <3>1. k # 1
        BY <2>1, <2>2
      <3>2. 1 \in 1..(k - 1)
        BY <2>2, <3>1
      <3>3. IsStep(todo[1])
        BY <3>2 DEF Chosen
      <3> QED
        BY <2>1, <2>2, <3>3 DEF IsStep, On
    <2>5. Settled
      BY <2>3, <2>4 DEF Chosen
    <2>6. Settled'
      BY <1>1, <1>2, <2>5, SettledKept
    <2> QED
      BY <1>3, <2>1, <2>6, EpilogueCalls DEF Chosen, Printing
  <1> QED
    BY <1>4, <1>5

LEMMA CommandChosen ==
  ASSUME TypeOK, Chosen, (\E j \in Commands : Command(j)) \/ CommandLastError
  PROVE  Chosen'
  <1>1. /\ UNCHANGED <<mode, tree, file, uefi_fs_handle, bootstrap_verified>>
        /\ todo = <<>>
    BY DEF Command, CommandLastError, medium, g_storage, TypeOK
  <1>2. TreeKept
    BY <1>1 DEF TreeKept
  <1>3. Untouched'
    BY <1>1, <1>2, UntouchedKept DEF Chosen
  <1>4. Settled'
    <2>1. Settled
      BY <1>1 DEF Chosen
    <2> QED
      BY <1>1, <1>2, <2>1, SettledKept
  <1>5. CASE CommandLastError
    <2>1. todo' = <<Simple("log"), Simple("show")>>
      BY <1>5 DEF CommandLastError
    <2> QED
      BY <1>3, <1>4, <2>1 DEF Chosen, Simple
  <1>6. CASE \E j \in Commands : Command(j)
    <2>1. PICK j \in Commands : Command(j)
      BY <1>6
    <2>2. \A i \in DOMAIN todo' : todo'[i].op \notin {"selected", "accept"}
      BY <2>1, CommandCalls
    <2>3. CASE j \in Selects
      <3> DEFINE log == <<Simple("log")>>
                 select == <<Simple("select")>>
      <3>1. todo' = log \o select
        BY <2>1, <2>3 DEF Command
      <3>2. log \in Seq(Call) /\ select \in Seq(Call)
        BY CallKinds, PlainPairs, PlainCalls
      <3>3. Len(log) = 1 /\ Len(select) = 1 /\ log[1] = Simple("log") /\ select[1] = Simple("select")
        OBVIOUS
      <3> HIDE DEF log, select
      <3>4. /\ log \o select \in Seq(Call) /\ Len(log \o select) = 2
            /\ (log \o select)[1] = Simple("log") /\ (log \o select)[2] = Simple("select")
        <4>1. /\ log \o select \in Seq(Call)
              /\ Len(log \o select) = Len(log) + Len(select)
              /\ \A i \in 1..Len(log) : (log \o select)[i] = log[i]
              /\ \A i \in 1..Len(select) : (log \o select)[Len(log) + i] = select[i]
          BY <3>2, ConcatElements
        <4> QED
          BY <3>3, <4>1
      <3>5. DOMAIN (log \o select) = {1, 2}
        BY <3>4, LenProperties
      <3>6. todo'[1].op = "log" /\ todo'[2].op = "select" /\ DOMAIN todo' = {1, 2}
        BY <3>1, <3>4, <3>5 DEF Simple
      <3> QED
        BY <1>3, <2>2, <3>6 DEF Chosen
    <2>4. CASE j \notin Selects
      <3>1. \A i \in DOMAIN todo' : todo'[i].op # "select"
        BY <2>1, <2>4, CommandCalls
      <3> QED
        BY <1>3, <1>4, <2>2, <3>1 DEF Chosen
    <2> QED
      BY <2>3, <2>4
  <1> QED
    BY <1>5, <1>6

LEMMA SoundBefore ==
  ASSUME TypeOK, [Next]_vars, Sound'
  PROVE  Sound
  <1>1. faults \in Nat /\ changes \in Nat
    BY BoundsAssumption DEF TypeOK
  <1>2. ASSUME NEW cost \in {0, 1}, Fault(cost) PROVE faults = 0
    BY <1>1, <1>2 DEF Fault, Sound
  <1>3. CASE Select \/ DoEnsure \/ DoExists \/ DoList
    <2>1. faults = 0
      BY <1>2, <1>3 DEF Select, DoEnsure, DoExists, DoList
    <2>2. UNCHANGED changes
      BY <1>3 DEF Select, DoEnsure, DoExists, DoList, Rest
    <2> QED
      BY <2>1, <2>2 DEF Sound
  <1>4. CASE DoWrite \/ DoVerify \/ DoRead
    <2>1. \E r, done : Fault(Cost(r, done))
      BY <1>4 DEF DoWrite, DoVerify, DoRead
    <2>2. faults = 0
      BY <1>2, <2>1, CostType
    <2>3. UNCHANGED changes
      BY <1>4 DEF DoWrite, DoVerify, DoRead, Rest
    <2> QED
      BY <2>2, <2>3 DEF Sound
  <1>5. CASE Log
    <2>1. faults = 0 /\ UNCHANGED changes
      BY <1>2, <1>5 DEF Log
    <2> QED
      BY <2>1 DEF Sound
  <1>6. CASE \/ Selected \/ SetMismatch \/ Accept \/ Finish \/ ShowError \/ Return
             \/ CommandLastError \/ \E j \in Commands : Command(j)
    <2>1. UNCHANGED <<faults, changes>>
      BY <1>6 DEF Selected, SetMismatch, Accept, Finish, ShowError, Return, CommandLastError,
                  Command, Rest
    <2> QED
      BY <2>1 DEF Sound
  <1>7. CASE \E v \in Volume, m \in Mode : Change(v, m)
    <2>1. changes' = changes + 1
      BY <1>7 DEF Change
    <2> QED
      BY <1>1, <2>1 DEF Sound
  <1>8. CASE UNCHANGED vars
    BY <1>8 DEF vars, Sound
  <1> QED
    BY <1>3, <1>4, <1>5, <1>6, <1>7, <1>8 DEF Next, Step

LEMMA InitChosen == Init => Chosen
  <1> SUFFICES ASSUME Init PROVE Chosen
    OBVIOUS
  <1>1. todo = <<Simple("select")>>
    BY DEF Init
  <1>2. DOMAIN todo = {1} /\ todo[1].op = "select"
    BY <1>1 DEF Simple
  <1>3. Untouched
    BY VolumesAreNamed DEF Init, Untouched
  <1> QED
    BY <1>2, <1>3 DEF Chosen

LEMMA NextChosen ==
  ASSUME TypeOK, Orderly, Accounted, Sound => Chosen, [Next]_vars
  PROVE  Sound' => Chosen'
  <1> SUFFICES ASSUME Sound' PROVE Chosen'
    OBVIOUS
  <1>1. Sound /\ Chosen
    BY SoundBefore
  <1>2. CASE DoEnsure \/ DoExists \/ DoWrite \/ DoVerify \/ DoRead \/ DoList
    BY <1>1, <1>2, ServedChosen
  <1>3. CASE SetMismatch \/ Log \/ ShowError \/ Finish
    BY <1>1, <1>3, PrintChosen
  <1>4. CASE Return \/ UNCHANGED vars
    <2>1. UNCHANGED <<mode, tree, file, uefi_fs_handle, bootstrap_verified, candidate, todo>>
      BY <1>4 DEF Return, vars, medium, g_storage, control
    <2>2. TreeKept
      BY <2>1 DEF TreeKept
    <2>3. Untouched'
      BY <1>1, <2>1, <2>2, UntouchedKept DEF Chosen
    <2>4. Settled => Settled'
      BY <2>1, <2>2, SettledKept
    <2>5. \A c, k : Working(c, k) => Working(c, k)'
      BY <2>1 DEF Working, Foremost, Writable, Ready, Tried
    <2> QED
      BY <1>1, <2>1, <2>3, <2>4, <2>5 DEF Chosen
  <1>5. CASE \E v \in Volume, m \in Mode : Change(v, m)
    <2>1. changes' = changes + 1 /\ changes = 0
      BY <1>1, <1>5 DEF Change, Sound
    <2> QED
      BY <2>1 DEF Sound
  <1> QED
    BY <1>1, <1>2, <1>3, <1>4, <1>5, SelectChosen, SelectedChosen, AcceptChosen, CommandChosen
      DEF Next, Step

\* uefi_try_select_writable_fs takes the first volume that can be written to, and
\* writes to none behind it, as long as no call fails and no volume changes.
THEOREM AlwaysFirst == Spec => []FirstWritableChosen
  <1> DEFINE Inv == TypeOK /\ Orderly /\ Accounted /\ (Sound => Chosen)
  <1>1. Init => Inv
    BY InitType, InitAccounted, InitChosen
  <1>2. Inv /\ [Next]_vars => Inv'
    BY NextType, NextOrderly, NextAccounted, NextChosen
  <1>3. Inv => FirstWritableChosen
    <2> SUFFICES ASSUME TypeOK, Sound, Chosen
                 PROVE  /\ Idle => bootstrap_verified = \E i \in DOMAIN Candidates : Writable(i)
                        /\ Untouched
      BY DEF FirstWritableChosen, Untouched
    <2>1. ASSUME Idle PROVE bootstrap_verified = \E i \in DOMAIN Candidates : Writable(i)
      <3>1. todo = <<>> /\ bootstrap_verified \in BOOLEAN
        BY <2>1 DEF TypeOK
      <3>2. Settled
        BY <3>1 DEF Chosen
      <3>3. bootstrap_verified <=> \E i \in DOMAIN Candidates : Writable(i)
        BY <3>2 DEF Settled
      <3> QED
        BY <3>1, <3>3
    <2> QED
      BY <2>1 DEF Chosen
  <1> QED
    BY <1>1, <1>2, <1>3, PTL DEF Spec
=============================================================================
