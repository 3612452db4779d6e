---------------------------- MODULE StorageProofs ----------------------------
(***************************************************************************)
(* Proofs about the file commands, for every tree, every configuration and *)
(* every set of arguments: that no command puts a file into the tree of a  *)
(* size that was not in it, which is what the quota needs; and where the   *)
(* paths lead that the accounts type and keep, by induction over their     *)
(* components.                                                             *)
(***************************************************************************)
EXTENDS Storage, SequenceTheorems, Induction
LOCAL INSTANCE SequencesExt

-----------------------------------------------------------------------------
(***************************************************************************)
(* The shell commands keep the values of the tree.                         *)
(***************************************************************************)

\* Every node of the tree t is in V.
NodesIn(t, V) == \A p \in DOMAIN t : t[p] \in V

\* mkdir adds a directory or nothing.
LEMMA MkdirNodes ==
  ASSUME NEW V, Dir \in V, NEW t, NodesIn(t, V), NEW at, NEW names
  PROVE  NodesIn(mkdir(t, at, names), V)
BY DEF mkdir, NodesIn

\* rm leaves a part of the tree.
LEMMA RmNodes ==
  ASSUME NEW V, NEW t, NodesIn(t, V), NEW at, NEW recursive, NEW names
  PROVE  NodesIn(rm(t, at, recursive, names), V)
BY DEF rm, Without, NodesIn

\* What is moved was there before.
LEMMA MovedNodes ==
  ASSUME NEW V, NEW t, NodesIn(t, V), NEW node, NEW target
  PROVE  NodesIn(Moved(t, node, target), V)
<1> DEFINE rest  == Without(Without(t, node), target)
           to(p) == target \o SubSeq(p, Len(node) + 1, Len(p))
           new   == {to(p) : p \in Below(t, node)}
           from(q) == CHOOSE p \in Below(t, node) : to(p) = q
<1>1. Below(t, node) \subseteq DOMAIN t
  BY DEF Below
<1>2. \A q \in new : t[from(q)] \in V
  <2> SUFFICES ASSUME NEW q \in new PROVE t[from(q)] \in V
    OBVIOUS
  <2>1. \E p \in Below(t, node) : to(p) = q
    OBVIOUS
  <2>2. from(q) \in Below(t, node)
    BY <2>1
  <2> QED
    BY <1>1, <2>2 DEF NodesIn
<1>3. \A q \in DOMAIN rest : q \in DOMAIN t
  BY DEF Without
<1> HIDE DEF new, from
<1>4. \A q \in DOMAIN rest \cup new : (IF q \in new THEN t[from(q)] ELSE t[q]) \in V
  BY <1>2, <1>3 DEF NodesIn
<1>5. NodesIn([q \in DOMAIN rest \cup new |-> IF q \in new THEN t[from(q)] ELSE t[q]], V)
  BY <1>4 DEF NodesIn
<1> QED
  BY <1>5 DEF Moved, new, from

\* mv moves or does nothing.
LEMMA MvNodes ==
  ASSUME NEW V, NEW t, NodesIn(t, V), NEW at, NEW names, NEW newAt, NEW newNames
  PROVE  NodesIn(mv(t, at, names, newAt, newNames), V)
<1>1. \A node, target : NodesIn(Moved(t, node, target), V)
  BY MovedNodes
<1> QED
  BY <1>1 DEF mv

\* The commands by what they change beside the tree.
LEMMA CommandKinds ==
  ASSUME NEW k \in Accounts, Command(k)
  PROVE  \/ UNCHANGED <<curr_position, size, hung, delivered>>
         \/ back_to_home(k)
         \/ \E arg \in Arguments : Changed(k, arg)
         \/ \E arg \in Arguments : Downloaded(k, arg)
         \/ \E arg \in Arguments : Looped(k, arg)
<1>1. \A arg : mkd_command(k, arg) => UNCHANGED <<curr_position, size, hung, delivered>>
  BY DEF mkd_command, Created
<1>2. \A recursive, arg :
         dele_command(k, recursive, arg) => UNCHANGED <<curr_position, size, hung, delivered>>
  BY DEF dele_command, Deleted, vars, disk
<1>3. \A arg, new :
         rename_command(k, arg, new) => UNCHANGED <<curr_position, size, hung, delivered>>
  BY DEF rename_command, Renamed, vars, disk
<1>4. \A arg : cwd_command(k, arg) =>
         Changed(k, arg) \/ UNCHANGED <<curr_position, size, hung, delivered>>
  BY DEF cwd_command, vars, disk
<1>5. \A arg : retr_command(k, arg) =>
         \/ Downloaded(k, arg)
         \/ Looped(k, arg)
         \/ UNCHANGED <<curr_position, size, hung, delivered>>
  BY DEF retr_command, vars, disk
<1>6. pwd_command(k) \/ ls_command(k) => UNCHANGED <<curr_position, size, hung, delivered>>
  BY DEF pwd_command, ls_command, vars, disk
<1> QED
  BY <1>1, <1>2, <1>3, <1>4, <1>5, <1>6 DEF Command

\* A command changes the tree by mkdir, rm or mv, or not at all.
LEMMA TreeStep ==
  ASSUME NEW V, Dir \in V, NodesIn(tree, V), NEW k \in Accounts, Command(k)
  PROVE  NodesIn(tree', V)
<1>1. CASE UNCHANGED tree
  BY <1>1 DEF NodesIn
<1>2. ASSUME NEW arg, mkd_command(k, arg) PROVE NodesIn(tree', V)
  BY <1>2, MkdirNodes DEF mkd_command, Created
<1>3. ASSUME NEW recursive, NEW arg, Deleted(k, recursive, arg) PROVE NodesIn(tree', V)
  BY <1>3, RmNodes DEF Deleted, Remains
<1>4. ASSUME NEW arg, NEW new, Renamed(k, arg, new) PROVE NodesIn(tree', V)
  BY <1>4, MvNodes DEF Renamed
<1> QED
  BY <1>1, <1>2, <1>3, <1>4
  DEF Command, pwd_command, ls_command, back_to_home, cwd_command, Changed,
      retr_command, Downloaded, Looped, dele_command, rename_command, vars, disk

-----------------------------------------------------------------------------
(***************************************************************************)
(* Type correctness.                                                       *)
(***************************************************************************)

\* Whatever is cut to an int is one.
LEMMA IntIsInt == \A n \in Int : int(n) \in Ints
<1> SUFFICES ASSUME NEW n \in Int PROVE int(n) \in Ints
  OBVIOUS
<1> DEFINE W == 2 * (MaxInt + 1)
<1>1. MaxInt \in Nat /\ W \in Nat \ {0} /\ n + MaxInt + 1 \in Int
  BY StorageAssumption
<1>2. \A a \in Int, w \in Nat \ {0} : a % w \in 0 .. w - 1
  OBVIOUS
<1> HIDE DEF W
<1>3. (n + MaxInt + 1) % W \in 0 .. W - 1
  BY <1>1, <1>2
<1> QED
  BY <1>1, <1>3 DEF int, Ints, W

LEMMA IntsAreNumbers == Ints \subseteq Int
  BY StorageAssumption DEF Ints

\* A position is a list of names.
LEMMA PositionIsSeq ==
  ASSUME NEW position \in Seq(STRING), NEW arg \in Arguments
  PROVE  update_position(position, arg) \in Seq(STRING)
<1>1. arg \in Seq(STRING)
  BY StorageAssumption
<1>2. position \o arg \in Seq(STRING)
  BY <1>1, ConcatProperties
<1>3. Front(position) \in Seq(STRING)
  <2>1. Len(position) \in Nat
    OBVIOUS
  <2>2. \A i \in 1 .. Len(position) - 1 : position[i] \in STRING
    BY <2>1
  <2> QED
    BY <2>1, <2>2, SubSeqProperties DEF Front
<1> QED
  BY <1>2, <1>3 DEF update_position

\* The size of a file is a number of bytes.
LEMMA FileSize ==
  ASSUME TypeOK, NEW path, IsFile(tree, path)
  PROVE  tree[path] \in Nat
BY DEF TypeOK, IsFile

\* The tree holds directories and sizes.
LEMMA TreeTyped ==
  TypeOK <=> NodesIn(tree, {Dir} \cup Nat) /\ TypeOK
BY DEF TypeOK, NodesIn

LEMMA TypeInit == Init => TypeOK
  <1> SUFFICES ASSUME Init PROVE TypeOK
    OBVIOUS
  <1>1. size \in [Accounts -> Ints]
    BY StorageAssumption DEF Init, Ints
  <1>2. curr_position \in [Accounts -> Seq(STRING)]
    BY EmptySeq DEF Init
  <1> QED
    BY <1>1, <1>2, StorageAssumption DEF Init, TypeOK

LEMMA TypeNext == TypeOK /\ [Next]_vars => TypeOK'
<1> SUFFICES ASSUME TypeOK, [Next]_vars PROVE TypeOK'
  OBVIOUS
<1>0. CASE UNCHANGED vars
  BY <1>0 DEF TypeOK, vars, disk
<1>1. ASSUME NEW k \in Accounts, Command(k) PROVE TypeOK'
  <2>1. \A p \in DOMAIN tree' : tree'[p] = Dir \/ tree'[p] \in Nat
    <3>1. NodesIn(tree, {Dir} \cup Nat)
      BY TreeTyped
    <3>2. NodesIn(tree', {Dir} \cup Nat)
      BY <3>1, <1>1, TreeStep
    <3> QED
      BY <3>2 DEF NodesIn
  <2>2. CASE UNCHANGED <<curr_position, size, hung, delivered>>
    BY <2>1, <2>2 DEF TypeOK
  <2>3. CASE back_to_home(k)
    BY <2>1, <2>3, EmptySeq DEF back_to_home, TypeOK
  <2>4. ASSUME NEW arg \in Arguments, Changed(k, arg) PROVE TypeOK'
    <3>1. update_position(curr_position[k], arg) \in Seq(STRING)
      BY PositionIsSeq DEF TypeOK
    <3> QED
      BY <2>1, <2>4, <3>1 DEF Changed, TypeOK
  <2>5. ASSUME NEW arg \in Arguments, Downloaded(k, arg) PROVE TypeOK'
    <3>1. tree[Target(k, arg)] \in Nat
      BY <2>5, FileSize DEF Downloaded
    <3>2. file_size_in_bytes(k, arg) \in Int
      <4>1. tree[Target(k, arg)] \in Int
        BY <3>1
      <4>2. int(tree[Target(k, arg)]) \in Ints
        BY <4>1, IntIsInt
      <4> QED
        BY <4>2, IntsAreNumbers DEF file_size_in_bytes
    <3>3. size[k] \in Int
      BY IntsAreNumbers DEF TypeOK
    <3>4. int(size[k] - file_size_in_bytes(k, arg)) \in Ints
      BY <3>2, <3>3, IntIsInt
    <3>5. size' \in [Accounts -> Ints]
      BY <2>5, <3>4 DEF Downloaded, reduce_size, TypeOK
    <3>6. delivered' \in [Accounts -> Nat]
      BY <2>5, <3>1 DEF Downloaded, TypeOK
    <3> QED
      BY <2>1, <2>5, <3>5, <3>6 DEF Downloaded, TypeOK
  <2>6. ASSUME NEW arg \in Arguments, Looped(k, arg) PROVE TypeOK'
    BY <2>1, <2>6 DEF Looped, TypeOK
  <2> QED
    BY <1>1, <2>2, <2>3, <2>4, <2>5, <2>6, CommandKinds
<1> QED
  BY <1>0, <1>1 DEF Next

\* The tree holds directories and sizes, a position is a list of names and
\* what is left of a quota an int, in every reachable state.
THEOREM StorageTypeCorrect == Spec => []TypeOK
  BY TypeInit, TypeNext, PTL DEF Spec

-----------------------------------------------------------------------------
(***************************************************************************)
(* The quota.                                                              *)
(***************************************************************************)

\* No file the server is started with is larger than an int can say.
FilesFit == \A p \in DOMAIN InitTree : InitTree[p] = Dir \/ InitTree[p] <= MaxInt

\* The strengthening of QuotaConserved: no file is, at any time.
QuotaInv ==
    /\ TypeOK
    /\ NodesIn(tree, {Dir} \cup 0 .. MaxInt)
    /\ QuotaConserved

\* A number an int can hold is unchanged by it.
LEMMA IntIsSame == \A n \in 0 .. MaxInt : int(n) = n
<1> SUFFICES ASSUME NEW n \in 0 .. MaxInt PROVE int(n) = n
  OBVIOUS
<1> DEFINE W == 2 * (MaxInt + 1)
<1>1. MaxInt \in Nat /\ W \in Nat \ {0} /\ n + MaxInt + 1 \in 0 .. W - 1
  BY StorageAssumption
<1>2. \A w \in Nat \ {0} : \A a \in 0 .. w - 1 : a % w = a
  OBVIOUS
<1> HIDE DEF W
<1>3. (n + MaxInt + 1) % W = n + MaxInt + 1
  BY <1>1, <1>2
<1> QED
  BY <1>1, <1>3 DEF int, W

LEMMA QuotaInit == ASSUME FilesFit PROVE Init => QuotaInv
<1> SUFFICES ASSUME Init PROVE QuotaInv
  OBVIOUS
<1>1. NodesIn(tree, {Dir} \cup 0 .. MaxInt)
  BY FilesFit, StorageAssumption DEF FilesFit, Init, NodesIn
<1>2. QuotaConserved
  BY StorageAssumption DEF Init, QuotaConserved
<1> QED
  BY <1>1, <1>2, TypeInit DEF QuotaInv

\* Only a download changes the two sides, and it moves the same number from
\* one to the other.
LEMMA QuotaNext == QuotaInv /\ [Next]_vars => QuotaInv'
<1> SUFFICES ASSUME QuotaInv, [Next]_vars PROVE QuotaInv'
  OBVIOUS
<1>1. TypeOK'
  BY TypeNext DEF QuotaInv
<1>2. NodesIn(tree', {Dir} \cup 0 .. MaxInt)
  <2>1. CASE UNCHANGED vars
    BY <2>1 DEF QuotaInv, NodesIn, vars, disk
  <2>2. CASE Next
    BY <2>2, TreeStep DEF QuotaInv, Next
  <2> QED
    BY <2>1, <2>2
<1>3. QuotaConserved'
  <2>1. CASE UNCHANGED <<size, delivered>>
    BY <2>1 DEF QuotaInv, QuotaConserved
  <2>2. ASSUME NEW k \in Accounts, NEW arg \in Arguments, Downloaded(k, arg)
        PROVE  QuotaConserved'
    <3> DEFINE n == tree[Target(k, arg)]
    <3>1. n \in 0 .. MaxInt
      BY <2>2 DEF Downloaded, IsFile, QuotaInv, NodesIn
    <3>2. file_size_in_bytes(k, arg) = n
      BY <3>1, IntIsSame DEF file_size_in_bytes
    <3>3. /\ size \in [Accounts -> Int]
          /\ delivered \in [Accounts -> Nat]
          /\ size[k] >= n
          /\ size[k] + delivered[k] = Quota[k]
          /\ Quota[k] \in 0 .. MaxInt
      <4>1. size \in [Accounts -> Int] /\ delivered \in [Accounts -> Nat]
        BY IntsAreNumbers DEF QuotaInv, TypeOK
      <4>2. size[k] >= n
        BY <2>2, <3>2 DEF Downloaded
      <4>3. size[k] + delivered[k] = Quota[k]
        BY DEF QuotaInv, QuotaConserved
      <4> QED
        BY <4>1, <4>2, <4>3, StorageAssumption
    <3> HIDE DEF n
    <3>4. size[k] - n \in 0 .. MaxInt
      BY <3>1, <3>3, StorageAssumption
    <3>5. size' = [size EXCEPT ![k] = int(size[k] - n)]
      BY <2>2, <3>2 DEF Downloaded, reduce_size
    <3>6. size' = [size EXCEPT ![k] = size[k] - n]
      BY <3>4, <3>5, IntIsSame
    <3>7. delivered' = [delivered EXCEPT ![k] = delivered[k] + n]
      BY <2>2 DEF Downloaded, n
    <3>8. size'[k] + delivered'[k] = Quota[k] /\ size'[k] >= 0
      BY <3>1, <3>3, <3>4, <3>6, <3>7
    <3>9. \A j \in Accounts \ {k} : size'[j] = size[j] /\ delivered'[j] = delivered[j]
      BY <3>3, <3>6, <3>7
    <3> QED
      BY <3>8, <3>9 DEF QuotaInv, QuotaConserved
  <2>3. CASE UNCHANGED vars
    BY <2>1, <2>3 DEF vars, disk
  <2>4. ASSUME NEW k \in Accounts, Command(k) PROVE QuotaConserved'
    BY <2>1, <2>2, <2>4, CommandKinds DEF back_to_home, Changed, Looped
  <2> QED
    BY <2>3, <2>4 DEF Next
<1> QED
  BY <1>1, <1>2, <1>3 DEF QuotaInv

\* What an account has downloaded and what it has left are its quota, for every
\* tree whose files an int can measure and any sequence of commands.
THEOREM QuotaCorrect == ASSUME FilesFit PROVE Spec => []QuotaConserved
<1>1. Init => QuotaInv
  BY QuotaInit
<1>2. QuotaInv => QuotaConserved
  BY DEF QuotaInv
<1> QED
  BY <1>1, <1>2, QuotaNext, PTL DEF Spec

-----------------------------------------------------------------------------
(***************************************************************************)
(* What a path leads to.                                                   *)
(***************************************************************************)

\* The nodes on the way, after each component of the path.
IsWalk(node, t, at, names) ==
    /\ node[0] = at
    /\ \A i \in 1 .. Len(names) : node[i] = Enter(t, node[i - 1], names[i])
    /\ Walk(t, at, names) = node[Len(names)]

\* The recursion of Walk has such a function.
LEMMA WalkDef ==
  ASSUME NEW t, NEW at, NEW names, Len(names) \in Nat
  PROVE  \E node : IsWalk(node, t, at, names)
<1> DEFINE n == Len(names)
           S == {at, NoPath, Root} \cup DOMAIN t \cup {Front(p) : p \in DOMAIN t}
           next(v, i) == Enter(t, v, names[i])
           body(g) == [i \in 0 .. n |-> IF i = 0 THEN at ELSE next(g[i - 1], i)]
           node == CHOOSE g : g = body(g)
           step == [x \in (1 .. n) \X S |-> next(x[2], x[1])]
<1>0. n \in Nat /\ at \in S
  OBVIOUS
<1>1. \A i \in 1 .. n, v \in S : next(v, i) \in S
  <2> SUFFICES ASSUME NEW i \in 1 .. n, NEW v \in S
               PROVE  Enter(t, v, names[i]) \in S
    OBVIOUS
  <2>1. CASE ~IsDir(t, v)
    <3>1. Enter(t, v, names[i]) = NoPath
      BY <2>1 DEF Enter
    <3> QED
      BY <3>1
  <2>2. CASE IsDir(t, v)
    <3>1. v \in DOMAIN t
      BY <2>2 DEF IsDir
    <3>2. Enter(t, v, names[i]) \in {v, Root, Front(v), NoPath} \cup DOMAIN t
      BY <2>2 DEF Enter
    <3> QED
      BY <3>1, <3>2
  <2> QED
    BY <2>1, <2>2
<1>2. step \in Steps(n, S)
  <2> HIDE DEF n, next, S
  <2> QED
    BY <1>1 DEF Steps
<1>3. PICK f \in [0 .. n -> S] : f[0] = at /\ \A i \in 1 .. n : f[i] = step[<<i, f[i - 1]>>]
  <2> HIDE DEF step, n, S
  <2>1. PICK f : f \in Recursive(n, S, at, step)
    BY <1>0, <1>2, Recursion
  <2> QED
    BY <2>1 DEF Recursive
<1>4. f = body(f)
  <2>1. \A i \in 1 .. n : f[i] = next(f[i - 1], i)
    <3> HIDE DEF next, n, S
    <3>1. \A i \in 1 .. n : f[i - 1] \in S
      BY <1>0
    <3> QED
      BY <1>3, <3>1
  <2> HIDE DEF n, next
  <2>2. \A i \in 0 .. n : f[i] = IF i = 0 THEN at ELSE next(f[i - 1], i)
    BY <1>0, <1>3, <2>1
  <2> QED
    BY <2>2
<1>5. node = body(node)
  <2> HIDE DEF body
  <2> QED
    BY <1>4
<1>6. node[0] = at /\ \A i \in 1 .. n : node[i] = next(node[i - 1], i)
  <2> HIDE DEF node, n, next
  <2> QED
    BY <1>0, <1>5
<1>7. Walk(t, at, names) = node[n]
  BY DEF Walk
<1> HIDE DEF node
<1>8. IsWalk(node, t, at, names)
  BY <1>6, <1>7 DEF IsWalk
<1> QED
  BY <1>8

\* A path and another behind it lead where the second leads from where the first
\* does.
LEMMA WalkConcat ==
  ASSUME NEW S, NEW t, NEW at, NEW s \in Seq(S), NEW u \in Seq(S)
  PROVE  Walk(t, at, s \o u) = Walk(t, Walk(t, at, s), u)
<1> DEFINE r == s \o u
           n == Len(s)
           m == Len(u)
           mid == Walk(t, at, s)
<1>1. /\ n \in Nat /\ m \in Nat /\ Len(r) = n + m
      /\ \A i \in 1 .. n : r[i] = s[i]
      /\ \A i \in 1 .. m : r[n + i] = u[i]
  OBVIOUS
<1>2. PICK U : IsWalk(U, t, at, s)
  <2>1. Len(s) \in Nat
    OBVIOUS
  <2> QED
    BY <2>1, WalkDef
<1>3. PICK V : IsWalk(V, t, mid, u)
  <2>1. Len(u) \in Nat
    OBVIOUS
  <2> HIDE DEF mid
  <2> QED
    BY <2>1, WalkDef
<1>4. PICK W : IsWalk(W, t, at, r)
  <2>1. Len(r) \in Nat
    BY <1>1
  <2> HIDE DEF r
  <2> QED
    BY <2>1, WalkDef
<1>5. U[0] = at /\ (\A i \in 1 .. n : U[i] = Enter(t, U[i - 1], s[i])) /\ mid = U[n]
  BY <1>2 DEF IsWalk
<1>6. V[0] = mid /\ (\A i \in 1 .. m : V[i] = Enter(t, V[i - 1], u[i])) /\ Walk(t, mid, u) = V[m]
  BY <1>3 DEF IsWalk
<1>7. W[0] = at /\ (\A i \in 1 .. n + m : W[i] = Enter(t, W[i - 1], r[i])) /\ Walk(t, at, r) = W[n + m]
  <2> DEFINE k == n + m
  <2>1. Len(r) = k
    BY <1>1
  <2> HIDE DEF k, r
  <2>2. W[0] = at /\ (\A i \in 1 .. k : W[i] = Enter(t, W[i - 1], r[i])) /\ Walk(t, at, r) = W[k]
    BY <1>4, <2>1 DEF IsWalk
  <2> QED
    BY <2>2 DEF k
<1> HIDE DEF r, n, m, mid
<1>8. W[n] = U[n]
  <2> DEFINE A == {i \in 0 .. n : W[i] = U[i]}
  <2>1. 0 \in A
    BY <1>1, <1>5, <1>7
  <2>2. ASSUME NEW i \in 0 .. n - 1, i \in A
        PROVE  i + 1 \in A
    <3>1. i + 1 \in 1 .. n /\ i + 1 \in 0 .. n /\ (i + 1) - 1 = i /\ i + 1 \in 1 .. n + m
      BY <1>1
    <3>2. W[i + 1] = Enter(t, W[i], s[i + 1])
      BY <1>1, <1>7, <3>1
    <3>3. U[i + 1] = Enter(t, U[i], s[i + 1])
      BY <1>5, <3>1
    <3>4. W[i] = U[i]
      BY <2>2
    <3>5. W[i + 1] = U[i + 1]
      BY <3>2, <3>3, <3>4
    <3> QED
      BY <3>1, <3>5
  <2>3. n \in A
    <3> HIDE DEF A
    <3>1. n \in 0 .. n
      BY <1>1
    <3> QED
      BY <1>1, <2>1, <2>2, <3>1, InductionUpTo
  <2> QED
    BY <2>3
<1>9. W[n + m] = V[m]
  <2> DEFINE A == {i \in 0 .. m : W[n + i] = V[i]}
  <2>1. 0 \in A
    <3>1. n + 0 = n /\ 0 \in 0 .. m
      BY <1>1
    <3> QED
      BY <1>5, <1>6, <1>8, <3>1
  <2>2. ASSUME NEW i \in 0 .. m - 1, i \in A
        PROVE  i + 1 \in A
    <3> DEFINE k == n + (i + 1)
    <3>1. /\ i + 1 \in 1 .. m /\ i + 1 \in 0 .. m /\ (i + 1) - 1 = i
          /\ k \in 1 .. n + m /\ k - 1 = n + i
      BY <1>1
    <3>2. r[k] = u[i + 1]
      BY <1>1, <3>1
    <3>3. W[n + i] = V[i]
      BY <2>2
    <3> HIDE DEF k
    <3>4. W[k] = Enter(t, W[k - 1], r[k])
      BY <1>7, <3>1
    <3>5. W[k] = Enter(t, V[i], u[i + 1])
      BY <3>1, <3>2, <3>3, <3>4, Zenon
    <3>6. V[i + 1] = Enter(t, V[i], u[i + 1])
      BY <1>6, <3>1
    <3>7. W[n + (i + 1)] = V[i + 1]
      BY <3>5, <3>6 DEF k
    <3> QED
      BY <3>1, <3>7
  <2>3. m \in A
    <3> HIDE DEF A
    <3>1. m \in 0 .. m
      BY <1>1
    <3> QED
      BY <1>1, <2>1, <2>2, <3>1, InductionUpTo
  <2> QED
    BY <2>3
<1> QED
  BY <1>6, <1>7, <1>9 DEF r, mid


\* A prefix, by its components.
LEMMA PrefixIs ==
  ASSUME NEW a \in Seq(STRING), NEW b \in Seq(STRING)
  PROVE  IsPrefix(a, b) <=> Len(a) <= Len(b) /\ \A i \in 1 .. Len(a) : b[i] = a[i]
<1> DEFINE n == Len(a)
           c == SubSeq(b, 1, n)
<1>1. n \in Nat /\ Len(b) \in Nat /\ SubSeq(a, 1, n) = a
  BY SubSeqFull
<1>2. IsPrefix(a, b) <=> n <= Len(b) /\ a = c
  BY <1>1 DEF IsPrefix
<1>3. ASSUME n <= Len(b)
      PROVE  c \in Seq(STRING) /\ Len(c) = n /\ \A i \in 1 .. n : c[i] = b[i]
  BY <1>1, <1>3
<1> HIDE DEF c
<1>4. ASSUME n <= Len(b), \A i \in 1 .. n : b[i] = a[i]
      PROVE  a = c
  <2>1. c \in Seq(STRING) /\ Len(c) = Len(a) /\ \A i \in 1 .. Len(a) : a[i] = c[i]
    BY <1>3, <1>4
  <2> QED
    BY <2>1, SeqEqual
<1> QED
  BY <1>2, <1>3, <1>4

\* A path behind another, by its components.
LEMMA ConcatIs ==
  ASSUME NEW a \in Seq(STRING), NEW b \in Seq(STRING)
  PROVE  /\ a \o b \in Seq(STRING) /\ Len(a \o b) = Len(a) + Len(b)
         /\ \A i \in 1 .. Len(a) : (a \o b)[i] = a[i]
         /\ \A i \in 1 .. Len(b) : (a \o b)[Len(a) + i] = b[i]
OBVIOUS

LEMMA HalfOf ==
  \A l, n \in Nat : \A j \in 1 .. l + n : j \in 1 .. l \/ (j - l \in 1 .. n /\ l + (j - l) = j)
OBVIOUS
\* The tree's nodes have paths, and where a path leads nowhere is none of them.
Paths(t) == DOMAIN t \subseteq Seq(STRING) /\ NoPath \notin DOMAIN t

\* Nowhere, or to a node at or below where the path begins; a path of names
\* only, to the node that has its names.
LeadsDown(t, at, names, to) ==
    \/ to = NoPath
    \/ /\ to \in Seq(STRING) /\ IsPrefix(at, to)
       /\ to \in DOMAIN t \cup {at}
       /\ names # <<>> => to \in DOMAIN t /\ at \in DOMAIN t
       /\ (\A i \in 1 .. Len(names) : names[i] \notin {"", "."}) => to = at \o names

\* That is where a path without ".." leads.
LEMMA WalkDown ==
  ASSUME NEW t, Paths(t), NEW at \in Seq(STRING), NEW names \in Seq(STRING \ {".."})
  PROVE  LeadsDown(t, at, names, Walk(t, at, names))
<1> DEFINE n == Len(names)
           l == Len(at)
           AllNames == \A i \in 1 .. n : names[i] \notin {"", "."}
           Reached(v, i) ==
              /\ v \in Seq(STRING) /\ l <= Len(v) /\ \A j \in 1 .. l : v[j] = at[j]
              /\ v \in DOMAIN t \cup {at}
              /\ i # 0 => v \in DOMAIN t /\ at \in DOMAIN t
              /\ AllNames => Len(v) = l + i /\ \A j \in 1 .. i : v[l + j] = names[j]
<1>1. /\ n \in Nat /\ l \in Nat
      /\ \A i \in 1 .. n : names[i] \in STRING /\ names[i] # ".."
  OBVIOUS
<1>2. PICK node : IsWalk(node, t, at, names)
  <2>1. Len(names) \in Nat
    OBVIOUS
  <2> QED
    BY <2>1, WalkDef
<1>0. /\ node[0] = at
      /\ \A i \in 1 .. n : node[i] = Enter(t, node[i - 1], names[i])
      /\ Walk(t, at, names) = node[n]
  BY <1>2 DEF IsWalk
<1> DEFINE A == {i \in 0 .. n : node[i] = NoPath \/ Reached(node[i], i)}
<1>3. 0 \in A
  <2>1. 0 \in 0 .. n /\ Reached(node[0], 0)
    BY <1>1, <1>0
  <2> HIDE DEF Reached
  <2> QED
    BY <2>1
<1>4. ASSUME NEW i \in 0 .. n - 1, i \in A
      PROVE  i + 1 \in A
  <2> DEFINE v == node[i]
             x == names[i + 1]
             w == node[i + 1]
  <2>1. i + 1 \in 1 .. n /\ i + 1 \in 0 .. n /\ (i + 1) - 1 = i /\ i \in Nat /\ i + 1 # 0
    BY <1>1
  <2>2. w = Enter(t, v, x)
    BY <1>0, <2>1
  <2>3. x \in STRING /\ x # ".."
    BY <1>1, <2>1
  <2>4. AllNames => x \notin {"", "."}
    BY <2>1
  <2>5. v = NoPath \/ Reached(v, i)
    BY <1>4
  <2>6. x = names[i + 1]
    OBVIOUS
  <2> HIDE DEF v, x, w, n, l, AllNames
  <2>7. CASE ~IsDir(t, v)
    <3>1. w = NoPath
      BY <2>2, <2>7 DEF Enter
    <3> QED
      BY <2>1, <3>1 DEF w
  <2>8. CASE IsDir(t, v)
    <3>1. v \in DOMAIN t /\ v # NoPath
      BY <2>8 DEF IsDir, Paths
    <3>2. Reached(v, i)
      BY <2>5, <3>1
    <3>3. at \in DOMAIN t
      <4>1. CASE i = 0
        <5>1. v = at
          BY <1>0, <4>1 DEF v
        <5> QED
          BY <3>1, <5>1
      <4>2. CASE i # 0
        BY <3>2, <4>2
      <4> QED
        BY <4>1, <4>2
    <3>4. CASE x \in {"", "."}
      <4>1. w = v
        BY <2>2, <2>8, <3>4, Zenon DEF Enter
      <4>2. Reached(w, i + 1)
        BY <2>4, <3>1, <3>2, <3>3, <3>4, <4>1
      <4> HIDE DEF Reached
      <4> QED
        BY <2>1, <4>2 DEF w
    <3>5. CASE x \notin {"", "."}
      <4> DEFINE to == Append(v, x)
      <4>1. (w = to /\ to \in DOMAIN t) \/ w = NoPath
        BY <2>2, <2>3, <2>8, <3>5 DEF Enter
      <4>2. /\ to \in Seq(STRING) /\ Len(to) = Len(v) + 1 /\ to[Len(v) + 1] = x
            /\ \A j \in 1 .. Len(v) : to[j] = v[j]
            /\ Len(v) \in Nat
        BY <2>3, <3>2
      <4> HIDE DEF to
      <4>3. l <= Len(to) /\ \A j \in 1 .. l : to[j] = at[j]
        BY <1>1, <3>2, <4>2
      <4>4. AllNames => Len(to) = l + (i + 1) /\ \A j \in 1 .. i + 1 : to[l + j] = names[j]
        <5> SUFFICES ASSUME AllNames
                     PROVE  Len(to) = l + (i + 1) /\ \A j \in 1 .. i + 1 : to[l + j] = names[j]
          OBVIOUS
        <5>1. Len(v) = l + i /\ \A j \in 1 .. i : v[l + j] = names[j]
          BY <3>2
        <5>2. Len(to) = l + (i + 1) /\ to[l + (i + 1)] = x
          BY <1>1, <2>1, <4>2, <5>1
        <5>3. ASSUME NEW j \in 1 .. i
              PROVE  to[l + j] = names[j]
          <6>1. l + j \in 1 .. Len(v)
            BY <1>1, <2>1, <5>1
          <6> QED
            BY <4>2, <5>1, <6>1
        <5>4. \A j \in 1 .. i + 1 : j = i + 1 \/ j \in 1 .. i
          BY <2>1
        <5> QED
          BY <2>6, <5>2, <5>3, <5>4
      <4>5. w = NoPath \/ Reached(w, i + 1)
        BY <3>3, <4>1, <4>2, <4>3, <4>4
      <4> HIDE DEF Reached
      <4> QED
        BY <2>1, <4>5 DEF w
    <3> QED
      BY <3>4, <3>5
  <2> QED
    BY <2>7, <2>8
<1>5. n \in A
  <2> HIDE DEF A
  <2>1. n \in 0 .. n
    BY <1>1
  <2> QED
    BY <1>1, <1>3, <1>4, <2>1, InductionUpTo
<1> DEFINE to == node[n]
<1>6. to = NoPath \/ Reached(to, n)
  BY <1>5
<1> HIDE DEF to
<1>7. ASSUME to # NoPath
      PROVE  /\ to \in Seq(STRING) /\ IsPrefix(at, to)
             /\ to \in DOMAIN t \cup {at}
             /\ names # <<>> => to \in DOMAIN t /\ at \in DOMAIN t
             /\ (\A i \in 1 .. Len(names) : names[i] \notin {"", "."}) => to = at \o names
  <2>1. Reached(to, n)
    BY <1>6, <1>7
  <2>2. IsPrefix(at, to)
    BY <2>1, PrefixIs
  <2>3. names # <<>> => n # 0
    OBVIOUS
  <2>4. AllNames => to = at \o names
    <3> SUFFICES ASSUME AllNames PROVE to = at \o names
      OBVIOUS
    <3> DEFINE r == at \o names
    <3>1. /\ r \in Seq(STRING) /\ Len(r) = l + n
          /\ \A j \in 1 .. l : r[j] = at[j]
          /\ \A j \in 1 .. n : r[l + j] = names[j]
      <4>1. names \in Seq(STRING)
        <5>1. STRING \ {".."} \subseteq STRING
          OBVIOUS
        <5> QED
          BY <5>1, SeqMonotonic
      <4> QED
        BY <4>1, ConcatIs
    <3> HIDE DEF r, n, l
    <3>2. \A j \in 1 .. l + n : j \in 1 .. l \/ (j - l \in 1 .. n /\ l + (j - l) = j)
      <4>1. l \in Nat /\ n \in Nat
        BY <1>1
      <4> QED
        BY <4>1, HalfOf, Zenon
    <3>3. \A j \in 1 .. Len(r) : to[j] = r[j]
      <4> SUFFICES ASSUME NEW j \in 1 .. l + n PROVE to[j] = r[j]
        BY <3>1
      <4>1. CASE j \in 1 .. l
        BY <2>1, <3>1, <4>1
      <4>2. CASE j \notin 1 .. l
        <5> DEFINE q == j - l
        <5>1. q \in 1 .. n /\ l + q = j
          BY <3>2, <4>2
        <5> HIDE DEF q
        <5>2. to[l + q] = names[q] /\ r[l + q] = names[q]
          BY <2>1, <3>1, <5>1
        <5> QED
          BY <5>1, <5>2
      <4> QED
        BY <4>1, <4>2
    <3>4. to \in Seq(STRING) /\ Len(to) = Len(r)
      BY <2>1, <3>1
    <3>5. to = r
      BY <3>1, <3>3, <3>4, SeqEqual
    <3> QED
      BY <3>5 DEF r
  <2> QED
    BY <2>1, <2>2, <2>3, <2>4
<1> QED
  BY <1>0, <1>7 DEF to, LeadsDown

-----------------------------------------------------------------------------
(***************************************************************************)
(* The commands act below the position.                                    *)
(***************************************************************************)

\* A path within another.
LEMMA PrefixWithin ==
  ASSUME NEW a \in Seq(STRING), NEW b \in Seq(STRING), NEW c \in Seq(STRING),
         IsPrefix(a, b), IsPrefix(b, c)
  PROVE  IsPrefix(a, c)
<1>1. /\ Len(a) <= Len(b) /\ \A i \in 1 .. Len(a) : b[i] = a[i]
      /\ Len(b) <= Len(c) /\ \A i \in 1 .. Len(b) : c[i] = b[i]
      /\ Len(a) \in Nat /\ Len(b) \in Nat /\ Len(c) \in Nat
  BY PrefixIs
<1>2. \A i \in 1 .. Len(a) : i \in 1 .. Len(b)
  BY <1>1
<1>3. Len(a) <= Len(c) /\ \A i \in 1 .. Len(a) : c[i] = a[i]
  BY <1>1, <1>2
<1> QED
  BY <1>3, PrefixIs

\* A path is within itself, and within what another continues.
LEMMA PrefixOfConcat ==
  ASSUME NEW a \in Seq(STRING), NEW b \in Seq(STRING)
  PROVE  IsPrefix(a, a) /\ IsPrefix(a, a \o b)
<1> DEFINE c == a \o b
<1>1. /\ c \in Seq(STRING) /\ Len(c) = Len(a) + Len(b) /\ \A i \in 1 .. Len(a) : c[i] = a[i]
      /\ Len(a) \in Nat /\ Len(b) \in Nat
  BY ConcatIs
<1> HIDE DEF c
<1>2. IsPrefix(a, c)
  BY <1>1, PrefixIs
<1>3. IsPrefix(a, a)
  BY <1>1, PrefixIs
<1> QED
  BY <1>2, <1>3 DEF c

LEMMA PrefixOfAppend ==
  ASSUME NEW a \in Seq(STRING), NEW x \in STRING
  PROVE  Append(a, x) \in Seq(STRING) /\ IsPrefix(a, Append(a, x))
<1> DEFINE c == Append(a, x)
<1>1. /\ c \in Seq(STRING) /\ Len(c) = Len(a) + 1 /\ \A i \in 1 .. Len(a) : c[i] = a[i]
      /\ Len(a) \in Nat
  <2>1. Len(a) \in Nat
    OBVIOUS
  <2>2. c \in Seq(STRING)
    <3>1. \A S : \A s \in Seq(S), e \in S : Append(s, e) \in Seq(S)
      BY AppendProperties
    <3> QED
      BY <3>1, Zenon
  <2>3. Len(c) = Len(a) + 1
    BY AppendProperties, Zenon
  <2>4. ASSUME NEW i \in 1 .. Len(a)
        PROVE  c[i] = a[i]
    OBVIOUS
  <2> QED
    BY <2>1, <2>2, <2>3, <2>4
<1> HIDE DEF c
<1>2. IsPrefix(a, c)
  BY <1>1, PrefixIs
<1> QED
  BY <1>1, <1>2 DEF c

\* A typed path has a last component and a path before it.
LEMMA FrontLast ==
  ASSUME NEW S, NEW names \in Seq(S), names # <<>>
  PROVE  Front(names) \in Seq(S) /\ Last(names) \in S /\ names = Front(names) \o <<Last(names)>>
<1> DEFINE n == Len(names)
<1>1. n \in Nat \ {0} /\ 1 \in 1 .. n /\ n \in 1 .. n
  OBVIOUS
<1>2. SubSeq(names, 1, n) = SubSeq(names, 1, n - 1) \o <<names[n]>>
  BY <1>1, SubSeqRecursiveSecond
<1>3. SubSeq(names, 1, n) = names
  BY SubSeqFull
<1>4. SubSeq(names, 1, n - 1) \in Seq(S) /\ names[n] \in S
  BY <1>1
<1> QED
  BY <1>2, <1>3, <1>4 DEF Front, Last

\* The entry a path makes is nowhere or below where it begins.
LEMMA EntryDown ==
  ASSUME NEW t, Paths(t), NEW at \in Seq(STRING), NEW names \in Seq(STRING \ {".."}), names # <<>>
  PROVE  LET new == Entry(t, at, names)
         IN  new = NoPath \/ (new \in Seq(STRING) /\ IsPrefix(at, new))
<1> DEFINE parent == Walk(t, at, Front(names))
           x == Last(names)
           new == Entry(t, at, names)
<1>1. Front(names) \in Seq(STRING \ {".."}) /\ x \in STRING
  BY FrontLast
<1>2. parent = NoPath \/ (parent \in Seq(STRING) /\ IsPrefix(at, parent))
  BY <1>1, WalkDown DEF LeadsDown
<1>3. new = NoPath \/ (new = Append(parent, x) /\ IsDir(t, parent))
  BY DEF Entry
<1> HIDE DEF parent, x, new
<1>4. ASSUME new # NoPath
      PROVE  new \in Seq(STRING) /\ IsPrefix(at, new)
  <2>1. new = Append(parent, x) /\ parent # NoPath
    BY <1>3, <1>4 DEF IsDir, Paths
  <2>2. parent \in Seq(STRING) /\ IsPrefix(at, parent)
    BY <1>2, <2>1
  <2>3. new \in Seq(STRING) /\ IsPrefix(parent, new)
    BY <1>1, <2>1, <2>2, PrefixOfAppend
  <2> QED
    BY <2>2, <2>3, PrefixWithin
<1> QED
  BY <1>4 DEF new

\* The paths that two trees do not share.
Differ(t, u) == {p \in DOMAIN t \cup DOMAIN u : ~(p \in DOMAIN t \cap DOMAIN u /\ u[p] = t[p])}

\* mkdir changes nothing or adds a directory below "at".
LEMMA MkdirDown ==
  ASSUME NEW t, Paths(t), NEW at \in Seq(STRING), NEW names \in Seq(STRING \ {".."}), names # <<>>
  PROVE  \A p \in Differ(t, mkdir(t, at, names)) : IsPrefix(at, p)
<1> DEFINE new == Entry(t, at, names)
           u == mkdir(t, at, names)
<1>1. new = NoPath \/ (new \in Seq(STRING) /\ IsPrefix(at, new))
  BY EntryDown
<1>2. u = IF new = NoPath \/ new \in DOMAIN t THEN t
          ELSE [p \in DOMAIN t \cup {new} |-> IF p = new THEN Dir ELSE t[p]]
  BY DEF mkdir
<1> HIDE DEF new, u
<1>3. CASE new = NoPath \/ new \in DOMAIN t
  <2>1. u = t
    BY <1>2, <1>3
  <2>2. Differ(t, t) = {}
    BY DEF Differ
  <2> QED
    BY <2>1, <2>2 DEF u
<1>4. CASE ~(new = NoPath \/ new \in DOMAIN t)
  <2>1. DOMAIN u = DOMAIN t \cup {new} /\ \A p \in DOMAIN t : u[p] = t[p]
    BY <1>2, <1>4
  <2>2. \A p \in Differ(t, u) : p = new
    BY <2>1 DEF Differ
  <2> QED
    BY <1>1, <1>4, <2>2 DEF u
<1> QED
  BY <1>3, <1>4

\* Without a node, a tree loses what is at and below it.
LEMMA WithoutDown ==
  ASSUME NEW t, NEW path
  PROVE  \A p \in Differ(t, Without(t, path)) : p \in DOMAIN t /\ IsPrefix(path, p)
BY DEF Differ, Without, Below

\* rm changes nothing or removes what is below "at".
LEMMA RmDown ==
  ASSUME NEW t, Paths(t), NEW at \in Seq(STRING), NEW recursive,
         NEW names \in Seq(STRING \ {".."})
  PROVE  \A p \in Differ(t, rm(t, at, recursive, names)) : IsPrefix(at, p)
<1> DEFINE node == Walk(t, at, names)
           u == rm(t, at, recursive, names)
<1>1. node = NoPath \/ (node \in Seq(STRING) /\ IsPrefix(at, node))
  BY WalkDown DEF LeadsDown
<1>2. u = t \/ (u = Without(t, node) /\ node \in DOMAIN t)
  BY DEF rm
<1> HIDE DEF node, u
<1>3. CASE u = t
  <2>1. Differ(t, t) = {}
    BY DEF Differ
  <2> QED
    BY <1>3, <2>1 DEF u
<1>4. CASE u = Without(t, node) /\ node \in DOMAIN t
  <2>1. node \in Seq(STRING) /\ IsPrefix(at, node)
    BY <1>1, <1>4 DEF Paths
  <2>2. \A p \in Differ(t, u) : p \in Seq(STRING) /\ IsPrefix(node, p)
    BY <1>4, WithoutDown DEF Paths
  <2> QED
    BY <2>1, <2>2, PrefixWithin DEF u
<1> QED
  BY <1>2, <1>3, <1>4

\* What is moved disappears below one node and appears below another.
LEMMA MovedDown ==
  ASSUME NEW t, Paths(t), NEW node \in Seq(STRING), NEW target \in Seq(STRING)
  PROVE  \A p \in Differ(t, Moved(t, node, target)) :
            p \in Seq(STRING) /\ (IsPrefix(node, p) \/ IsPrefix(target, p))
<1> DEFINE rest  == Without(Without(t, node), target)
           to(p) == target \o SubSeq(p, Len(node) + 1, Len(p))
           new   == {to(p) : p \in Below(t, node)}
           u     == Moved(t, node, target)
<1>1. DOMAIN u = DOMAIN rest \cup new /\ \A p \in DOMAIN rest \ new : u[p] = rest[p]
  <2> DEFINE val(q) == IF q \in new THEN t[CHOOSE p \in Below(t, node) : to(p) = q] ELSE t[q]
  <2>1. u = [q \in DOMAIN rest \cup new |-> val(q)]
    BY DEF Moved
  <2>2. \A q \in DOMAIN rest \ new : val(q) = t[q]
    OBVIOUS
  <2>3. \A q \in DOMAIN rest : rest[q] = t[q]
    BY DEF Without
  <2> HIDE DEF u, rest, new, val
  <2> QED
    BY <2>1, <2>2, <2>3
<1>2. \A q \in new : q \in Seq(STRING) /\ IsPrefix(target, q)
  <2> SUFFICES ASSUME NEW p \in Below(t, node)
               PROVE  to(p) \in Seq(STRING) /\ IsPrefix(target, to(p))
    OBVIOUS
  <2> DEFINE s == SubSeq(p, Len(node) + 1, Len(p))
  <2>1. p \in Seq(STRING)
    BY DEF Below, Paths
  <2>2. s \in Seq(STRING)
    BY <2>1
  <2> HIDE DEF s
  <2>3. target \o s \in Seq(STRING) /\ IsPrefix(target, target \o s)
    BY <2>2, ConcatIs, PrefixOfConcat
  <2> QED
    BY <2>3 DEF s
<1>3. \A p \in DOMAIN t : \/ p \in DOMAIN rest /\ rest[p] = t[p]
                          \/ IsPrefix(node, p) \/ IsPrefix(target, p)
  BY DEF Without, Below
<1>4. DOMAIN rest \subseteq DOMAIN t
  BY DEF Without
<1>5. DOMAIN t \subseteq Seq(STRING)
  BY DEF Paths
<1> HIDE DEF rest, new, u
<1>6. \A p \in Differ(t, u) : p \in Seq(STRING) /\ (IsPrefix(node, p) \/ IsPrefix(target, p))
  BY <1>1, <1>2, <1>3, <1>4, <1>5 DEF Differ
<1> QED
  BY <1>6 DEF u

\* What mv does with typed paths: nothing, or it puts the node into a directory
\* or where a new entry would be.
LEMMA MvIs ==
  ASSUME NEW t, Paths(t), NEW at, NEW names \in Seq(STRING), names # <<>>,
         NEW newAt, NEW newNames \in Seq(STRING), newNames # <<>>
  PROVE  LET node   == Walk(t, at, names)
             where  == Walk(t, newAt, newNames)
             target == Destination(t, names, newAt, newNames)
             u      == mv(t, at, names, newAt, newNames)
         IN  \/ u = t
             \/ /\ node \in DOMAIN t /\ target \in Seq(STRING)
                /\ u = Moved(t, node, target)
                /\ \/ IsDir(t, where) /\ target = Append(where, Last(names))
                   \/ target = Entry(t, newAt, newNames) /\ target # NoPath
<1> DEFINE node  == Walk(t, at, names)
           where == Walk(t, newAt, newNames)
           u     == mv(t, at, names, newAt, newNames)
           x     == Last(names)
           entry == Entry(t, newAt, newNames)
           target == Destination(t, names, newAt, newNames)
<1>1. x \in STRING /\ Last(newNames) \in STRING
  BY FrontLast
<1>2. u = t \/ (node \in DOMAIN t /\ target # NoPath /\ u = Moved(t, node, target))
  BY DEF mv
<1>3. entry = NoPath \/ entry \in Seq(STRING)
  <2> DEFINE parent == Walk(t, newAt, Front(newNames))
             y == Last(newNames)
  <2>1. entry = NoPath \/ (entry = Append(parent, y) /\ IsDir(t, parent))
    BY DEF Entry
  <2> HIDE DEF parent, entry
  <2>2. IsDir(t, parent) => parent \in Seq(STRING)
    BY DEF IsDir, Paths
  <2>3. y \in STRING
    BY <1>1
  <2> HIDE DEF y
  <2>4. parent \in Seq(STRING) => Append(parent, y) \in Seq(STRING)
    BY <2>3, PrefixOfAppend, Zenon
  <2> QED
    BY <2>1, <2>2, <2>4
<1>4. IsDir(t, where) => where \in Seq(STRING)
  BY DEF IsDir, Paths
<1>7. \/ IsDir(t, where) /\ target = Append(where, x)
      \/ target = entry
  BY DEF Destination
<1> HIDE DEF node, where, u, x, entry, target
<1>5. where \in Seq(STRING) => Append(where, x) \in Seq(STRING)
  BY <1>1, PrefixOfAppend, Zenon
<1>6. target # NoPath => target \in Seq(STRING)
  BY <1>3, <1>4, <1>5, <1>7
<1>8. \/ u = t
      \/ /\ node \in DOMAIN t /\ target \in Seq(STRING)
         /\ u = Moved(t, node, target)
         /\ \/ IsDir(t, where) /\ target = Append(where, x)
            \/ target = entry /\ target # NoPath
  BY <1>2, <1>6, <1>7
<1> QED
  BY <1>8, Zenon DEF node, where, u, x, entry, target

\* mv changes nothing or what is below "at", from where both its paths go down.
LEMMA MvDown ==
  ASSUME NEW t, Paths(t), NEW at \in Seq(STRING),
         NEW names \in Seq(STRING \ {".."}), names # <<>>,
         NEW newNames \in Seq(STRING \ {".."}), newNames # <<>>
  PROVE  \A p \in Differ(t, mv(t, at, names, at, newNames)) : IsPrefix(at, p)
<1> DEFINE node  == Walk(t, at, names)
           where == Walk(t, at, newNames)
           target == Destination(t, names, at, newNames)
           u     == mv(t, at, names, at, newNames)
           x     == Last(names)
           entry == Entry(t, at, newNames)
<1>1. names \in Seq(STRING) /\ newNames \in Seq(STRING) /\ x \in STRING
  <2>1. STRING \ {".."} \subseteq STRING
    OBVIOUS
  <2>2. names \in Seq(STRING) /\ newNames \in Seq(STRING)
    BY <2>1, SeqMonotonic
  <2> QED
    BY <2>2, FrontLast
<1>2. \/ u = t
      \/ /\ node \in DOMAIN t /\ target \in Seq(STRING)
         /\ u = Moved(t, node, target)
         /\ \/ IsDir(t, where) /\ target = Append(where, x)
            \/ target = entry /\ target # NoPath
  BY <1>1, MvIs
<1>3. node = NoPath \/ (node \in Seq(STRING) /\ IsPrefix(at, node))
  BY WalkDown DEF LeadsDown
<1>4. where = NoPath \/ (where \in Seq(STRING) /\ IsPrefix(at, where))
  BY WalkDown DEF LeadsDown
<1>5. entry = NoPath \/ (entry \in Seq(STRING) /\ IsPrefix(at, entry))
  BY EntryDown
<1> HIDE DEF node, where, u, x, entry, target
<1>6. ASSUME node \in DOMAIN t
      PROVE  node \in Seq(STRING) /\ IsPrefix(at, node)
  BY <1>3, <1>6 DEF Paths
<1>7. CASE u = t
  <2>1. Differ(t, t) = {}
    BY DEF Differ
  <2> QED
    BY <1>7, <2>1 DEF u
<1>9. ASSUME node \in DOMAIN t, target \in Seq(STRING), u = Moved(t, node, target),
             \/ IsDir(t, where) /\ target = Append(where, x)
             \/ target = entry /\ target # NoPath
      PROVE  \A p \in Differ(t, u) : IsPrefix(at, p)
  <2>1. IsPrefix(at, target)
    <3>1. CASE IsDir(t, where) /\ target = Append(where, x)
      <4>1. where \in Seq(STRING) /\ IsPrefix(at, where)
        BY <1>4, <3>1 DEF IsDir, Paths
      <4>2. IsPrefix(where, target)
        BY <1>1, <3>1, <4>1, PrefixOfAppend
      <4> QED
        BY <1>9, <4>1, <4>2, PrefixWithin
    <3>2. CASE target = entry /\ target # NoPath
      BY <1>5, <3>2
    <3> QED
      BY <1>9, <3>1, <3>2
  <2>2. node \in Seq(STRING) /\ IsPrefix(at, node)
    BY <1>6, <1>9
  <2>3. \A p \in Differ(t, u) : p \in Seq(STRING) /\ (IsPrefix(node, p) \/ IsPrefix(target, p))
    BY <1>9, <2>2, MovedDown
  <2> QED
    BY <1>9, <2>1, <2>2, <2>3, PrefixWithin
<1> QED
  BY <1>2, <1>7, <1>9 DEF u

\* The shell commands keep the tree's nodes at paths.
LEMMA PathsKept ==
  ASSUME NEW t, Paths(t), NEW at, NEW names \in Seq(STRING), names # <<>>,
         NEW newAt, NEW newNames \in Seq(STRING), newNames # <<>>, NEW recursive
  PROVE  /\ Paths(mkdir(t, at, names))
         /\ Paths(rm(t, at, recursive, names))
         /\ Paths(mv(t, at, names, newAt, newNames))
<1>0. NoPath \notin Seq(STRING)
  BY PathAssumption
<1>1. \A node : Paths(Without(t, node))
  BY DEF Paths, Without
<1>2. Paths(mkdir(t, at, names))
  <2> DEFINE new == Entry(t, at, names)
             parent == Walk(t, at, Front(names))
             x == Last(names)
             u == mkdir(t, at, names)
  <2>1. u = t \/ (DOMAIN u = DOMAIN t \cup {new} /\ new # NoPath)
    BY DEF mkdir
  <2>2. new = NoPath \/ (new = Append(parent, x) /\ IsDir(t, parent))
    BY DEF Entry
  <2>3. x \in STRING
    BY FrontLast
  <2> HIDE DEF new, parent, x, u
  <2>4. IsDir(t, parent) => parent \in Seq(STRING)
    BY DEF IsDir, Paths
  <2>5. parent \in Seq(STRING) => Append(parent, x) \in Seq(STRING)
    BY <2>3, PrefixOfAppend, Zenon
  <2>6. u = t \/ DOMAIN u \subseteq Seq(STRING)
    BY <2>1, <2>2, <2>4, <2>5 DEF Paths
  <2>7. Paths(u)
    BY <1>0, <2>6 DEF Paths
  <2> QED
    BY <2>7 DEF u
<1>3. Paths(rm(t, at, recursive, names))
  BY <1>1 DEF rm
<1>4. Paths(mv(t, at, names, newAt, newNames))
  <2> DEFINE node == Walk(t, at, names)
             u == mv(t, at, names, newAt, newNames)
             target == Destination(t, names, newAt, newNames)
  <2>1. u = t \/ (node \in DOMAIN t /\ target \in Seq(STRING) /\ u = Moved(t, node, target))
    BY MvIs
  <2> HIDE DEF node, u, target
  <2>2. ASSUME node \in DOMAIN t, target \in Seq(STRING), u = Moved(t, node, target)
        PROVE  Paths(u)
    <3>1. node \in Seq(STRING)
      BY <2>2 DEF Paths
    <3>2. \A p \in Differ(t, u) : p \in Seq(STRING)
      BY <2>2, <3>1, MovedDown
    <3>3. DOMAIN u \subseteq Seq(STRING)
      BY <3>2 DEF Differ, Paths
    <3> QED
      BY <1>0, <3>3 DEF Paths
  <2>3. Paths(u)
    BY <2>1, <2>2
  <2> QED
    BY <2>3 DEF u
<1> QED
  BY <1>2, <1>3, <1>4

-----------------------------------------------------------------------------
(***************************************************************************)
(* The commands in the directory of an account.                            *)
(***************************************************************************)

\* A typed path is a list of names; if it leads down, it is relative and none of
\* them leads up.
LEMMA Typed ==
  ASSUME NEW arg \in Arguments
  PROVE  /\ arg \in Seq(STRING) /\ arg # <<>>
         /\ Down(arg) => arg \in Seq(STRING \ {".."}) /\ ~Absolute(arg)
<1>1. arg \in Seq(STRING) /\ arg # <<>>
  BY StorageAssumption
<1>2. ASSUME Down(arg)
      PROVE  arg \in Seq(STRING \ {".."}) /\ ~Absolute(arg)
  <2>1. \A i \in DOMAIN arg : arg[i] \notin {"", ".."}
    BY <1>2 DEF Down
  <2>2. /\ Len(arg) \in Nat /\ DOMAIN arg = 1 .. Len(arg) /\ 1 \in DOMAIN arg
        /\ \A i \in 1 .. Len(arg) : arg[i] \in STRING
    BY <1>1
  <2>3. arg = [i \in 1 .. Len(arg) |-> arg[i]]
    BY <1>1
  <2>4. \A i \in 1 .. Len(arg) : arg[i] \in STRING \ {".."}
    BY <2>1, <2>2
  <2>5. ~Absolute(arg)
    BY <2>1, <2>2 DEF Absolute
  <2> QED
    BY <2>2, <2>3, <2>4, <2>5
<1> QED
  BY <1>1, <1>2

LEMMA PathsInit == Init => Paths(tree)
BY PathAssumption DEF Init, Paths

\* No command gives the tree a node that has no path.
LEMMA PathsNext == Paths(tree) /\ [Next]_vars => Paths(tree)'
<1> SUFFICES ASSUME Paths(tree), [Next]_vars PROVE Paths(tree')
  BY DEF Paths
<1>1. CASE UNCHANGED tree
  BY <1>1
<1>2. ASSUME NEW k \in Accounts, NEW arg \in Arguments, mkd_command(k, arg)
      PROVE  Paths(tree')
  BY <1>2, Typed, PathsKept DEF mkd_command, Created
<1>3. ASSUME NEW k \in Accounts, NEW arg \in Arguments, NEW recursive, Deleted(k, recursive, arg)
      PROVE  Paths(tree')
  BY <1>3, Typed, PathsKept DEF Deleted, Remains
<1>4. ASSUME NEW k \in Accounts, NEW arg \in Arguments, NEW new \in Arguments, Renamed(k, arg, new)
      PROVE  Paths(tree')
  BY <1>4, Typed, PathsKept DEF Renamed
<1>5. CASE UNCHANGED vars
  BY <1>1, <1>5 DEF vars, disk
<1>6. ASSUME NEW k \in Accounts, Command(k)
      PROVE  Paths(tree')
  <2>1. ASSUME NEW arg \in Arguments, cwd_command(k, arg) \/ retr_command(k, arg)
        PROVE  UNCHANGED tree
    BY <2>1 DEF cwd_command, Changed, retr_command, Downloaded, Looped, vars, disk
  <2>2. pwd_command(k) \/ ls_command(k) \/ back_to_home(k) => UNCHANGED tree
    BY DEF pwd_command, ls_command, back_to_home, vars, disk
  <2>3. ASSUME NEW arg \in Arguments, NEW recursive \in BOOLEAN, dele_command(k, recursive, arg)
        PROVE  UNCHANGED tree \/ Deleted(k, recursive, arg)
    BY <2>3 DEF dele_command, vars, disk
  <2>4. ASSUME NEW arg \in Arguments, NEW new \in Arguments, rename_command(k, arg, new)
        PROVE  UNCHANGED tree \/ Renamed(k, arg, new)
    BY <2>4 DEF rename_command, vars, disk
  <2> QED
    BY <1>1, <1>2, <1>3, <1>4, <1>6, <2>1, <2>2, <2>3, <2>4 DEF Command
<1> QED
  BY <1>5, <1>6 DEF Next

\* The tree's nodes have paths in every reachable state.
LEMMA PathsAlways == Spec => []Paths(tree)
BY PathsInit, PathsNext, PTL DEF Spec

\* mkd, dele and rename change the tree by mkdir, rm and mv in the account's
\* directory, or not at all.
LEMMA ActsIn ==
  ASSUME Paths(tree), NEW k \in Accounts, NEW arg \in DownArguments,
         \/ mkd_command(k, arg)
         \/ \E recursive \in BOOLEAN : dele_command(k, recursive, arg)
         \/ \E new \in DownArguments : rename_command(k, arg, new)
  PROVE  \A p \in Differ(tree, tree') : InPlace(k) /\ IsPrefix(Where(k), p)
<1>1. CASE UNCHANGED tree
  BY <1>1 DEF Differ
<1>2. arg \in Seq(STRING \ {".."}) /\ arg # <<>> /\ Start(k, arg) = Where(k)
  BY Typed DEF DownArguments, Start, From
<1>3. InPlace(k) => Where(k) \in Seq(STRING)
  BY DEF InPlace, IsDir, Paths
<1>4. CASE mkd_command(k, arg) /\ tree' # tree
  <2>1. InPlace(k) /\ tree' = mkdir(tree, Where(k), arg)
    BY <1>2, <1>4 DEF mkd_command, Created
  <2> QED
    BY <1>2, <1>3, <2>1, MkdirDown
<1>5. ASSUME NEW recursive \in BOOLEAN, dele_command(k, recursive, arg), tree' # tree
      PROVE  \A p \in Differ(tree, tree') : InPlace(k) /\ IsPrefix(Where(k), p)
  <2>1. InPlace(k) /\ tree' = rm(tree, Where(k), recursive, arg)
    BY <1>2, <1>5 DEF dele_command, Deleted, Remains, vars, disk
  <2> QED
    BY <1>2, <1>3, <2>1, RmDown
<1>6. ASSUME NEW new \in DownArguments, rename_command(k, arg, new), tree' # tree
      PROVE  \A p \in Differ(tree, tree') : InPlace(k) /\ IsPrefix(Where(k), p)
  <2>2. new \in Seq(STRING \ {".."}) /\ new # <<>> /\ Start(k, new) = Where(k)
    BY <1>6, Typed DEF DownArguments, Start, From
  <2>1. InPlace(k) /\ tree' = mv(tree, Where(k), arg, Where(k), new)
    BY <1>2, <1>6, <2>2 DEF rename_command, Renamed, vars, disk
  <2> QED
    BY <1>2, <1>3, <2>1, <2>2, MvDown
<1> QED
  BY <1>1, <1>4, <1>5, <1>6

\* Every command with paths that lead down changes the tree below the directory
\* its account is in, or not at all, and not at all when that directory is gone:
\* for every tree, every number of accounts and whatever was typed before.
THEOREM ActsBelowCorrect == Spec => ActsBelowPosition
<1> DEFINE Acts == \A k \in Accounts, arg \in DownArguments :
          (\/ mkd_command(k, arg)
           \/ \E recursive \in BOOLEAN : dele_command(k, recursive, arg)
           \/ \E new \in DownArguments : rename_command(k, arg, new))
          => \A p \in Touched : InPlace(k) /\ p \in Below(tree, Where(k))
                                                    \cup Below(tree', Where(k))
<1>1. Paths(tree) => Acts
  <2> SUFFICES ASSUME Paths(tree), NEW k \in Accounts, NEW arg \in DownArguments,
                      \/ mkd_command(k, arg)
                      \/ \E recursive \in BOOLEAN : dele_command(k, recursive, arg)
                      \/ \E new \in DownArguments : rename_command(k, arg, new),
                      NEW p \in Touched
               PROVE  InPlace(k) /\ p \in Below(tree, Where(k)) \cup Below(tree', Where(k))
    OBVIOUS
  <2>1. Touched = Differ(tree, tree')
    BY DEF Touched, Differ
  <2>2. InPlace(k) /\ IsPrefix(Where(k), p)
    BY <2>1, ActsIn
  <2>3. p \in DOMAIN tree \/ p \in DOMAIN tree'
    BY DEF Touched
  <2> QED
    BY <2>2, <2>3 DEF Below
<1> HIDE DEF Acts
<1>2. Spec => [][Acts]_tree
  BY <1>1, PathsAlways, PTL
<1> QED
  BY <1>2 DEF ActsBelowPosition, Acts

-----------------------------------------------------------------------------
(***************************************************************************)
(* What is deleted, and where ".." leads.                                  *)
(***************************************************************************)

\* From where there is no directory, a path leads nowhere.
LEMMA WalkNowhere ==
  ASSUME NEW S, NEW t, Paths(t), NEW at, ~IsDir(t, at), NEW names \in Seq(S), names # <<>>
  PROVE  Walk(t, at, names) = NoPath
<1> DEFINE n == Len(names)
<1>1. n \in Nat \ {0}
  OBVIOUS
<1>2. PICK node : IsWalk(node, t, at, names)
  <2>1. Len(names) \in Nat
    OBVIOUS
  <2> QED
    BY <2>1, WalkDef
<1>3. /\ node[0] = at /\ \A i \in 1 .. n : node[i] = Enter(t, node[i - 1], names[i])
      /\ Walk(t, at, names) = node[n]
  BY <1>2 DEF IsWalk
<1> HIDE DEF n
<1> DEFINE A == {i \in 0 .. n : ~IsDir(t, node[i]) /\ (i # 0 => node[i] = NoPath)}
<1>4. 0 \in A
  BY <1>1, <1>3
<1>5. ASSUME NEW i \in 0 .. n - 1, i \in A
      PROVE  i + 1 \in A
  <2>1. i + 1 \in 1 .. n /\ (i + 1) - 1 = i /\ i + 1 \in 0 .. n
    BY <1>1
  <2>2. node[i + 1] = Enter(t, node[i], names[i + 1])
    BY <1>3, <2>1
  <2>3. node[i + 1] = NoPath
    BY <1>5, <2>2 DEF Enter
  <2>4. ~IsDir(t, NoPath)
    BY DEF Paths, IsDir
  <2> QED
    BY <2>1, <2>3, <2>4
<1>6. n \in A
  <2> HIDE DEF A
  <2>1. n \in 0 .. n /\ n \in Nat
    BY <1>1
  <2> QED
    BY <1>4, <1>5, <2>1, InductionUpTo
<1> QED
  BY <1>1, <1>3, <1>6

\* A path that ends with a name leads nowhere or to a node.
LEMMA WalkToName ==
  ASSUME NEW t, NEW at, NEW names \in Seq(STRING), names # <<>>, Last(names) \notin {".", ".."}
  PROVE  Walk(t, at, names) \in DOMAIN t \cup {NoPath}
<1> DEFINE n == Len(names)
<1>1. n \in Nat \ {0} /\ names[n] \notin {".", ".."}
  BY DEF Last
<1>2. PICK node : IsWalk(node, t, at, names)
  <2>1. Len(names) \in Nat
    OBVIOUS
  <2> QED
    BY <2>1, WalkDef
<1>3. Walk(t, at, names) = Enter(t, node[n - 1], names[n])
  BY <1>1, <1>2 DEF IsWalk
<1> DEFINE v == node[n - 1]
           x == names[n]
<1> HIDE DEF n, v, x
<1>4. x \notin {".", ".."} => Enter(t, v, x) \in DOMAIN t \cup {NoPath}
  <2>1. CASE ~IsDir(t, v)
    BY <2>1 DEF Enter
  <2>2. CASE IsDir(t, v) /\ x = ""
    BY <2>2 DEF Enter, IsDir
  <2>3. CASE IsDir(t, v) /\ x \notin {"", ".", ".."}
    BY <2>3 DEF Enter
  <2> QED
    BY <2>1, <2>2, <2>3
<1> QED
  BY <1>1, <1>3, <1>4 DEF v, x

\* A text with another behind it leads from where it leads from itself.
LEMMA FromConcat ==
  ASSUME NEW S, NEW at, NEW position \in Seq(S), NEW arg \in Seq(S), ~Absolute(arg)
  PROVE  From(at, position \o arg) = From(at, position)
<1> DEFINE path == position \o arg
<1>1. CASE position = <<>>
  <2>1. path = arg
    BY <1>1
  <2> QED
    BY <1>1, <2>1 DEF From, Absolute
<1>2. CASE position # <<>>
  <2>1. 1 \in 1 .. Len(position) /\ path # <<>>
    BY <1>2
  <2>2. path[1] = position[1]
    BY <2>1
  <2> HIDE DEF path
  <2>3. From(at, path) = From(at, position)
    BY <1>2, <2>1, <2>2 DEF From, Absolute
  <2> QED
    BY <2>3 DEF path
<1> QED
  BY <1>1, <1>2

\* What stat() finds for a relative path is what the shell finds from the account's
\* directory.
LEMMA TargetFrom ==
  ASSUME TypeOK, NEW k \in Accounts, NEW arg \in Seq(STRING), ~Absolute(arg),
         curr_position[k] # <<"">>
  PROVE  Target(k, arg) = Walk(tree, Where(k), arg)
<1> DEFINE position == curr_position[k]
           at == From(Home, position)
<1>1. position \in Seq(STRING)
  BY DEF TypeOK
<1>2. From(Home, position \o arg) = at
  BY <1>1, FromConcat
<1>3. Where(k) = Walk(tree, at, position)
  BY DEF Where
<1>4. Target(k, arg) = Walk(tree, at, position \o arg)
  BY <1>2 DEF Target
<1> HIDE DEF position, at
<1>5. Walk(tree, at, position \o arg) = Walk(tree, Walk(tree, at, position), arg)
  BY ONLY <1>1, arg \in Seq(STRING), WalkConcat
<1> QED
  BY <1>3, <1>4, <1>5, Zenon

\* Whenever dele -d of a name would answer 250, what it leaves is the tree without
\* what stat() found, wherever the account is and whatever the others did to the
\* tree.
THEOREM DeletedCorrect == Spec => []DeletedIsGone
<1>1. TypeOK /\ Paths(tree) => DeletedIsGone
  <2> SUFFICES ASSUME TypeOK, Paths(tree), NEW k \in Accounts, NEW arg \in Arguments,
                      Named(arg), Deletes(k, arg), curr_position[k] # <<"">>
               PROVE  DOMAIN Remains(k, TRUE, arg) = DOMAIN tree \ Below(tree, Target(k, arg))
    BY DEF DeletedIsGone
  <2> DEFINE node == Walk(tree, Where(k), arg)
  <2>1. arg \in Seq(STRING) /\ arg # <<>> /\ Last(arg) \notin {".", ".."} /\ ~Absolute(arg)
    BY Typed DEF Named
  <2>2. Target(k, arg) = node /\ node # NoPath
    BY <2>1, TargetFrom DEF Deletes, exists_file
  <2>3. node \in DOMAIN tree
    BY <2>1, <2>2, WalkToName
  <2>4. InPlace(k)
    BY <2>1, <2>2, WalkNowhere DEF InPlace
  <2>5. Start(k, arg) = Where(k)
    BY <2>1 DEF Start, From
  <2>6. Remains(k, TRUE, arg) = Without(tree, node)
    BY <2>1, <2>3, <2>4, <2>5 DEF Remains, rm
  <2> QED
    BY <2>2, <2>6 DEF Without
<1> QED
  BY <1>1, PathsAlways, StorageTypeCorrect, PTL

\* A path of names is one without "..", from where it is relative to, and so is
\* what is left of it without its last name.
LEMMA PlainIs ==
  ASSUME NEW names \in Seq(STRING), Plain(names)
  PROVE  names \in Seq(STRING \ {".."}) /\ ~Absolute(names) /\ names # <<"">>
<1>1. /\ Len(names) \in Nat /\ names = [i \in 1 .. Len(names) |-> names[i]]
      /\ \A i \in 1 .. Len(names) : names[i] \in STRING
      /\ DOMAIN names = 1 .. Len(names)
  OBVIOUS
<1>2. \A i \in 1 .. Len(names) : names[i] \in STRING \ {".."}
  BY <1>1 DEF Plain
<1>3. names # <<>> => names[1] # ""
  <2>1. names # <<>> => 1 \in DOMAIN names
    BY <1>1
  <2> QED
    BY <2>1 DEF Plain
<1>4. ~Absolute(names)
  BY <1>3 DEF Absolute
<1>5. Absolute(<<"">>)
  BY DEF Absolute
<1>6. names # <<"">>
  BY <1>4, <1>5, Zenon
<1>7. names \in Seq(STRING \ {".."})
  BY <1>1, <1>2
<1> QED
  BY <1>4, <1>6, <1>7

LEMMA PlainFront ==
  ASSUME NEW a \in Seq(STRING), Plain(a), a # <<>>
  PROVE  Plain(Front(a))
<1> DEFINE f == Front(a)
<1>1. Len(a) \in Nat /\ DOMAIN a = 1 .. Len(a)
  OBVIOUS
<1>2. f \in Seq(STRING)
  BY FrontLast
<1>3. \A i \in 1 .. Len(f) : i \in 1 .. Len(a) /\ f[i] = a[i]
  BY <1>1 DEF Front
<1> HIDE DEF f
<1>4. Plain(f)
  <2>1. DOMAIN f = 1 .. Len(f)
    BY <1>2
  <2> QED
    BY <1>1, <1>3, <2>1 DEF Plain
<1> QED
  BY <1>4 DEF f

LEMMA OneName == \A S : \A x \in S : <<x>> \in Seq(S) /\ <<x>> # <<>>
OBVIOUS

\* A path of names leads nowhere or to the node that has its names.
LEMMA ByNames ==
  ASSUME NEW t, Paths(t), NEW at \in Seq(STRING), NEW names \in Seq(STRING), Plain(names)
  PROVE  Walk(t, at, names) = NoPath \/ Walk(t, at, names) = at \o names
<1> DEFINE to == Walk(t, at, names)
<1>1. LeadsDown(t, at, names, to)
  BY PlainIs, WalkDown
<1>2. \A i \in 1 .. Len(names) : names[i] \notin {"", "."}
  <2>1. DOMAIN names = 1 .. Len(names)
    OBVIOUS
  <2> QED
    BY <2>1 DEF Plain
<1> HIDE DEF to
<1>3. to = NoPath \/ to = at \o names
  BY <1>1, <1>2 DEF LeadsDown
<1> QED
  BY <1>3 DEF to

\* The node above one below "at" has the names but the last.
LEMMA FrontOfConcat ==
  ASSUME NEW at \in Seq(STRING), NEW names \in Seq(STRING), names # <<>>
  PROVE  Front(at \o names) = at \o Front(names)
<1> DEFINE c == at \o names
           f == Front(names)
           d == at \o f
<1>1. /\ Len(at) \in Nat /\ Len(names) \in Nat \ {0}
      /\ c \in Seq(STRING) /\ Len(c) = Len(at) + Len(names)
      /\ \A i \in 1 .. Len(at) : c[i] = at[i]
      /\ \A i \in 1 .. Len(names) : c[Len(at) + i] = names[i]
  BY ConcatIs
<1>2. f \in Seq(STRING) /\ Len(f) = Len(names) - 1 /\ \A i \in 1 .. Len(f) : f[i] = names[i]
  <2>1. f \in Seq(STRING)
    BY FrontLast
  <2>2. Len(f) = Len(names) - 1 /\ \A i \in 1 .. Len(f) : f[i] = names[i]
    <3>1. Len(names) \in Nat \ {0}
      BY <1>1
    <3> DEFINE m == Len(names) - 1
    <3>2. m \in Nat /\ \A i \in 1 .. m : names[i] \in STRING
      BY <3>1
    <3>3. f = SubSeq(names, 1, m)
      BY DEF Front
    <3> HIDE DEF c, d, f, m
    <3>4. /\ Len(f) = IF 1 <= m THEN m - 1 + 1 ELSE 0
          /\ \A i \in 1 .. m - 1 + 1 : f[i] = names[1 + i - 1]
      BY <3>2, <3>3, SubSeqProperties
    <3>5. Len(f) = m /\ \A i \in 1 .. m : f[i] = names[i]
      BY <3>2, <3>4
    <3> QED
      BY <3>5 DEF m
  <2> QED
    BY <2>1, <2>2
<1> HIDE DEF f
<1>3. /\ d \in Seq(STRING) /\ Len(d) = Len(at) + Len(f)
      /\ \A i \in 1 .. Len(at) : d[i] = at[i]
      /\ \A i \in 1 .. Len(f) : d[Len(at) + i] = f[i]
  BY <1>2, ConcatIs
<1> HIDE DEF c, d
<1> DEFINE e == Front(c)
<1>4. /\ e \in Seq(STRING) /\ Len(e) = Len(c) - 1
      /\ \A i \in 1 .. Len(e) : e[i] = c[i]
  <2>1. c # <<>>
    BY <1>1
  <2>2. e \in Seq(STRING)
    BY <1>1, <2>1, FrontLast
  <2>3. Len(e) = Len(c) - 1 /\ \A i \in 1 .. Len(e) : e[i] = c[i]
    BY <1>1, <2>1 DEF Front
  <2> QED
    BY <2>2, <2>3
<1> HIDE DEF e
<1>5. \A i \in 1 .. Len(e) : e[i] = d[i]
  <2> SUFFICES ASSUME NEW i \in 1 .. Len(e) PROVE e[i] = d[i]
    OBVIOUS
  <2>1. i \in 1 .. Len(at) \/ (i - Len(at) \in 1 .. Len(f) /\ Len(at) + (i - Len(at)) = i)
    BY <1>1, <1>2, <1>4
  <2>2. CASE i \in 1 .. Len(at)
    BY <1>1, <1>3, <1>4, <2>2
  <2>3. CASE i \notin 1 .. Len(at)
    <3> DEFINE q == i - Len(at)
    <3>1. q \in 1 .. Len(f) /\ q \in 1 .. Len(names) /\ Len(at) + q = i
      BY <1>1, <1>2, <2>1, <2>3
    <3> HIDE DEF q
    <3>2. c[Len(at) + q] = names[q] /\ d[Len(at) + q] = f[q] /\ f[q] = names[q]
      BY <1>1, <1>2, <1>3, <3>1
    <3> QED
      BY <1>4, <3>1, <3>2
  <2> QED
    BY <2>2, <2>3
<1>6. Len(e) = Len(d)
  BY <1>1, <1>2, <1>3, <1>4
<1>7. e = d
  BY <1>3, <1>4, <1>5, <1>6, SeqEqual
<1> QED
  BY <1>7 DEF e, c, d, f

LEMMA UpIsName ==
  LET S == STRING \cup {".."}
  IN  /\ <<"..">> \in Seq(S) /\ <<"..">> # <<>>
      /\ \A s \in Seq(STRING) : s \in Seq(S)
<1> DEFINE S == STRING \cup {".."}
<1>1. ".." \in S /\ STRING \subseteq S
  OBVIOUS
<1> HIDE DEF S
<1>2. <<"..">> \in Seq(S) /\ <<"..">> # <<>>
  BY <1>1, OneName, Zenon
<1>3. \A s \in Seq(STRING) : s \in Seq(S)
  BY <1>1, SeqMonotonic
<1> QED
  BY <1>2, <1>3 DEF S

\* The directory above that of a position of names is that of the position
\* without its last name, if ".." leads anywhere.
LEMMA UpFrom ==
  ASSUME NEW t, Paths(t), NEW at \in Seq(STRING),
         NEW position \in Seq(STRING), Plain(position), position # <<>>,
         Walk(t, at, position \o <<"..">>) # NoPath
  PROVE  Walk(t, at, Front(position)) = Front(Walk(t, at, position))
<1>3. ~IsDir(t, NoPath)
  BY DEF IsDir, Paths
<1> DEFINE up == <<"..">>
           S == STRING \cup {".."}
<1>7. up \in Seq(S) /\ up # <<>>
  BY UpIsName
<1>8. position \in Seq(S)
  BY UpIsName
<1>9. Walk(t, at, position \o up) # NoPath
  OBVIOUS
<1> HIDE DEF up, S
<1>4. Walk(t, at, position) # NoPath
  <2>1. Walk(t, at, position \o up) = Walk(t, Walk(t, at, position), up)
    BY <1>7, <1>8, WalkConcat
  <2>2. Walk(t, NoPath, up) = NoPath
    BY <1>3, <1>7, WalkNowhere
  <2> QED
    BY <1>9, <2>1, <2>2
<1>5. Walk(t, at, Front(position)) # NoPath
  <2> DEFINE f == Front(position)
             e == <<Last(position)>>
  <2>1. f \in Seq(STRING) /\ Last(position) \in STRING /\ position = f \o e
    BY FrontLast
  <2>2. e \in Seq(STRING) /\ e # <<>>
    BY <2>1
  <2> HIDE DEF f, e
  <2>3. Walk(t, at, f \o e) = Walk(t, Walk(t, at, f), e)
    BY <2>1, <2>2, WalkConcat
  <2>4. Walk(t, NoPath, e) = NoPath
    BY <1>3, <2>2, WalkNowhere
  <2>5. Walk(t, at, f) # NoPath
    BY <1>4, <2>1, <2>3, <2>4
  <2> QED
    BY <2>5 DEF f
<1>6. Front(position) \in Seq(STRING) /\ Plain(Front(position))
  BY FrontLast, PlainFront
<1>1. Walk(t, at, position) = at \o position
  BY <1>4, ByNames
<1>2. Walk(t, at, Front(position)) = at \o Front(position)
  BY <1>5, <1>6, ByNames
<1> QED
  BY <1>1, <1>2, FrontOfConcat

\* After "cwd .." was answered with success, an account with a position of names is
\* in the directory above the one it was in.
THEOREM UpIsUpCorrect == Spec => UpIsUp
<1> DEFINE Ups == \A k \in Accounts :
                     (Changed(k, <<"..">>) /\ Plain(curr_position[k])) =>
                         Where(k)' = Front(Where(k))
<1>1. TypeOK /\ Paths(tree) => Ups
  <2> SUFFICES ASSUME TypeOK, Paths(tree), NEW k \in Accounts,
                      Changed(k, <<"..">>), Plain(curr_position[k])
               PROVE  Where(k)' = Front(Where(k))
    OBVIOUS
  <2> DEFINE position == curr_position[k]
             up == <<"..">>
             S == STRING \cup {".."}
  <2>1. position \in Seq(STRING) /\ Plain(position)
    BY DEF TypeOK
  <2>2. position # <<>>
    BY DEF Changed
  <2>3. tree' = tree /\ curr_position'[k] = Front(position)
    BY DEF Changed, update_position, TypeOK
  <2>4. Target(k, up) # NoPath
    BY DEF Changed, exists_file
  <2>5. /\ ~Absolute(position) /\ position # <<"">>
        /\ ~Absolute(Front(position)) /\ Front(position) # <<"">>
    BY <2>1, <2>2, FrontLast, PlainFront, PlainIs
  <2>6. /\ up \in Seq(S) /\ position \in Seq(S)
        /\ ~Absolute(up)
    <3>1. up \in Seq(S) /\ position \in Seq(S)
      BY <2>1, UpIsName
    <3> QED
      BY <3>1 DEF Absolute
  <2>7. Home \in Seq(STRING)
    BY PathAssumption
  <2>8. Where(k) = Walk(tree, Home, position)
    BY <2>5 DEF Where, From
  <2>9. From(Home, position \o up) = Home
    <3>1. From(Home, position \o up) = From(Home, position)
      <4> HIDE DEF position, up, S
      <4> QED
        BY <2>6, FromConcat
    <3> QED
      BY <2>5, <3>1 DEF From
  <2>10. Walk(tree, Home, position \o up) # NoPath
    BY <2>4, <2>9 DEF Target
  <2>11. Where(k)' = Walk(tree, Home, Front(position))
    BY <2>3, <2>5 DEF Where, From
  <2> HIDE DEF position
  <2>12. Walk(tree, Home, Front(position)) = Front(Walk(tree, Home, position))
    BY <2>1, <2>2, <2>7, <2>10, UpFrom
  <2> QED
    BY <2>8, <2>11, <2>12
<1> HIDE DEF Ups
<1>2. Spec => [][Ups]_curr_position
  BY <1>1, PathsAlways, StorageTypeCorrect, PTL
<1> QED
  BY <1>2 DEF UpIsUp, Ups
=============================================================================
