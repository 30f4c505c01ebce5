-------------------------- MODULE SaveWholeProofs ---------------------------
EXTENDS SaveProofs

-----------------------------------------------------------------------------
(* From the trees to the queue: the argument for CleanSuccessIsWhole *)

\* What the invariant of the pipeline says of the lists of the walk
LEMMA WalkLists ==
    ASSUME SaveInv
    PROVE  /\ sent \in Seq(Info) /\ Len(sent) \in Nat /\ DOMAIN sent = 1 .. Len(sent)
           /\ regmulti \in Seq(Nat) /\ Len(regmulti) \in Nat /\ DOMAIN regmulti = 1 .. Len(regmulti)
           /\ fsi \in Nat /\ obji \in Nat /\ blki \in Nat /\ Len(Trees) \in Nat
           /\ DOMAIN Trees = 1 .. Len(Trees) /\ last \in BOOLEAN /\ mainpc \in MainPc
           /\ \A f \in DOMAIN Trees : /\ Len(Trees[f]) \in Nat /\ Trees[f] \in Seq(Objects)
                                      /\ DOMAIN Trees[f] = 1 .. Len(Trees[f])
           /\ archtype \in {"FILESYSTEMS", "DIRECTORIES"}
<1>1. SaveTypeOK /\ WalkInv BY DEF SaveInv
<1>2. Trees \in Seq(Seq(Objects)) /\ archtype \in {"FILESYSTEMS", "DIRECTORIES"} BY SaveAssumption
<1>3. \A f \in DOMAIN Trees : Trees[f] \in Seq(Objects) BY <1>2
<1> QED BY <1>1, <1>2, <1>3 DEF SaveTypeOK

\* What Append() does to a list
LEMMA Appended ==
    ASSUME NEW S, NEW s \in Seq(S), NEW x \in S
    PROVE  /\ Append(s, x) \in Seq(S) /\ Len(Append(s, x)) = Len(s) + 1
           /\ DOMAIN Append(s, x) = 1 .. Len(s) + 1
           /\ \A n \in 1 .. Len(s) : Append(s, x)[n] = s[n]
           /\ Append(s, x)[Len(s) + 1] = x
OBVIOUS

\* The walk has reached object i of tree f.
Reached(f, i) == Passed(f, i) \/ (InFile /\ f = fsi /\ i = obji)

\* What has been reached stays so.
LEMMA ReachedGrows ==
    ASSUME SaveInv, Main, NEW f \in DOMAIN Trees, NEW i \in DOMAIN Trees[f], Reached(f, i)
    PROVE  Reached(f, i)'
<1>0. f \in Nat /\ i \in Nat /\ fsi \in Nat /\ obji \in Nat /\ Len(Trees) \in Nat BY WalkLists
<1>1. CASE \/ main_create_comp \/ main_create_writer \/ main_mainhead \/ main_fsinfo \/ main_analyse_error
  <2>1. FALSE BY <1>1 DEF Reached, Passed, InFile, main_create_comp, main_create_writer, main_mainhead,
                          main_fsinfo, main_analyse_error
  <2> QED BY <2>1
<1>2. CASE main_tree BY <1>0, <1>2 DEF Reached, Passed, InFile, main_tree, Goto
<1>3. CASE main_object
  <2>1. mainpc = "object" /\ fsi' = fsi /\ mainpc' \in {"object", "save", "flush"}
    BY <1>3 DEF main_object, NextObject, Goto
  <2>2. obji' \in Nat /\ obji <= obji'
    <3>1. Len(Trees[fsi]) \in Nat BY <2>1, WalkLists, TreeInHand DEF InTree, SaveInv
    <3> QED BY <1>0, <1>3, <3>1 DEF main_object, NextObject
  <2> QED BY <1>0, <2>1, <2>2 DEF Reached, Passed, InFile
<1>4. CASE \/ main_fsyb \/ main_save_node \/ main_save_multi \/ main_save_unique
           \/ main_block \/ main_filf \/ main_nexttree
  BY <1>0, <1>4 DEF Reached, Passed, InFile, Goto, NextObject, walkvars, main_fsyb, main_save_node,
     main_save_multi, main_save_unique, main_block, main_filf, main_nexttree
<1>5. CASE main_flush
  <2>1. mainpc = "flush" /\ fsi' = fsi /\ obji' = obji /\ mainpc' \in {"flush", "save", "datf", "nexttree"}
    BY <1>5 DEF main_flush, Goto
  <2> QED BY <2>1 DEF Reached, Passed, InFile
<1>6. CASE main_file
  BY <1>0, <1>6 DEF Reached, Passed, InFile, Goto, NextObject, main_file
<1>7. CASE main_datf
  BY <1>0, <1>7 DEF Reached, Passed, InFile, Goto, main_datf
<1>8. CASE main_check \/ main_finish \/ main_join_comp \/ main_join_writer
  BY <1>8 DEF Reached, Passed, InFile, Goto, walkvars, main_check, main_finish, main_join_comp,
     main_join_writer
<1> QED BY <1>1, <1>2, <1>3, <1>4, <1>5, <1>6, <1>7, <1>8 DEF Main

\* The steps that queue no header of an object and put no file into the group
LEMMA OnceQuiet ==
    ASSUME SaveInv, SaveInv', Main, OnceInv,
           \/ sent' = sent
           \/ \E x \in Info : x.magic # "OBJT" /\ sent' = Append(sent, x),
           \/ regmulti' = <<>>
           \/ regmulti' = regmulti /\ fsi' = fsi /\ obji <= obji' /\ mainpc # "flush"
    PROVE  OnceInv'
<1>0. /\ Len(sent) \in Nat /\ DOMAIN sent = 1 .. Len(sent) /\ sent \in Seq(Info)
      /\ obji \in Nat /\ obji' \in Nat /\ regmulti \in Seq(Nat)
  BY WalkLists DEF SaveInv, SaveTypeOK
<1>1. ASSUME NEW p \in DOMAIN sent', sent'[p].magic = "OBJT"
      PROVE  p \in DOMAIN sent /\ sent'[p] = sent[p]
  BY <1>0, <1>1, Appended
<1>2. ASSUME NEW p \in DOMAIN sent', sent'[p].magic = "OBJT"
      PROVE  \E f \in DOMAIN Trees : \E i \in DOMAIN Trees[f] :
                Trees[f][i].id = sent'[p].obj /\ Reached(f, i)'
  <2>1. PICK f \in DOMAIN Trees : \E i \in DOMAIN Trees[f] :
                Trees[f][i].id = sent'[p].obj /\ Reached(f, i)
    BY <1>1, <1>2 DEF OnceInv, Reached
  <2>2. PICK i \in DOMAIN Trees[f] : Trees[f][i].id = sent'[p].obj /\ Reached(f, i) BY <2>1
  <2> QED BY <2>2, ReachedGrows
<1>3. CASE regmulti' = <<>>
  <2>1. DOMAIN regmulti' = {} BY <1>3
  <2> QED BY <1>1, <1>2, <2>1 DEF OnceInv, Reached
<1>4. CASE regmulti' = regmulti /\ fsi' = fsi /\ obji <= obji' /\ mainpc # "flush"
  <2>1. ASSUME NEW k \in DOMAIN regmulti
        PROVE  \E i \in DOMAIN Trees[fsi] : i < obji' /\ Trees[fsi][i].id = regmulti[k]
    <3>1. PICK i \in DOMAIN Trees[fsi] : i < obji /\ Trees[fsi][i].id = regmulti[k] BY DEF OnceInv
    <3>2. fsi \in DOMAIN Trees
      <4>1. InTree BY <1>0 DEF SaveInv, GroupInv
      <4> QED BY <4>1, TreeInHand DEF SaveInv
    <3>3. i \in Nat BY <3>2, WalkLists
    <3>4. i < obji' BY ONLY <1>0, <1>4, <3>1, <3>3
    <3> QED BY <3>1, <3>4
  <2>2. ASSUME NEW p \in DOMAIN sent', sent'[p].magic = "OBJT", NEW k \in DOMAIN regmulti
        PROVE  sent'[p].obj # regmulti[k]
    BY <1>1, <1>4, <2>2 DEF OnceInv
  <2> QED BY <1>1, <1>2, <1>4, <2>1, <2>2 DEF OnceInv, Reached
<1> QED BY <1>3, <1>4

\* An object that has not been reached has no header and is not in the group.
LEMMA NotReached ==
    ASSUME SaveInv, OnceInv, NEW f \in DOMAIN Trees, NEW i \in DOMAIN Trees[f], ~Reached(f, i)
    PROVE  /\ \A p \in DOMAIN sent : sent[p].magic = "OBJT" => sent[p].obj # Trees[f][i].id
           /\ \A k \in DOMAIN regmulti : regmulti[k] # Trees[f][i].id
<1>1. ASSUME NEW p \in DOMAIN sent, sent[p].magic = "OBJT", sent[p].obj = Trees[f][i].id PROVE FALSE
  <2>1. PICK g \in DOMAIN Trees : \E j \in DOMAIN Trees[g] :
                Trees[g][j].id = sent[p].obj /\ Reached(g, j)
    BY <1>1 DEF OnceInv, Reached
  <2>2. PICK j \in DOMAIN Trees[g] : Trees[g][j].id = sent[p].obj /\ Reached(g, j) BY <2>1
  <2>3. g = f /\ j = i BY <1>1, <2>2, IdAssumption
  <2> QED BY <2>2, <2>3
<1>2. ASSUME NEW k \in DOMAIN regmulti, regmulti[k] = Trees[f][i].id PROVE FALSE
  <2>1. InTree BY DEF SaveInv, GroupInv
  <2>2. fsi \in DOMAIN Trees BY <2>1, TreeInHand DEF SaveInv
  <2>3. PICK j \in DOMAIN Trees[fsi] : j < obji /\ Trees[fsi][j].id = regmulti[k] BY DEF OnceInv
  <2>4. fsi = f /\ j = i BY <1>2, <2>2, <2>3, IdAssumption
  <2>5. Passed(f, i) BY <2>1, <2>3, <2>4 DEF Passed, InTree
  <2> QED BY <2>5 DEF Reached
<1> QED BY <1>1, <1>2

\* The header of the object in hand is queued.
LEMMA OnceHeader ==
    ASSUME SaveInv, SaveInv', OnceInv, main_save_node \/ main_save_unique
    PROVE  OnceInv'
<1>0. /\ Len(sent) \in Nat /\ DOMAIN sent = 1 .. Len(sent) /\ sent \in Seq(Info)
      /\ obji \in Nat /\ fsi \in Nat
  BY WalkLists
<1>1. mainpc = "save" /\ regmulti' = regmulti /\ fsi' = fsi BY DEF main_save_node, main_save_unique
<1>2. fsi \in DOMAIN Trees /\ obji \in DOMAIN Trees[fsi] /\ Object = Trees[fsi][obji]
  BY <1>1, ObjectInHand DEF SaveInv
<1>3. PICK x : x = Header("OBJT", fsid, Object.id, 0, Object.blks, Object.kind) OBVIOUS
<1>4. sent' = Append(sent, x) BY <1>3 DEF main_save_node, main_save_unique, AddHeader
<1>5. x.magic = "OBJT" /\ x.obj = Trees[fsi][obji].id /\ x \in Info
  <2>1. Object.kind # "multi" BY DEF main_save_node, main_save_unique
  <2>2. fsid = FsidOf(fsi) BY DEF fsid, FsidOf
  <2> QED BY <1>2, <1>3, <2>1, <2>2, ObjectHeaders DEF Header
<1>6. /\ DOMAIN sent' = 1 .. Len(sent) + 1 /\ \A n \in 1 .. Len(sent) : sent'[n] = sent[n]
      /\ sent'[Len(sent) + 1] = x
  BY <1>0, <1>4, <1>5, Appended
<1>7. ~Reached(fsi, obji) BY <1>0, <1>1 DEF Reached, Passed, InFile
<1>8. /\ \A p \in DOMAIN sent : sent[p].magic = "OBJT" => sent[p].obj # x.obj
      /\ \A k \in DOMAIN regmulti : regmulti[k] # x.obj
  BY <1>2, <1>5, <1>7, NotReached
<1>9. Main BY DEF Main
<1>10. ASSUME NEW f, NEW i, f = fsi, i = obji PROVE Reached(f, i)'
  BY <1>0, <1>1, <1>10 DEF Reached, Passed, InFile, main_save_node, main_save_unique, NextObject, Goto
<1>11. obji' \in Nat /\ obji <= obji'
  BY <1>0 DEF main_save_node, main_save_unique, NextObject
<1>12. ASSUME NEW p \in DOMAIN sent', NEW q \in DOMAIN sent', sent'[p].magic = "OBJT",
              sent'[q].magic = "OBJT", sent'[p].obj = sent'[q].obj
       PROVE  p = q
  BY <1>0, <1>6, <1>8, <1>12 DEF OnceInv
<1>13. ASSUME NEW p \in DOMAIN sent', sent'[p].magic = "OBJT"
       PROVE  \E f \in DOMAIN Trees : \E i \in DOMAIN Trees[f] :
                 Trees[f][i].id = sent'[p].obj /\ Reached(f, i)'
  <2>1. CASE p \in DOMAIN sent
    <3>1. sent'[p] = sent[p] BY <1>0, <1>6, <2>1
    <3>2. PICK f \in DOMAIN Trees : \E i \in DOMAIN Trees[f] :
                Trees[f][i].id = sent'[p].obj /\ Reached(f, i)
      BY <1>13, <2>1, <3>1 DEF OnceInv, Reached
    <3>3. PICK i \in DOMAIN Trees[f] : Trees[f][i].id = sent'[p].obj /\ Reached(f, i) BY <3>2
    <3> QED BY <1>9, <3>3, ReachedGrows
  <2>2. CASE p = Len(sent) + 1
    <3>1. PICK f \in DOMAIN Trees : f = fsi BY <1>2
    <3>2. PICK i \in DOMAIN Trees[f] : i = obji BY <1>2, <3>1
    <3>3. Reached(f, i)' BY <1>10, <3>1, <3>2
    <3> QED BY <1>5, <1>6, <2>2, <3>1, <3>2, <3>3
  <2> QED BY <1>0, <1>6, <2>1, <2>2
<1>14. ASSUME NEW p \in DOMAIN sent', sent'[p].magic = "OBJT", NEW k \in DOMAIN regmulti
       PROVE  sent'[p].obj # regmulti[k]
  BY <1>0, <1>1, <1>6, <1>8, <1>14 DEF OnceInv
<1>15. ASSUME NEW k \in DOMAIN regmulti
       PROVE  \E i \in DOMAIN Trees[fsi] : i < obji' /\ Trees[fsi][i].id = regmulti[k]
  <2>1. PICK i \in DOMAIN Trees[fsi] : i < obji /\ Trees[fsi][i].id = regmulti[k] BY DEF OnceInv
  <2>2. i \in Nat BY <1>2, WalkLists
  <2>3. i < obji' BY ONLY <1>0, <1>11, <2>1, <2>2
  <2> QED BY <2>1, <2>3
<1> QED BY <1>1, <1>12, <1>13, <1>14, <1>15 DEF OnceInv, Reached

\* The small file in hand joins the group.
LEMMA OnceMulti ==
    ASSUME SaveInv, SaveInv', OnceInv, main_save_multi, regmulti' = Append(regmulti, Object.id), NextObject
    PROVE  OnceInv'
<1>0. /\ Len(regmulti) \in Nat /\ DOMAIN regmulti = 1 .. Len(regmulti) /\ regmulti \in Seq(Nat)
      /\ obji \in Nat /\ fsi \in Nat /\ obji' = obji + 1 /\ mainpc' = "object"
  BY WalkLists DEF NextObject, Goto
<1>1. mainpc = "save" /\ fsi' = fsi /\ sent' = sent BY DEF main_save_multi, Local
<1>2. PICK f \in DOMAIN Trees : f = fsi BY <1>1, ObjectInHand DEF SaveInv
<1>3. PICK i \in DOMAIN Trees[f] : i = obji BY <1>1, <1>2, ObjectInHand DEF SaveInv
<1>4. Object = Trees[f][i] /\ Object.id \in Nat
  BY <1>1, <1>2, <1>3, ObjectInHand DEF SaveInv, Objects
<1>5. /\ DOMAIN regmulti' = 1 .. Len(regmulti) + 1 /\ \A n \in 1 .. Len(regmulti) : regmulti'[n] = regmulti[n]
      /\ regmulti'[Len(regmulti) + 1] = Trees[f][i].id
  BY <1>0, <1>4, Appended
<1>6. ~Reached(f, i) BY <1>0, <1>1, <1>2, <1>3 DEF Reached, Passed, InFile
<1>7. /\ \A p \in DOMAIN sent : sent[p].magic = "OBJT" => sent[p].obj # Trees[f][i].id
      /\ \A k \in DOMAIN regmulti : regmulti[k] # Trees[f][i].id
  BY <1>6, NotReached
<1>8. Main BY DEF Main
<1>9. ASSUME NEW p \in DOMAIN sent, sent[p].magic = "OBJT"
      PROVE  \E g \in DOMAIN Trees : \E j \in DOMAIN Trees[g] :
                Trees[g][j].id = sent[p].obj /\ Reached(g, j)'
  <2>1. PICK g \in DOMAIN Trees : \E j \in DOMAIN Trees[g] :
                Trees[g][j].id = sent[p].obj /\ Reached(g, j)
    BY <1>9 DEF OnceInv, Reached
  <2>2. PICK j \in DOMAIN Trees[g] : Trees[g][j].id = sent[p].obj /\ Reached(g, j) BY <2>1
  <2> QED BY <1>8, <2>2, ReachedGrows
<1>10. ASSUME NEW p \in DOMAIN sent, sent[p].magic = "OBJT", NEW k \in DOMAIN regmulti'
       PROVE  sent[p].obj # regmulti'[k]
  <2>1. CASE k \in 1 .. Len(regmulti) BY <1>0, <1>1, <1>5, <1>10, <2>1 DEF OnceInv
  <2>2. CASE k = Len(regmulti) + 1 BY <1>5, <1>7, <1>10, <2>2
  <2> QED BY <1>0, <1>5, <2>1, <2>2
<1>11. ASSUME NEW j \in DOMAIN regmulti', NEW k \in DOMAIN regmulti', regmulti'[j] = regmulti'[k]
       PROVE  j = k
  BY <1>0, <1>5, <1>7, <1>11 DEF OnceInv
<1>12. ASSUME NEW k \in DOMAIN regmulti'
       PROVE  \E j \in DOMAIN Trees[f] : j < obji + 1 /\ Trees[f][j].id = regmulti'[k]
  <2>1. CASE k \in 1 .. Len(regmulti)
    <3>1. PICK j \in DOMAIN Trees[f] : j < obji /\ Trees[f][j].id = regmulti[k]
      BY <1>0, <1>2, <2>1 DEF OnceInv
    <3>2. j \in Nat BY WalkLists
    <3>3. j < obji + 1 BY <1>0, <3>1, <3>2
    <3> QED BY <1>5, <2>1, <3>1, <3>3
  <2>2. CASE k = Len(regmulti) + 1
    <3>1. i < obji + 1 BY <1>0, <1>3
    <3> QED BY <1>5, <2>2, <3>1
  <2> QED BY <1>0, <1>5, <2>1, <2>2
<1> QED BY <1>0, <1>1, <1>2, <1>9, <1>10, <1>11, <1>12 DEF OnceInv, Reached

\* A header of the group is queued.
LEMMA OnceFlush ==
    ASSUME SaveInv, SaveInv', OnceInv, main_flush, blki < Len(regmulti)
    PROVE  OnceInv'
<1>0. /\ Len(sent) \in Nat /\ DOMAIN sent = 1 .. Len(sent) /\ sent \in Seq(Info)
      /\ Len(regmulti) \in Nat /\ DOMAIN regmulti = 1 .. Len(regmulti) /\ blki \in Nat
      /\ obji \in Nat /\ fsi \in Nat
  BY WalkLists
<1>1. /\ mainpc = "flush" /\ mainpc' = "flush" /\ regmulti' = regmulti /\ fsi' = fsi /\ obji' = obji
      /\ blki' = blki + 1
      /\ AddHeader(Header("OBJT", fsid, regmulti[blki + 1], blki, Len(regmulti), "multi"))
  <2>1. blki \in Nat /\ Len(regmulti) \in Nat /\ blki < Len(regmulti) BY <1>0
  <2>2. ~(blki = Len(regmulti)) BY ONLY <2>1
  <2> QED BY <2>2, Zenon DEF main_flush
<1>2. PICK k \in DOMAIN regmulti : k = blki + 1 BY <1>0
<1>3. PICK x : x = Header("OBJT", fsid, regmulti[k], blki, Len(regmulti), "multi") OBVIOUS
<1>4. sent' = Append(sent, x) BY <1>1, <1>2, <1>3 DEF AddHeader
<1>5. x.magic = "OBJT" /\ x.obj = regmulti[k] /\ x \in Info
  <2>1. InTree BY <1>1 DEF InTree
  <2>2. blki \in 0 .. MaxSmallFiles - 1 /\ Len(regmulti) \in 1 .. MaxSmallFiles
    BY <1>0, SaveAssumption DEF SaveInv, GroupInv
  <2> QED BY <1>3, <2>1, <2>2, FileInGroup DEF Header, SaveInv
<1>6. /\ DOMAIN sent' = 1 .. Len(sent) + 1 /\ \A n \in 1 .. Len(sent) : sent'[n] = sent[n]
      /\ sent'[Len(sent) + 1] = x
  BY <1>0, <1>4, <1>5, Appended
<1>7. \A p \in DOMAIN sent : sent[p].magic = "OBJT" => sent[p].obj # x.obj
  BY <1>0, <1>2, <1>5 DEF OnceInv
<1>8. PICK f \in DOMAIN Trees : f = fsi
  <2>1. InTree BY <1>1 DEF InTree
  <2> QED BY <2>1, TreeInHand DEF SaveInv
<1>9. PICK i \in DOMAIN Trees[f] : i < obji /\ Trees[f][i].id = regmulti[k] BY <1>8 DEF OnceInv
<1>10. ASSUME NEW p \in DOMAIN sent', NEW q \in DOMAIN sent', sent'[p].magic = "OBJT",
              sent'[q].magic = "OBJT", sent'[p].obj = sent'[q].obj
       PROVE  p = q
  BY <1>0, <1>6, <1>7, <1>10 DEF OnceInv
<1>11. ASSUME NEW p \in DOMAIN sent', sent'[p].magic = "OBJT"
       PROVE  /\ \E g \in DOMAIN Trees : \E j \in DOMAIN Trees[g] :
                    Trees[g][j].id = sent'[p].obj /\ Reached(g, j)'
              /\ \A n \in DOMAIN regmulti : sent'[p].obj = regmulti[n] => n <= blki + 1
  <2>1. CASE p \in DOMAIN sent
    <3>1. sent'[p] = sent[p] BY <1>0, <1>6, <2>1
    <3>2. PICK g \in DOMAIN Trees : \E j \in DOMAIN Trees[g] :
                Trees[g][j].id = sent'[p].obj /\ Reached(g, j)
      BY <1>11, <2>1, <3>1 DEF OnceInv, Reached
    <3>3. PICK j \in DOMAIN Trees[g] : Trees[g][j].id = sent'[p].obj /\ Reached(g, j) BY <3>2
    <3>4. Reached(g, j)' BY <3>3, ReachedGrows DEF Main
    <3>5. \A n \in DOMAIN regmulti : sent'[p].obj = regmulti[n] => n <= blki
      BY <1>11, <2>1, <3>1 DEF OnceInv
    <3> QED BY <1>0, <3>3, <3>4, <3>5
  <2>2. CASE p = Len(sent) + 1
    <3>1. Reached(f, i)' BY <1>1, <1>8, <1>9 DEF Reached, Passed
    <3>2. \A n \in DOMAIN regmulti : sent'[p].obj = regmulti[n] => n = k
      BY <1>5, <1>6, <2>2 DEF OnceInv
    <3> QED BY <1>0, <1>2, <1>5, <1>6, <1>9, <2>2, <3>1, <3>2
  <2> QED BY <1>0, <1>6, <2>1, <2>2
<1> QED BY <1>1, <1>10, <1>11 DEF OnceInv, Reached

\* What is added to what has been queued is an item.
LEMMA SentLast ==
    ASSUME SaveInv, SaveInv', NEW x, sent' = Append(sent, x) PROVE x \in Info
<1>1. sent \in Seq(Info) /\ sent' \in Seq(Info) BY WalkLists DEF SaveInv, SaveTypeOK
<1>2. sent'[Len(sent) + 1] = x /\ Len(sent) + 1 \in 1 .. Len(sent') BY <1>1
<1> QED BY <1>1, <1>2

\* Every step of the main thread keeps it.
LEMMA OnceMain == ASSUME SaveInv, SaveInv', OnceInv, Main PROVE OnceInv'
<1>0. /\ obji \in Nat /\ fsi \in Nat /\ blki \in Nat /\ Len(regmulti) \in Nat
      /\ ~InTree => regmulti = <<>>
  BY WalkLists DEF SaveInv, GroupInv
<1>1. CASE \/ main_create_comp \/ main_create_writer \/ main_analyse_error
           \/ main_tree \/ main_nexttree \/ main_check \/ main_finish \/ main_join_comp
           \/ main_join_writer
  <2>1. sent' = sent
    BY <1>1 DEF main_create_comp, main_create_writer, main_analyse_error, main_tree, main_nexttree,
       main_check, main_finish, main_join_comp, main_join_writer, Local
  <2>2. regmulti' = regmulti /\ ~InTree
    BY <1>1 DEF InTree, main_create_comp, main_create_writer, main_analyse_error, main_tree, main_nexttree,
       main_check, main_finish, main_join_comp, main_join_writer, walkvars
  <2> QED BY <1>0, <2>1, <2>2, OnceQuiet
<1>2. CASE main_mainhead \/ main_fsinfo \/ main_fsyb \/ main_datf
  <2>1. sent' = sent \/ \E x : sent' = Append(sent, x) /\ x.magic # "OBJT"
    BY <1>2 DEF main_mainhead, main_fsinfo, main_fsyb, main_datf, Local, AddHeader, Header
  <2>2. regmulti' = regmulti /\ ~InTree
    BY <1>2 DEF InTree, main_mainhead, main_fsinfo, main_fsyb, main_datf, walkvars
  <2>3. sent' = sent \/ \E x \in Info : x.magic # "OBJT" /\ sent' = Append(sent, x)
    BY <2>1, WalkLists, SentLast
  <2> QED BY <1>0, <2>2, <2>3, OnceQuiet
<1>3. CASE main_object \/ main_file
  <2>1. sent' = sent /\ regmulti' = regmulti /\ fsi' = fsi
    BY <1>3 DEF main_object, main_file, Local
  <2>2. obji <= obji' /\ mainpc # "flush"
    <3>1. CASE main_object
      <4>1. Len(Trees[fsi]) \in Nat
        <5>1. InTree BY <3>1 DEF main_object, InTree
        <5> QED BY <5>1, TreeInHand DEF SaveInv
      <4> QED BY <1>0, <3>1, <4>1 DEF main_object, NextObject
    <3>2. CASE main_file BY <1>0, <3>2 DEF main_file, NextObject
    <3> QED BY <1>3, <3>1, <3>2
  <2> QED BY <2>1, <2>2, OnceQuiet
<1>4. CASE main_block \/ main_filf
  <2>1. \E x : sent' = Append(sent, x) /\ x.magic # "OBJT"
    BY <1>4 DEF main_block, main_filf, AddHeader, AddBlock, Block, Header
  <2>2. regmulti' = regmulti /\ fsi' = fsi /\ obji <= obji' /\ mainpc # "flush"
    BY <1>0, <1>4 DEF main_block, main_filf, NextObject
  <2>3. \E x \in Info : x.magic # "OBJT" /\ sent' = Append(sent, x) BY <2>1, WalkLists, SentLast
  <2> QED BY <2>2, <2>3, OnceQuiet
<1>5. CASE main_save_node \/ main_save_unique BY <1>5, OnceHeader
<1>6. CASE main_save_multi
  <2>1. CASE regmulti' = Append(regmulti, Object.id) /\ NextObject BY <1>6, <2>1, OnceMulti
  <2>2. CASE UNCHANGED <<regmulti, obji, totalerr>>
    <3>1. sent' = sent /\ regmulti' = regmulti /\ fsi' = fsi /\ obji' = obji /\ mainpc # "flush"
      BY <1>6, <2>2 DEF main_save_multi, Local
    <3> QED BY <1>0, <3>1, OnceQuiet
  <2> QED BY <1>6, <2>1, <2>2 DEF main_save_multi, regmulti_save_addfile
<1>7. CASE main_flush
  <2>1. CASE blki < Len(regmulti) BY <1>7, <2>1, OnceFlush
  <2>2. CASE ~(blki < Len(regmulti))
    <3>1. regmulti' = <<>> BY <1>7, <2>2 DEF main_flush
    <3>2. sent' = sent \/ \E x : sent' = Append(sent, x) /\ x.magic # "OBJT"
      BY <1>7, <2>2 DEF main_flush, AddBlock, Block, Header, Local
    <3>3. sent' = sent \/ \E x \in Info : x.magic # "OBJT" /\ sent' = Append(sent, x)
      BY <3>2, WalkLists, SentLast
    <3> QED BY <3>1, <3>3, OnceQuiet
  <2> QED BY <2>1, <2>2
<1> QED BY <1>1, <1>2, <1>3, <1>4, <1>5, <1>6, <1>7 DEF Main

-----------------------------------------------------------------------------
(* The items of what is in hand *)

\* The header of a large file has been queued.
LEMMA HandHeader == ASSUME SaveInv, SaveInv', main_save_unique PROVE InHandInv'
<1>0. Len(sent) \in Nat /\ sent \in Seq(Info) BY WalkLists
<1>1. PICK x : x = Header("OBJT", fsid, Object.id, 0, Object.blks, "unique") OBVIOUS
<1>2. sent' = Append(sent, x) BY <1>1 DEF main_save_unique, AddHeader
<1>3. x \in Info BY <1>2, SentLast
<1>4. Len(sent') = Len(sent) + 1 /\ sent'[Len(sent) + 1] = x BY <1>0, <1>2, <1>3, Appended
<1>5. mainpc' = "file" /\ blki' = 0 /\ fsi' = fsi /\ obji' = obji BY DEF main_save_unique, Goto
<1>6. fsid' = fsid /\ Object' = Object BY <1>5 DEF fsid, Object
<1>7. Len(sent') - blki' = Len(sent) + 1 /\ blki' < Len(sent') BY <1>0, <1>4, <1>5
<1>8. 1 .. blki' = {} BY <1>5
<1> QED BY <1>1, <1>4, <1>5, <1>6, <1>7, <1>8 DEF InHandInv, InFile

\* A block of it has been queued.
LEMMA HandBlock == ASSUME SaveInv, SaveInv', InHandInv, main_block PROVE InHandInv'
<1>0. Len(sent) \in Nat /\ sent \in Seq(Info) /\ blki \in Nat BY WalkLists
<1>1. PICK x : x = Block(fsid, Object.id, blki) OBVIOUS
<1>2. sent' = Append(sent, x) BY <1>1 DEF main_block, AddBlock
<1>3. x \in Info BY <1>2, SentLast
<1>4. /\ Len(sent') = Len(sent) + 1 /\ sent'[Len(sent) + 1] = x
      /\ \A n \in 1 .. Len(sent) : sent'[n] = sent[n]
  BY <1>0, <1>2, <1>3, Appended
<1>5. mainpc = "block" /\ mainpc' = "file" /\ blki' = blki + 1 /\ fsi' = fsi /\ obji' = obji
  BY DEF main_block, Goto
<1>6. fsid' = fsid /\ Object' = Object BY <1>5 DEF fsid, Object
<1>7. Len(sent') - blki' = Len(sent) - blki /\ blki' < Len(sent') /\ blki < Len(sent)
  <2>1. blki < Len(sent) BY <1>5 DEF InHandInv, InFile
  <2> QED BY <1>0, <1>4, <1>5, <2>1
<1>8. sent'[Len(sent) - blki] = sent[Len(sent) - blki]
  <2>1. Len(sent) - blki \in 1 .. Len(sent) BY <1>0, <1>7
  <2> QED BY <1>4, <2>1
<1>9. ASSUME NEW b \in 1 .. blki + 1
      PROVE  sent'[Len(sent) - blki + b] = Block(fsid, Object.id, b - 1)
  <2>1. CASE b = blki + 1
    <3>1. Len(sent) - blki + b = Len(sent) + 1 /\ b - 1 = blki BY <1>0, <2>1
    <3> QED BY <1>1, <1>4, <3>1
  <2>2. CASE b \in 1 .. blki
    <3>1. Len(sent) - blki + b \in 1 .. Len(sent) BY <1>0, <1>7, <2>2
    <3>2. sent[Len(sent) - blki + b] = Block(fsid, Object.id, b - 1)
      BY <1>5, <2>2 DEF InHandInv, InFile
    <3> QED BY <1>4, <3>1, <3>2
  <2> QED BY <1>0, <2>1, <2>2
<1>10. sent[Len(sent) - blki] = Header("OBJT", fsid, Object.id, 0, Object.blks, "unique")
  BY <1>5 DEF InHandInv, InFile
<1> QED BY <1>5, <1>6, <1>7, <1>8, <1>9, <1>10 DEF InHandInv, InFile

\* A header of a group has been queued.
LEMMA HandGroup == ASSUME SaveInv, SaveInv', InHandInv, main_flush, blki < Len(regmulti) PROVE InHandInv'
<1>0. Len(sent) \in Nat /\ sent \in Seq(Info) /\ blki \in Nat /\ Len(regmulti) \in Nat BY WalkLists
<1>1. /\ mainpc = "flush" /\ mainpc' = "flush" /\ regmulti' = regmulti /\ fsi' = fsi
      /\ blki' = blki + 1
      /\ AddHeader(Header("OBJT", fsid, regmulti[blki + 1], blki, Len(regmulti), "multi"))
  <2>1. ~(blki = Len(regmulti)) BY <1>0
  <2> QED BY <2>1, Zenon DEF main_flush
<1>2. PICK x : x = Header("OBJT", fsid, regmulti[blki + 1], blki, Len(regmulti), "multi") OBVIOUS
<1>3. sent' = Append(sent, x) BY <1>1, <1>2 DEF AddHeader
<1>4. x \in Info BY <1>3, SentLast
<1>5. /\ Len(sent') = Len(sent) + 1 /\ sent'[Len(sent) + 1] = x
      /\ \A n \in 1 .. Len(sent) : sent'[n] = sent[n]
  BY <1>0, <1>3, <1>4, Appended
<1>6. fsid' = fsid BY <1>1 DEF fsid
<1>7. Len(sent') - blki' = Len(sent) - blki /\ blki' <= Len(sent') /\ blki <= Len(sent)
  <2>1. blki <= Len(sent) BY <1>1 DEF InHandInv
  <2> QED BY <1>0, <1>1, <1>5, <2>1
<1>8. ASSUME NEW k \in 1 .. blki + 1
      PROVE  sent'[Len(sent) - blki + k] = Header("OBJT", fsid, regmulti[k], k - 1, Len(regmulti), "multi")
  <2>1. CASE k = blki + 1
    <3>1. Len(sent) - blki + k = Len(sent) + 1 /\ k - 1 = blki BY <1>0, <2>1
    <3> QED BY <1>2, <1>5, <2>1, <3>1
  <2>2. CASE k \in 1 .. blki
    <3>1. Len(sent) - blki + k \in 1 .. Len(sent) BY <1>0, <1>7, <2>2
    <3>2. sent[Len(sent) - blki + k] = Header("OBJT", fsid, regmulti[k], k - 1, Len(regmulti), "multi")
      BY <1>1, <2>2 DEF InHandInv
    <3> QED BY <1>5, <3>1, <3>2
  <2> QED BY <1>0, <2>1, <2>2
<1> QED BY <1>1, <1>6, <1>7, <1>8 DEF InHandInv, InFile

\* Every step of the main thread keeps it.
LEMMA HandMain == ASSUME SaveInv, SaveInv', InHandInv, Main PROVE InHandInv'
<1>0. Len(sent) \in Nat /\ blki \in Nat /\ Len(regmulti) \in Nat BY WalkLists
<1>1. ASSUME ~InFile', mainpc' # "flush" PROVE InHandInv'
  BY <1>1 DEF InHandInv, InFile
<1>2. ASSUME mainpc' = "flush", blki' = 0 PROVE InHandInv'
  <2>1. 1 .. blki' = {} /\ blki' <= Len(sent') BY <1>2, WalkLists DEF SaveInv, SaveTypeOK
  <2> QED BY <1>2, <2>1 DEF InHandInv, InFile
<1>3. CASE \/ main_create_comp \/ main_create_writer \/ main_mainhead \/ main_fsinfo
           \/ main_analyse_error \/ main_tree \/ main_fsyb
  BY <1>1, <1>3 DEF InFile, Goto, main_create_comp, main_create_writer, main_mainhead, main_fsinfo,
     main_analyse_error, main_tree, main_fsyb
<1>4. CASE main_object BY <1>1, <1>2, <1>4 DEF InFile, Goto, main_object, NextObject
<1>5. CASE main_save_multi BY <1>1, <1>2, <1>5 DEF InFile, Goto, main_save_multi, NextObject
<1>6. CASE main_save_node \/ main_filf
  BY <1>1, <1>6 DEF InFile, Goto, main_save_node, main_filf, NextObject
<1>7. CASE main_save_unique BY <1>7, HandHeader
<1>8. CASE main_block BY <1>8, HandBlock
<1>9. CASE main_flush
  <2>1. CASE blki < Len(regmulti) BY <1>9, <2>1, HandGroup
  <2>2. CASE ~(blki < Len(regmulti))
    <3>1. mainpc' \in {"save", "datf", "nexttree"} BY <1>9, <2>2 DEF main_flush, Goto
    <3> QED BY <1>1, <3>1 DEF InFile
  <2> QED BY <2>1, <2>2
<1>10. CASE main_file
  <2>1. CASE mainpc' = "object" BY <1>1, <2>1 DEF InFile
  <2>2. CASE mainpc' # "object"
    <3>1. /\ mainpc = "file" /\ UNCHANGED <<fsi, obji, blki, sent>> /\ Object.blks # 0
          /\ mainpc' = IF blki < Object.blks THEN "block" ELSE "filf"
      BY <1>10, <2>2 DEF main_file, Goto, NextObject, Local
    <3>2. fsid' = fsid /\ Object' = Object BY <3>1 DEF fsid, Object
    <3>3. Object.blks \in Nat /\ blki <= Object.blks
      BY <3>1, ObjectInHand DEF SaveInv, Objects, WalkInv
    <3>4. Object.blks > 0 /\ (mainpc' = "filf" => blki = Object.blks) BY <1>0, <3>1, <3>3
    <3> QED BY <3>1, <3>2, <3>4 DEF InHandInv, InFile
  <2> QED BY <2>1, <2>2
<1>11. CASE main_nexttree \/ main_datf \/ main_check \/ main_finish \/ main_join_comp \/ main_join_writer
  BY <1>1, <1>11 DEF InFile, Goto, main_nexttree, main_datf, main_check, main_finish,
     main_join_comp, main_join_writer
<1> QED BY <1>3, <1>4, <1>5, <1>6, <1>7, <1>8, <1>9, <1>10, <1>11 DEF Main

-----------------------------------------------------------------------------
(* The end of the walk *)

\* A step of another thread, or of the user: an interruption stays, and the
\* writer leaves its archive complete, or says that it has given up.
LEMMA OtherStep ==
    ASSUME SaveInv, [Next]_vars, ~Main
    PROVE  /\ UNCHANGED <<mainpc, fsi, obji, blki, regmulti, last, fatal, ret, totalerr, sent>>
           /\ get_interrupted => get_interrupted'
           /\ stopfillqueue => stopfillqueue'
           /\ writerpc' = "none" => writerpc = "none"
           /\ writerpc' = "exited" /\ ~stopfillqueue' =>
                 archfile' = "complete" \/ (writerpc = "exited" /\ archfile' = archfile)
<1>1. UNCHANGED <<mainpc, fsi, obji, blki, regmulti, last, fatal, ret, totalerr, sent>>
  BY OthersKeepWalk
<1>2. /\ stopfillqueue \in BOOLEAN /\ aborted \in BOOLEAN
      /\ writerpc = "drain" => stopfillqueue
  BY DEF SaveInv, SaveTypeOK, ThreadsTypeOK, EndsInv
<1>3. CASE Writer
  BY <1>1, <1>2, <1>3 DEF Writer, writer_start, writer_open, writer_take, writer_write, writer_footer,
     writer_drain, writer_exit, WriterError, set_stopfillqueue, inc_secthreads, dec_secthreads,
     writervars, syncvars, get_interrupted
<1>4. CASE \E t \in CompThreads : Comp(t)
  <2>1. PICK t \in CompThreads : Comp(t) BY <1>4
  <2>2. UNCHANGED <<writerpc, archfile>> BY <2>1 DEF Comp, writervars
  <2>3. (stopfillqueue => stopfillqueue') /\ (aborted => aborted')
    BY <1>2, <2>1 DEF Comp, thread_comp_start, thread_comp_take, thread_comp_put, thread_comp_exit,
       thread_comp_error, inc_secthreads, dec_secthreads, set_stopfillqueue, syncvars
  <2> QED BY <1>1, <2>2, <2>3 DEF get_interrupted
<1>5. CASE User \/ Terminated \/ UNCHANGED vars
  BY <1>1, <1>2, <1>5 DEF User, Signal, Terminated, vars, syncvars, writervars, get_interrupted
<1> QED BY <1>3, <1>4, <1>5 DEF Next

\* The main thread passes the end of a tree only with nothing left in the group.
LEMMA WalkEndStep ==
    ASSUME SaveInv, SaveInv', WalkEndInv, [Next]_vars
    PROVE  WalkEndInv'
<1>0. /\ fsi \in Nat /\ obji \in Nat /\ Len(Trees) \in Nat /\ last \in BOOLEAN
      /\ archtype \in {"FILESYSTEMS", "DIRECTORIES"} /\ ret \in {0, -1}
  BY WalkLists DEF SaveInv, SaveTypeOK
<1>1. CASE ~Main
  BY <1>1, OtherStep DEF WalkEndInv, AtEnd
<1>2. CASE Main
  <2>0. UNCHANGED <<stopfillqueue, aborted>> /\ get_interrupted' = get_interrupted
    BY <1>2, MainStep DEF MainKind, SaveInv, get_interrupted
  <2>1. CASE \/ main_create_comp \/ main_create_writer \/ main_mainhead \/ main_fsinfo
             \/ main_analyse_error
    BY <1>0, <2>0, <2>1 DEF WalkEndInv, AtEnd, Goto, writervars, main_create_comp, main_create_writer,
       main_mainhead, main_fsinfo, main_analyse_error, walkvars
  <2>2. CASE main_tree \/ main_fsyb
    BY <1>0, <2>0, <2>2 DEF WalkEndInv, AtEnd, Goto, writervars, main_tree, main_fsyb, walkvars
  <2>3. CASE main_object
    <3>1. Len(Trees[fsi]) \in Nat
      <4>1. InTree BY <2>3 DEF main_object, InTree
      <4> QED BY <4>1, TreeInHand DEF SaveInv
    <3>2. /\ mainpc = "object" /\ fsi' = fsi /\ mainpc' \in {"object", "save", "flush"}
          /\ mainpc' = "flush" => obji' > Len(Trees[fsi]) \/ fatal' \/ get_interrupted
          /\ mainpc' # "flush" => last' = last
          /\ UNCHANGED <<writerpc, archfile, ret>>
      BY <1>0, <2>3, <3>1 DEF main_object, NextObject, Goto, writervars
    <3> QED BY <2>0, <3>2 DEF WalkEndInv, AtEnd
  <2>4. CASE \/ main_save_node \/ main_save_multi \/ main_save_unique \/ main_file \/ main_block \/ main_filf
    <3>1. /\ mainpc \in {"save", "file", "block", "filf"} /\ UNCHANGED <<writerpc, archfile, ret, last>>
          /\ mainpc' \in {"object", "file", "block", "filf"} \/ (mainpc' = "flush" /\ mainpc = "save")
      BY <2>4 DEF main_save_node, main_save_multi, main_save_unique, main_file, main_block, main_filf,
         Goto, NextObject, writervars
    <3>2. mainpc = "save" => ~last BY DEF WalkEndInv
    <3> QED BY <2>0, <3>1, <3>2 DEF WalkEndInv, AtEnd
  <2>5. CASE main_flush
    <3>1. /\ mainpc = "flush" /\ UNCHANGED <<writerpc, archfile, ret, fsi, obji, fatal>>
          /\ \/ mainpc' = "flush" /\ last' = last
             \/ mainpc' = "save" /\ ~last'
             \/ mainpc' = "datf" /\ archtype = "FILESYSTEMS" /\ last /\ ~last'
             \/ mainpc' = "nexttree" /\ last /\ ~last'
      BY <1>0, <2>5 DEF main_flush, Goto, writervars
    <3> QED BY <2>0, <3>1 DEF WalkEndInv, AtEnd
  <2>6. CASE main_nexttree \/ main_datf \/ main_check \/ main_finish \/ main_join_comp
    BY <1>0, <2>0, <2>6 DEF WalkEndInv, AtEnd, Goto, writervars, walkvars, main_nexttree, main_datf,
       main_check, main_finish, main_join_comp
  <2>7. CASE main_join_writer
    BY <1>0, <2>0, <2>7 DEF WalkEndInv, AtEnd, Goto, walkvars, main_join_writer
  <2> QED BY <1>2, <2>1, <2>2, <2>3, <2>4, <2>5, <2>6, <2>7 DEF Main
<1> QED BY <1>1, <1>2

-----------------------------------------------------------------------------
(* What has been passed is queued, or in hand *)

\* What is in a list stays in it when the list grows.
LEMMA StaysAt ==
    ASSUME NEW o \in Objects, NEW s \in Seq(Info), NEW x \in Info, NEW form, NEW p \in DOMAIN s,
           IsAt(o, s, form, p)
    PROVE  p \in DOMAIN Append(s, x) /\ IsAt(o, Append(s, x), form, p)
<1>0. PICK t : t = Append(s, x) OBVIOUS
<1>1. /\ Len(s) \in Nat /\ DOMAIN s = 1 .. Len(s) /\ Len(t) = Len(s) + 1 /\ DOMAIN t = 1 .. Len(s) + 1
      /\ \A n \in 1 .. Len(s) : t[n] = s[n]
  BY <1>0, Appended
<1>2. t[p] = s[p] /\ s[p] \in Info /\ s[p].off \in Nat /\ s[p].cnt \in Nat /\ o.blks \in Nat
  BY <1>1, SaveInfoAssumption DEF Objects
<1>3. ASSUME o.kind = "unique", o.blks > 0
      PROVE  /\ p + o.blks + 1 <= Len(t)
             /\ \A b \in 1 .. o.blks : t[p + b] = [Block(t[p].fsid, o.id, b - 1) EXCEPT !.form = form]
             /\ t[p + o.blks + 1] = Header("FILF", t[p].fsid, o.id, 0, 0, "head")
  <2>1. /\ p + o.blks + 1 <= Len(s)
        /\ \A b \in 1 .. o.blks : s[p + b] = [Block(s[p].fsid, o.id, b - 1) EXCEPT !.form = form]
        /\ s[p + o.blks + 1] = Header("FILF", s[p].fsid, o.id, 0, 0, "head")
    BY <1>3 DEF IsAt
  <2>2. p + o.blks + 1 \in 1 .. Len(s) /\ \A b \in 1 .. o.blks : p + b \in 1 .. Len(s)
    BY <1>1, <1>2, <2>1
  <2> QED BY <1>1, <1>2, <2>1, <2>2
<1>4. ASSUME o.kind = "multi", NEW first, NEW n, first = p - t[p].off, n = t[p].cnt
      PROVE  /\ t[p].off < n /\ first >= 1 /\ first + n <= Len(t)
             /\ \A k \in 0 .. n - 1 :
                   t[first + k].magic = "OBJT" /\ t[first + k].off = k /\ t[first + k].cnt = n
             /\ t[first + n] = [Block(t[p].fsid, t[first].obj, 0) EXCEPT !.form = form]
  <2>0. first = p - s[p].off /\ n = s[p].cnt BY <1>2, <1>4
  <2>1. /\ s[p].off < n /\ first >= 1 /\ first + n <= Len(s)
        /\ \A k \in 0 .. n - 1 :
              s[first + k].magic = "OBJT" /\ s[first + k].off = k /\ s[first + k].cnt = n
        /\ s[first + n] = [Block(s[p].fsid, s[first].obj, 0) EXCEPT !.form = form]
    BY <1>4, <2>0 DEF IsAt
  <2>2. p \in 1 .. Len(s) /\ n \in Nat /\ first \in Int BY <1>1, <1>2, <2>0
  <2>3. /\ first \in 1 .. Len(s) /\ first + n \in 1 .. Len(s)
        /\ \A k \in 0 .. n - 1 : first + k \in 1 .. Len(s)
    BY <1>1, <2>1, <2>2
  <2> QED BY <1>1, <1>2, <2>1, <2>3
<1>5. IsAt(o, t, form, p)
  <2>1. t[p].magic = "OBJT" /\ t[p].obj = o.id BY <1>2 DEF IsAt
  <2> QED BY <1>3, <1>4, <2>1 DEF IsAt
<1> QED BY <1>0, <1>1, <1>5

\* A block in the clear is the block itself.
LEMMA ClearBlock ==
    ASSUME NEW f, NEW o, NEW off PROVE [Block(f, o, off) EXCEPT !.form = "clear"] = Block(f, o, off)
BY DEF Block, Header

\* A large file is whole with its footer ...
LEMMA FileIsAt ==
    ASSUME NEW o \in Objects, o.kind = "unique", NEW s \in Seq(Info), NEW f, NEW p \in DOMAIN s,
           p = Len(s) - o.blks, s[p] = Header("OBJT", f, o.id, 0, o.blks, "unique"),
           \A b \in 1 .. o.blks : s[p + b] = Block(f, o.id, b - 1),
           NEW x \in Info, x = Header("FILF", f, o.id, 0, 0, "head")
    PROVE  p \in DOMAIN Append(s, x) /\ IsAt(o, Append(s, x), "clear", p)
<1>0. PICK t : t = Append(s, x) OBVIOUS
<1>1. /\ Len(s) \in Nat /\ DOMAIN s = 1 .. Len(s) /\ Len(t) = Len(s) + 1 /\ DOMAIN t = 1 .. Len(s) + 1
      /\ \A n \in 1 .. Len(s) : t[n] = s[n]
      /\ t[Len(s) + 1] = x
  BY <1>0, Appended
<1>2. o.blks \in Nat /\ t[p] = s[p] /\ p + o.blks + 1 = Len(s) + 1 BY <1>1 DEF Objects
<1>3. t[p].magic = "OBJT" /\ t[p].obj = o.id /\ t[p].fsid = f BY <1>2 DEF Header
<1>4. ASSUME NEW b \in 1 .. o.blks PROVE t[p + b] = [Block(t[p].fsid, o.id, b - 1) EXCEPT !.form = "clear"]
  <2>1. p + b \in 1 .. Len(s) BY <1>1, <1>2
  <2>2. t[p + b] = Block(f, o.id, b - 1) BY <1>1, <2>1
  <2> QED BY <1>3, <2>2, ClearBlock
<1>5. t[p + o.blks + 1] = Header("FILF", t[p].fsid, o.id, 0, 0, "head") BY <1>1, <1>2, <1>3
<1>6. p + o.blks + 1 <= Len(t) BY <1>1, <1>2
<1>7. IsAt(o, t, "clear", p) BY <1>3, <1>4, <1>5, <1>6 DEF IsAt
<1> QED BY <1>0, <1>1, <1>7

\* ... and a group of small files with the block they share.
LEMMA GroupIsAt ==
    ASSUME NEW s \in Seq(Info), NEW g \in Seq(Nat), NEW f, NEW n \in Nat, n = Len(g), n <= Len(s),
           \A k \in 1 .. n : s[Len(s) - n + k] = Header("OBJT", f, g[k], k - 1, n, "multi"),
           NEW x \in Info, x = Block(f, g[1], 0),
           NEW j \in 1 .. n, NEW o \in Objects, o.kind = "multi", o.id = g[j]
    PROVE  \E p \in DOMAIN Append(s, x) : IsAt(o, Append(s, x), "clear", p)
<1>0. PICK t : t = Append(s, x) OBVIOUS
<1>1. /\ Len(s) \in Nat /\ DOMAIN s = 1 .. Len(s) /\ Len(t) = Len(s) + 1 /\ DOMAIN t = 1 .. Len(s) + 1
      /\ \A m \in 1 .. Len(s) : t[m] = s[m]
      /\ t[Len(s) + 1] = x
  BY <1>0, Appended
<1>2. PICK p \in DOMAIN t : p = Len(s) - n + j
  <2>1. Len(s) \in Nat /\ n <= Len(s) /\ n \in Nat /\ j \in 1 .. n BY <1>1
  <2>2. Len(s) - n + j \in 1 .. Len(s) + 1 BY ONLY <2>1
  <2> QED BY <1>1, <2>2
<1>3. ASSUME NEW k \in 1 .. n
      PROVE  t[Len(s) - n + k] = Header("OBJT", f, g[k], k - 1, n, "multi")
  <2>1. Len(s) - n + k \in 1 .. Len(s) BY <1>1
  <2> QED BY <1>1, <2>1
<1>4. t[p] = Header("OBJT", f, o.id, j - 1, n, "multi") BY <1>2, <1>3
<1>5. PICK first \in Nat : first = Len(s) - n + 1
  <2>1. Len(s) \in Nat /\ n <= Len(s) /\ n \in Nat BY <1>1
  <2>2. Len(s) - n + 1 \in Nat BY ONLY <2>1
  <2> QED BY <2>2
<1>6. p - t[p].off = first /\ t[p].cnt = n /\ t[p].fsid = f /\ t[p].magic = "OBJT" /\ t[p].obj = o.id
  <2>1. t[p].off = j - 1 /\ t[p].cnt = n /\ t[p].fsid = f /\ t[p].magic = "OBJT" /\ t[p].obj = o.id
    BY <1>4 DEF Header
  <2> QED BY <1>1, <1>2, <1>5, <2>1
<1>7. ASSUME NEW k \in 0 .. n - 1
      PROVE  t[first + k].magic = "OBJT" /\ t[first + k].off = k /\ t[first + k].cnt = n
  <2>1. PICK m \in 1 .. n : m = k + 1 OBVIOUS
  <2>2. first + k = Len(s) - n + m /\ m - 1 = k
    <3>1. Len(s) \in Nat /\ n \in Nat /\ m \in Nat /\ k \in Int /\ m = k + 1 BY <1>1, <2>1
    <3>2. first = Len(s) - n + 1 BY <1>5
    <3> QED BY ONLY <3>1, <3>2
  <2>3. t[first + k] = Header("OBJT", f, g[m], k, n, "multi") BY <1>3, <2>2
  <2> QED BY <2>3 DEF Header
<1>8. t[first + n] = [Block(f, t[first].obj, 0) EXCEPT !.form = "clear"]
  <2>1. first + n = Len(s) + 1 /\ 1 \in 1 .. n BY <1>1, <1>5
  <2>2. t[first] = Header("OBJT", f, g[1], 1 - 1, n, "multi") BY <1>3, <1>5, <2>1
  <2>3. t[first].obj = g[1] BY <2>2 DEF Header
  <2> QED BY <1>1, <2>1, <2>3, ClearBlock
<1>9. t[p].off < n /\ first >= 1 /\ first + n <= Len(t)
  <2>1. t[p].off = j - 1 BY <1>4 DEF Header
  <2>2. Len(s) \in Nat /\ n \in Nat /\ n <= Len(s) /\ j \in 1 .. n /\ Len(t) = Len(s) + 1
        /\ first = Len(s) - n + 1
    BY <1>1, <1>5
  <2> QED BY ONLY <2>1, <2>2
<1>10. IsAt(o, t, "clear", p) BY <1>6, <1>7, <1>8, <1>9 DEF IsAt
<1> QED BY <1>0, <1>10

\* Object i of tree f is queued, or a small file in hand.
Held(f, i) ==
    \/ \E p \in DOMAIN sent : IsAt(Trees[f][i], sent, "clear", p)
    \/ f = fsi /\ \E k \in DOMAIN regmulti : regmulti[k] = Trees[f][i].id

\* What goes wrong is not forgotten.
LEMMA CleanBefore == ASSUME SaveInv, SaveInv', [Next]_vars, Clean' PROVE Clean
<1>0. /\ fatal \in BOOLEAN /\ totalerr \in BOOLEAN /\ ret \in {0, -1}
      /\ aborted \in BOOLEAN /\ stopfillqueue \in BOOLEAN
  BY DEF SaveInv, SaveTypeOK, ThreadsTypeOK
<1>1. CASE ~Main BY <1>1, OtherStep DEF Clean, AtEnd
<1>2. CASE Main
  <2>1. get_interrupted' = get_interrupted
    BY <1>2, MainStep DEF MainKind, SaveInv, get_interrupted
  <2>2. (totalerr => totalerr') /\ (fatal => fatal')
    BY <1>0, <1>2 DEF Main, walkvars, main_create_comp, main_create_writer, main_mainhead, main_fsinfo,
       main_analyse_error, main_tree, main_fsyb, main_object, main_save_node, main_save_multi,
       main_save_unique, main_flush, main_file, main_block, main_filf, main_nexttree, main_datf,
       main_check, main_finish, main_join_comp, main_join_writer, MaybeTruncated, NextObject
  <2>3. CASE AtEnd
    BY <1>2, <2>2, <2>3 DEF Clean, AtEnd, Main, Goto, main_create_comp, main_create_writer, main_mainhead,
       main_fsinfo, main_analyse_error, main_tree, main_fsyb, main_object, main_save_node, main_save_multi,
       main_save_unique, main_flush, main_file, main_block, main_filf, main_nexttree, main_datf,
       main_check, main_finish, main_join_comp, main_join_writer
  <2>4. CASE ~AtEnd /\ AtEnd'
    <3>1. ~get_interrupted \/ ret' = -1
      BY <1>2, <2>4 DEF AtEnd, Main, Goto, NextObject, main_create_comp, main_create_writer, main_mainhead,
         main_fsinfo, main_analyse_error, main_tree, main_fsyb, main_object, main_save_node,
         main_save_multi, main_save_unique, main_flush, main_file, main_block, main_filf,
         main_nexttree, main_datf, main_check, main_finish, main_join_comp, main_join_writer
    <3> QED BY <2>2, <2>4, <3>1 DEF Clean
  <2>5. CASE ~AtEnd /\ ~AtEnd' BY <2>1, <2>2, <2>5 DEF Clean
  <2> QED BY <2>3, <2>4, <2>5
<1> QED BY <1>1, <1>2

\* What is queued stays queued.
LEMMA StaysSent ==
    ASSUME SaveInv, SaveInv', NEW o \in Objects, NEW p \in DOMAIN sent, IsAt(o, sent, "clear", p),
           sent' = sent \/ \E x : sent' = Append(sent, x)
    PROVE  p \in DOMAIN sent' /\ IsAt(o, sent', "clear", p)
<1>1. CASE sent' = sent BY <1>1
<1>2. CASE \E x : sent' = Append(sent, x)
  <2>1. PICK x : sent' = Append(sent, x) BY <1>2
  <2>2. x \in Info /\ sent \in Seq(Info) BY <2>1, SentLast, WalkLists
  <2> QED BY <2>1, <2>2, StaysAt
<1> QED BY <1>1, <1>2

\* A step of the main thread queues nothing or one item.
LEMMA MainSends == ASSUME SaveInv, Main PROVE sent' = sent \/ \E x : sent' = Append(sent, x)
<1>1. MainKind BY MainStep DEF SaveInv
<1> QED BY <1>1 DEF MainKind, Adds

\* What the main thread holds is not lost: a group that is emptied is queued.
LEMMA HeldStays ==
    ASSUME SaveInv, SaveInv', InHandInv, Main, NEW f \in DOMAIN Trees, NEW i \in DOMAIN Trees[f], Held(f, i)
    PROVE  Held(f, i)'
<1>0. Trees[f][i] \in Objects BY WalkLists
<1>1. CASE \E p \in DOMAIN sent : IsAt(Trees[f][i], sent, "clear", p)
  <2>1. PICK p \in DOMAIN sent : IsAt(Trees[f][i], sent, "clear", p) BY <1>1
  <2>2. p \in DOMAIN sent' /\ IsAt(Trees[f][i], sent', "clear", p) BY <1>0, <2>1, MainSends, StaysSent
  <2> QED BY <2>2 DEF Held
<1>2. CASE f = fsi /\ \E k \in DOMAIN regmulti : regmulti[k] = Trees[f][i].id
  <2>0. /\ regmulti \in Seq(Nat) /\ Len(regmulti) \in Nat /\ DOMAIN regmulti = 1 .. Len(regmulti)
        /\ sent \in Seq(Info) /\ blki \in Nat
    BY WalkLists
  <2>1. PICK k \in DOMAIN regmulti : regmulti[k] = Trees[f][i].id BY <1>2
  <2>2. InTree BY <2>0, <2>1 DEF SaveInv, GroupInv
  <2>3. CASE k \in DOMAIN regmulti' /\ regmulti'[k] = regmulti[k] /\ fsi' = fsi
    BY <1>2, <2>1, <2>3 DEF Held
  <2>4. CASE main_flush /\ blki = Len(regmulti)
    <3>1. mainpc = "flush" /\ regmulti # <<>> BY <2>0, <2>1, <2>4 DEF main_flush
    <3>2. AddBlock(Block(fsid, regmulti[1], 0))
      <4>1. ~(blki < Len(regmulti)) BY <2>0, <2>4
      <4> QED BY <2>4, <3>1, <4>1 DEF main_flush
    <3>3. PICK x : x = Block(fsid, regmulti[1], 0) OBVIOUS
    <3>4. sent' = Append(sent, x) BY <3>2, <3>3 DEF AddBlock
    <3>5. x \in Info BY <3>4, SentLast
    <3>6. PICK n \in Nat : n = Len(regmulti) BY <2>0
    <3>7. /\ n <= Len(sent)
          /\ \A m \in 1 .. n : sent[Len(sent) - n + m] =
                Header("OBJT", fsid, regmulti[m], m - 1, n, "multi")
      BY <2>4, <3>1, <3>6 DEF InHandInv
    <3>8. Trees[f][i].kind = "multi"
      <4>1. PICK j \in DOMAIN Trees[fsi] : Trees[fsi][j].kind = "multi" /\ Trees[fsi][j].id = regmulti[k]
        BY DEF SaveInv, GroupInv
      <4>2. j = i BY <1>2, <2>1, <4>1, IdAssumption
      <4> QED BY <1>2, <4>1, <4>2
    <3>9. k \in 1 .. n BY <2>0, <3>6
    <3>10. \E p \in DOMAIN Append(sent, x) : IsAt(Trees[f][i], Append(sent, x), "clear", p)
      <4>1. PICK o \in Objects : o = Trees[f][i] BY <1>0
      <4>2. o.kind = "multi" /\ o.id = regmulti[k] BY <2>1, <3>8, <4>1
      <4>3. \E p \in DOMAIN Append(sent, x) : IsAt(o, Append(sent, x), "clear", p)
        BY ONLY <2>0, <3>3, <3>5, <3>6, <3>7, <3>9, <4>2, GroupIsAt, Zenon
      <4> QED BY <4>1, <4>3
    <3> QED BY <3>4, <3>10 DEF Held
  <2>5. CASE ~(main_flush /\ blki = Len(regmulti))
    <3>1. fsi' = fsi
      BY <2>2 DEF Main, InTree, walkvars, main_create_comp, main_create_writer, main_mainhead, main_fsinfo,
         main_analyse_error, main_tree, main_fsyb, main_object, main_save_node, main_save_multi,
         main_save_unique, main_flush, main_file, main_block, main_filf, main_nexttree, main_datf,
         main_check, main_finish, main_join_comp, main_join_writer
    <3>2. regmulti' = regmulti \/ regmulti' = Append(regmulti, Object.id)
      BY <2>2, <2>5 DEF Main, InTree, walkvars, main_create_comp, main_create_writer, main_mainhead,
         main_fsinfo, main_analyse_error, main_tree, main_fsyb, main_object, main_save_node,
         main_save_multi, main_save_unique, main_flush, main_file, main_block, main_filf, main_nexttree,
         main_datf, main_check, main_finish, main_join_comp, main_join_writer, regmulti_save_addfile
    <3>3. k \in DOMAIN regmulti' /\ regmulti'[k] = regmulti[k] BY <2>0, <3>2
    <3> QED BY <2>3, <3>1, <3>3
  <2> QED BY <2>4, <2>5
<1> QED BY <1>1, <1>2 DEF Held

\* The object that the walk passes in a clean step has been queued or put into
\* the group.
LEMMA PassedIsHeld ==
    ASSUME SaveInv, SaveInv', InHandInv, WalkEndInv, Main, Clean', Clean, ~Fault("ignored"),
           NEW f \in DOMAIN Trees, NEW i \in DOMAIN Trees[f], ~Passed(f, i), Passed(f, i)'
    PROVE  Held(f, i)'
<1>0. /\ fsi \in Nat /\ obji \in Nat /\ Len(Trees) \in Nat /\ f \in 1 .. Len(Trees) /\ i \in Nat
      /\ sent \in Seq(Info) /\ blki \in Nat /\ Len(sent) \in Nat /\ DOMAIN sent = 1 .. Len(sent)
      /\ regmulti \in Seq(Nat)
      /\ Trees[f][i] \in Objects
      /\ get_interrupted' = get_interrupted
  BY WalkLists, MainStep DEF MainKind, SaveInv, get_interrupted
<1>1. CASE \/ main_create_comp \/ main_create_writer \/ main_mainhead \/ main_fsinfo \/ main_analyse_error
           \/ main_check \/ main_finish \/ main_join_comp \/ main_join_writer
  <2>1. CASE main_create_comp \/ main_create_writer \/ main_mainhead \/ main_analyse_error
    <3>1. mainpc' \in {"create", "mainhead", "fsinfo"} \/ (mainpc' = "finish" /\ ret' = -1)
      BY <2>1 DEF Goto, main_create_comp, main_create_writer, main_mainhead, main_analyse_error
    <3> QED BY <3>1 DEF Passed, Clean, AtEnd
  <2>2. CASE main_fsinfo
    <3>1. mainpc' = "fsinfo" \/ (mainpc' = "tree" /\ fsi' = 1) BY <2>2 DEF main_fsinfo, Goto
    <3> QED BY <1>0, <3>1 DEF Passed
  <2>3. CASE main_check \/ main_finish \/ main_join_comp \/ main_join_writer
    <3>1. UNCHANGED <<fsi, obji>> /\ mainpc \notin {"create", "mainhead", "fsinfo", "tree"}
      BY <2>3 DEF walkvars, main_check, main_finish, main_join_comp, main_join_writer
    <3> QED BY <3>1 DEF Passed
  <2> QED BY <1>1, <2>1, <2>2, <2>3
<1>2. CASE main_tree \/ main_fsyb \/ main_save_unique \/ main_block
  <2>1. CASE main_tree
    <3>1. /\ mainpc = "tree" /\ fsi' = fsi
          /\ obji' = 1 \/ fsi > Len(Trees) \/ (get_interrupted /\ mainpc' \in {"check", "datf"})
      BY <1>0, <2>1 DEF main_tree, Goto
    <3>2. ~get_interrupted \/ ~(mainpc' \in {"check", "datf"}) BY <1>0 DEF Clean, AtEnd
    <3> QED BY <1>0, <3>1, <3>2, WalkLists DEF Passed
  <2>2. CASE main_fsyb \/ main_save_unique \/ main_block
    <3>1. UNCHANGED <<fsi, obji>> /\ mainpc \notin {"create", "mainhead", "fsinfo", "tree"}
      BY <2>2 DEF walkvars, main_fsyb, main_save_unique, main_block
    <3> QED BY <3>1 DEF Passed
  <2> QED BY <1>2, <2>1, <2>2
<1>3. CASE main_object
  <2>1. mainpc = "object" /\ obji' = obji /\ fsi' = fsi /\ mainpc' # "tree"
    BY <1>3 DEF main_object, NextObject, Goto, Clean, attrerrors
  <2> QED BY <2>1 DEF Passed
<1>4. CASE main_flush
  <2>1. mainpc = "flush" /\ obji' = obji /\ fsi' = fsi BY <1>4 DEF main_flush
  <2> QED BY <2>1 DEF Passed
<1>5. CASE main_nexttree \/ main_datf
  <2>1. \/ mainpc = "nexttree"
        \/ mainpc = "datf" /\ archtype = "FILESYSTEMS"
        \/ mainpc' = "check" /\ fsi' = fsi /\ obji' = obji /\ mainpc = "datf"
    BY <1>5 DEF main_nexttree, main_datf, Goto
  <2>2. CASE mainpc' = "check" /\ fsi' = fsi /\ obji' = obji /\ mainpc = "datf" BY <2>2 DEF Passed
  <2>3. CASE mainpc = "nexttree" \/ (mainpc = "datf" /\ archtype = "FILESYSTEMS")
    <3>1. ~get_interrupted /\ ~fatal BY <2>3 DEF Clean, AtEnd
    <3>2. obji > Len(Trees[fsi]) BY <2>3, <3>1 DEF WalkEndInv
    <3>3. mainpc' \in {"tree", "finish"} /\ (mainpc' = "tree" => fsi' = fsi + 1) /\ obji' = obji
          /\ (mainpc' = "finish" => ret' = -1)
      BY <1>5, <2>3 DEF main_nexttree, main_datf, Goto
    <3>4. mainpc' = "tree" BY <3>3 DEF Clean, AtEnd
    <3>5. f < fsi + 1 /\ ~(f < fsi) BY <1>0, <2>3, <3>3, <3>4 DEF Passed
    <3>6. f = fsi BY <1>0, <3>5
    <3>7. i < obji BY <1>0, <3>2, <3>6, WalkLists
    <3> QED BY <2>3, <3>6, <3>7 DEF Passed
  <2> QED BY <2>1, <2>2, <2>3
<1>6. CASE main_save_node \/ main_save_multi \/ main_file \/ main_filf
  <2>1. /\ mainpc \in {"save", "file", "filf"} /\ fsi' = fsi
        /\ (obji' = obji /\ mainpc' # "tree") \/ (obji' = obji + 1 /\ mainpc' = "object")
    BY <1>6 DEF main_save_node, main_save_multi, main_file, main_filf, NextObject, Goto
  <2>2. f = fsi /\ i = obji /\ obji' = obji + 1
    BY <1>0, <2>1 DEF Passed
  <2>3. PICK o \in Objects : o = Trees[f][i] BY <1>0
  <2>4. Object = o BY <2>2, <2>3 DEF Object
  <2>5. CASE main_save_node
    <3>1. PICK x : x = Header("OBJT", fsid, Object.id, 0, Object.blks, Object.kind) OBVIOUS
    <3>2. sent' = Append(sent, x) BY <2>5, <3>1 DEF main_save_node, AddHeader
    <3>3. x \in Info /\ x.magic = "OBJT" /\ x.obj = o.id BY <2>4, <3>1, <3>2, SentLast DEF Header
    <3>4. o.kind = "node" BY <2>4, <2>5 DEF main_save_node
    <3>5. Len(sent) + 1 \in DOMAIN sent' /\ sent'[Len(sent) + 1] = x BY <1>0, <3>2, <3>3, Appended
    <3>6. IsAt(o, sent', "clear", Len(sent) + 1) BY <3>3, <3>4, <3>5 DEF IsAt
    <3> QED BY <2>3, <3>5, <3>6 DEF Held
  <2>6. CASE main_save_multi
    <3>1. regmulti' = Append(regmulti, o.id) BY <1>0, <2>2, <2>4, <2>6 DEF main_save_multi, regmulti_save_addfile
    <3>2. Len(regmulti) + 1 \in DOMAIN regmulti' /\ regmulti'[Len(regmulti) + 1] = o.id
      BY <1>0, <3>1 DEF Objects
    <3> QED BY <2>1, <2>2, <2>3, <3>2 DEF Held
  <2>7. CASE main_file
    <3>1. mainpc = "file" /\ Object.blks = 0 /\ sent' = sent
      BY <1>0, <2>2, <2>7 DEF main_file, Clean, Local
    <3>2. o.kind = "unique" /\ blki = 0 BY <1>0, <2>4, <3>1 DEF SaveInv, WalkInv
    <3>3. PICK p \in DOMAIN sent : p = Len(sent)
      <4>1. blki < Len(sent) BY <3>1 DEF InHandInv, InFile
      <4> QED BY <1>0, <3>2, <4>1
    <3>4. sent[Len(sent) - blki] = Header("OBJT", fsid, Object.id, 0, Object.blks, "unique")
      BY <3>1 DEF InHandInv, InFile
    <3>5. Len(sent) - blki = p BY <1>0, <3>2, <3>3
    <3>6. sent[p].magic = "OBJT" /\ sent[p].obj = o.id BY <2>4, <3>4, <3>5 DEF Header
    <3>7. IsAt(o, sent, "clear", p) BY <2>4, <3>1, <3>2, <3>6 DEF IsAt
    <3> QED BY <2>3, <3>1, <3>7 DEF Held
  <2>8. CASE main_filf
    <3>1. mainpc = "filf" /\ o.kind = "unique" /\ blki = o.blks
      BY <2>4, <2>8 DEF main_filf, InHandInv, SaveInv, WalkInv
    <3>2. PICK x : x = Header("FILF", fsid, o.id, 0, 0, "head") OBVIOUS
    <3>3. sent' = Append(sent, x) BY <2>4, <2>8, <3>2 DEF main_filf, AddHeader
    <3>4. x \in Info BY <3>3, SentLast
    <3>5. /\ blki < Len(sent)
          /\ sent[Len(sent) - blki] = Header("OBJT", fsid, o.id, 0, o.blks, "unique")
          /\ \A b \in 1 .. blki : sent[Len(sent) - blki + b] = Block(fsid, o.id, b - 1)
      BY <2>4, <3>1 DEF InHandInv, InFile
    <3>6. PICK p \in DOMAIN sent : p = Len(sent) - o.blks BY <1>0, <3>1, <3>5
    <3>7. /\ sent[p] = Header("OBJT", fsid, o.id, 0, o.blks, "unique")
          /\ \A b \in 1 .. o.blks : sent[p + b] = Block(fsid, o.id, b - 1)
      BY <3>1, <3>5, <3>6
    <3>8. p \in DOMAIN Append(sent, x) /\ IsAt(o, Append(sent, x), "clear", p)
      BY ONLY <1>0, <3>1, <3>2, <3>4, <3>6, <3>7, FileIsAt, Zenon
    <3> QED BY <2>3, <3>3, <3>8 DEF Held
  <2> QED BY <1>6, <2>5, <2>6, <2>7, <2>8
<1> QED BY <1>1, <1>2, <1>3, <1>4, <1>5, <1>6 DEF Main

\* What the walk has passed without an error is queued, or waits in the group.
LEMMA SavedStep ==
    ASSUME SaveInv, SaveInv', InHandInv, WalkEndInv, SavedInv, [Next]_vars
    PROVE  SavedInv'
<1> SUFFICES ASSUME Clean', ~Fault("ignored"), NEW f \in DOMAIN Trees, NEW i \in DOMAIN Trees[f],
                    Passed(f, i)'
             PROVE  Held(f, i)'
  BY DEF SavedInv, Held, Fault
<1>1. Clean BY CleanBefore
<1>2. CASE Main
  <2>1. CASE Passed(f, i)
    <3>1. Held(f, i) BY <1>1, <2>1 DEF SavedInv, Held
    <3> QED BY <1>2, <3>1, HeldStays
  <2>2. CASE ~Passed(f, i) BY <1>1, <1>2, <2>2, PassedIsHeld
  <2> QED BY <2>1, <2>2
<1>3. CASE ~Main
  <2>1. UNCHANGED <<mainpc, fsi, obji, blki, regmulti, last, fatal, ret, totalerr, sent>>
    BY <1>3, OtherStep
  <2>2. Passed(f, i) BY <2>1 DEF Passed
  <2>3. Held(f, i) BY <1>1, <2>2 DEF SavedInv, Held
  <2> QED BY <2>1, <2>3 DEF Held
<1> QED BY <1>2, <1>3

-----------------------------------------------------------------------------
(* The result *)

\* The invariant holds at the start ...
LEMMA SaveWholeInit == ASSUME Init PROVE SaveWholeInv
<1>1. sent = <<>> /\ regmulti = <<>> /\ DOMAIN sent = {} /\ DOMAIN regmulti = {} BY DEF Init
<1>2. mainpc = "create" /\ writerpc = "none" /\ last = FALSE BY DEF Init
<1>3. OnceInv BY <1>1 DEF OnceInv
<1>4. InHandInv BY <1>2 DEF InHandInv, InFile
<1>5. WalkEndInv BY <1>2 DEF WalkEndInv, AtEnd
<1>6. SavedInv BY <1>2 DEF SavedInv, Passed
<1> QED BY <1>3, <1>4, <1>5, <1>6 DEF SaveWholeInv

\* ... and every step keeps it.
LEMMA SaveWholeNext ==
    ASSUME SaveInv, SaveInv', SaveWholeInv, [Next]_vars PROVE SaveWholeInv'
<1>0. OnceInv /\ InHandInv /\ WalkEndInv /\ SavedInv BY DEF SaveWholeInv
<1>1. WalkEndInv' /\ SavedInv' BY <1>0, WalkEndStep, SavedStep
<1>2. CASE Main BY <1>0, <1>1, <1>2, OnceMain, HandMain DEF SaveWholeInv
<1>3. CASE ~Main
  <2>1. UNCHANGED <<mainpc, fsi, obji, blki, regmulti, last, fatal, ret, totalerr, sent>>
    BY <1>3, OtherStep
  <2>2. OnceInv' BY <1>0, <2>1 DEF OnceInv, Passed, InFile
  <2>3. InHandInv' BY <1>0, <2>1 DEF InHandInv, InFile, fsid, Object
  <2> QED BY <1>1, <2>2, <2>3 DEF SaveWholeInv
<1> QED BY <1>2, <1>3

\* What has been queued is in a complete archive, packed.
LEMMA WrittenAt ==
    ASSUME SaveInv, archfile = "complete", NEW o \in Objects, NEW p \in DOMAIN sent, IsAt(o, sent, "clear", p)
    PROVE  p \in DOMAIN archive /\ IsAt(o, archive, "packed", p)
<1>1. /\ sent \in Seq(Info) /\ Len(sent) \in Nat /\ DOMAIN sent = 1 .. Len(sent)
      /\ archive \in Seq(Info) /\ DOMAIN archive = 1 .. Len(archive) /\ Len(archive) = Len(sent)
  BY WalkLists DEF SaveInv, SaveTypeOK, FooterMeansAll
<1>2. ASSUME NEW n \in 1 .. Len(sent)
      PROVE  /\ sent[n].magic # "BLKH" => archive[n] = sent[n]
             /\ sent[n].magic = "BLKH" => archive[n] = [sent[n] EXCEPT !.form = "packed"]
  <2>1. archive[n] \in Packed(sent[n]) BY <1>1 DEF SaveInv, ArchiveHoldsSent
  <2> QED BY <2>1 DEF Packed, compress_block_generic
<1>3. /\ archive[p] = sent[p] /\ sent[p].off \in Nat /\ sent[p].cnt \in Nat /\ o.blks \in Nat
      /\ sent[p].magic = "OBJT" /\ sent[p].obj = o.id
  BY <1>1, <1>2, SaveInfoAssumption DEF Objects, IsAt
<1>4. ASSUME NEW n \in 1 .. Len(sent), NEW f, NEW id, NEW off,
             sent[n] = [Block(f, id, off) EXCEPT !.form = "clear"]
      PROVE  archive[n] = [Block(f, id, off) EXCEPT !.form = "packed"]
  <2>1. sent[n] = Block(f, id, off) BY <1>4, ClearBlock
  <2>2. sent[n].magic = "BLKH" BY <2>1 DEF Block, Header
  <2> QED BY <1>2, <2>1, <2>2
<1>5. ASSUME o.kind = "unique", o.blks > 0
      PROVE  /\ p + o.blks + 1 <= Len(archive)
             /\ \A b \in 1 .. o.blks :
                   archive[p + b] = [Block(archive[p].fsid, o.id, b - 1) EXCEPT !.form = "packed"]
             /\ archive[p + o.blks + 1] = Header("FILF", archive[p].fsid, o.id, 0, 0, "head")
  <2>1. /\ p + o.blks + 1 <= Len(sent)
        /\ \A b \in 1 .. o.blks : sent[p + b] = [Block(sent[p].fsid, o.id, b - 1) EXCEPT !.form = "clear"]
        /\ sent[p + o.blks + 1] = Header("FILF", sent[p].fsid, o.id, 0, 0, "head")
    BY <1>5 DEF IsAt
  <2>2. p + o.blks + 1 \in 1 .. Len(sent) /\ \A b \in 1 .. o.blks : p + b \in 1 .. Len(sent)
    BY <1>1, <1>3, <2>1
  <2>3. ASSUME NEW b \in 1 .. o.blks
        PROVE  archive[p + b] = [Block(sent[p].fsid, o.id, b - 1) EXCEPT !.form = "packed"]
    <3>1. PICK m \in 1 .. Len(sent) : m = p + b BY <2>2
    <3>2. PICK f, id, off : f = sent[p].fsid /\ id = o.id /\ off = b - 1 OBVIOUS
    <3>3. sent[m] = [Block(f, id, off) EXCEPT !.form = "clear"] BY <2>1, <3>1, <3>2
    <3>4. archive[m] = [Block(f, id, off) EXCEPT !.form = "packed"] BY <1>4, <3>3
    <3> QED BY <3>1, <3>2, <3>4
  <2>4. archive[p + o.blks + 1] = sent[p + o.blks + 1]
    <3>1. sent[p + o.blks + 1].magic = "FILF" BY <2>1 DEF Header
    <3> QED BY <1>2, <2>2, <3>1
  <2> QED BY <1>1, <1>3, <2>1, <2>3, <2>4
<1>6. ASSUME o.kind = "multi", NEW first, NEW n, first = p - archive[p].off, n = archive[p].cnt
      PROVE  /\ archive[p].off < n /\ first >= 1 /\ first + n <= Len(archive)
             /\ \A k \in 0 .. n - 1 :
                   /\ archive[first + k].magic = "OBJT"
                   /\ archive[first + k].off = k /\ archive[first + k].cnt = n
             /\ archive[first + n] = [Block(archive[p].fsid, archive[first].obj, 0) EXCEPT !.form = "packed"]
  <2>0. first = p - sent[p].off /\ n = sent[p].cnt BY <1>3, <1>6
  <2>1. /\ sent[p].off < n /\ first >= 1 /\ first + n <= Len(sent)
        /\ \A k \in 0 .. n - 1 :
              sent[first + k].magic = "OBJT" /\ sent[first + k].off = k /\ sent[first + k].cnt = n
        /\ sent[first + n] = [Block(sent[p].fsid, sent[first].obj, 0) EXCEPT !.form = "clear"]
    BY <1>6, <2>0 DEF IsAt
  <2>2. p \in 1 .. Len(sent) /\ n \in Nat /\ first \in Int BY <1>1, <1>3, <2>0
  <2>3. /\ first \in 1 .. Len(sent) /\ first + n \in 1 .. Len(sent)
        /\ \A k \in 0 .. n - 1 : first + k \in 1 .. Len(sent)
    BY <1>1, <2>1, <2>2
  <2>4. \A k \in 0 .. n - 1 : archive[first + k] = sent[first + k] BY <1>2, <2>1, <2>3
  <2>5. archive[first + n] = [Block(sent[p].fsid, sent[first].obj, 0) EXCEPT !.form = "packed"]
    BY <1>4, <2>1, <2>3
  <2>6. archive[first] = sent[first]
    <3>1. 0 \in 0 .. n - 1 /\ first + 0 = first BY <1>3, <2>0, <2>1, <2>2
    <3> QED BY <2>4, <3>1
  <2> QED BY <1>1, <1>3, <2>1, <2>4, <2>5, <2>6
<1>7. archive[p].magic = "OBJT" /\ archive[p].obj = o.id /\ p \in DOMAIN archive BY <1>1, <1>3
<1> QED BY ONLY <1>5, <1>6, <1>7 DEF IsAt

\* At a clean end, everything has been passed.
LEMMA EndIsWhole == ASSUME SaveInv, SaveWholeInv, ~Fault("ignored") PROVE CleanSuccessIsWhole
<1> SUFFICES ASSUME mainpc = "done", exitstatus = 0, ~stopfillqueue, ~fatal PROVE AllSaved
  BY DEF CleanSuccessIsWhole
<1>1. ret = 0 /\ ~totalerr BY DEF exitstatus
<1>2. writerpc = "exited" /\ AtEnd BY <1>1 DEF SaveInv, EndsInv, SaveWholeInv, WalkEndInv, AtEnd
<1>3. archfile = "complete" BY <1>1, <1>2 DEF SaveWholeInv, WalkEndInv
<1>4. Clean BY <1>1, <1>2 DEF Clean
<1>5. regmulti = <<>> BY DEF SaveInv, GroupInv, InTree
<1>6. fsi > Len(Trees) BY <1>1, <1>2 DEF SaveWholeInv, WalkEndInv
<1>7. ASSUME NEW f \in DOMAIN Trees, NEW i \in DOMAIN Trees[f]
      PROVE  Cardinality({p \in DOMAIN archive : IsAt(Trees[f][i], archive, "packed", p)}) = 1
  <2>1. PICK o \in Objects : o = Trees[f][i] BY WalkLists
  <2>2. Passed(f, i)
    <3>1. f < fsi BY <1>6, WalkLists
    <3> QED BY <3>1 DEF Passed
  <2>3. PICK p \in DOMAIN sent : IsAt(o, sent, "clear", p)
    BY <1>4, <1>5, <2>1, <2>2 DEF SaveWholeInv, SavedInv
  <2>4. p \in DOMAIN archive /\ IsAt(o, archive, "packed", p) BY <1>3, <2>3, WrittenAt
  <2>5. ASSUME NEW q \in DOMAIN archive, IsAt(o, archive, "packed", q) PROVE q = p
    <3>1. q \in DOMAIN sent /\ archive[q] \in Packed(sent[q])
      BY <1>3, WalkLists DEF SaveInv, ArchiveHoldsSent, FooterMeansAll, SaveTypeOK
    <3>2. archive[q].magic = "OBJT" /\ archive[q].obj = o.id BY <2>5 DEF IsAt
    <3>3. sent[q] = archive[q]
      <4>1. sent[q].magic # "BLKH"
        <5>1. SUFFICES ASSUME sent[q].magic = "BLKH" PROVE FALSE OBVIOUS
        <5>2. archive[q] = [sent[q] EXCEPT !.form = "packed"]
          BY <3>1, <5>1 DEF Packed, compress_block_generic
        <5> QED BY <3>2, <5>1, <5>2
      <4> QED BY <3>1, <4>1 DEF Packed
    <3>4. sent[p].magic = "OBJT" /\ sent[p].obj = o.id BY <2>3 DEF IsAt
    <3> QED BY <3>1, <3>2, <3>3, <3>4 DEF SaveWholeInv, OnceInv
  <2>6. {q \in DOMAIN archive : IsAt(o, archive, "packed", q)} = {p} BY <2>4, <2>5
  <2> QED BY <2>1, <2>6, FS_Singleton
<1> QED BY <1>3, <1>7 DEF AllSaved

\* savefs and savedir that report success have saved every object of every tree,
\* once and in the form the restore expects, if no object was left out on
\* purpose (option -A, or a directory that cannot be opened), for every list of
\* trees and every other fault.
THEOREM SuccessSavesAll == ~Fault("ignored") => (Spec => []CleanSuccessIsWhole)
<1> SUFFICES ASSUME ~Fault("ignored") PROVE Spec => []CleanSuccessIsWhole OBVIOUS
<1>1. Init => SaveWholeInv BY SaveWholeInit
<1>2. SaveInv /\ SaveInv' /\ SaveWholeInv /\ [Next]_vars => SaveWholeInv' BY SaveWholeNext
<1>3. SaveInv /\ SaveWholeInv => CleanSuccessIsWhole BY EndIsWhole
<1>4. Spec => [](QueueInv /\ SaveInv) BY SaveCorrect
<1> QED BY <1>1, <1>2, <1>3, <1>4, PTL DEF Spec

=============================================================================
