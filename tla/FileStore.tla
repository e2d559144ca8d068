----------------------------- MODULE FileStore -----------------------------
(***************************************************************************)
(* What the RAM disk promises its callers: a map from names to contents.   *)
(* A file is made once per name; making it again uses up room and changes  *)
(* nothing a reader can see.  `out' is the result of the last call.        *)
(***************************************************************************)
EXTENDS Naturals

CONSTANTS Names, Texts, Empty, Room, ClipName(_), ClipText(_)

VARIABLES content, room, out

Call(op, n, ret, text) == out' = [op |-> op, name |-> n, ret |-> ret, text |-> text]

Init == content = << >> /\ room = Room /\ out = [op |-> "none"]

Create(n) ==
    \/ /\ Call("create", n, 0, Empty)
       /\ room > 0
       /\ room' = room - 1
       /\ content' = [k \in DOMAIN content \cup {ClipName(n)} |->
                         IF k \in DOMAIN content THEN content[k] ELSE Empty]
    \/ /\ Call("create", n, 1, Empty)
       /\ room = 0
       /\ UNCHANGED <<content, room>>

Write(n, t) ==
    /\ UNCHANGED room
    /\ \/ /\ Call("write", n, 0, t)
          /\ n \in DOMAIN content
          /\ content' = [content EXCEPT ![n] = ClipText(t)]
       \/ /\ Call("write", n, 1, t)
          /\ n \notin DOMAIN content
          /\ UNCHANGED content

Read(n) ==
    /\ UNCHANGED <<content, room>>
    /\ \/ n \in DOMAIN content /\ Call("read", n, 0, content[n])
       \/ n \notin DOMAIN content /\ Call("read", n, 1, Empty)

Next == \E n \in Names : Create(n) \/ Read(n) \/ \E t \in Texts : Write(n, t)

Spec == Init /\ [][Next]_<<content, room, out>>
=============================================================================
