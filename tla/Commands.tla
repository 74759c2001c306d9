------------------------------ MODULE Commands ------------------------------
(***************************************************************************)
(* The command line parser of src/libcmd/cmd.cpp: the list of commands and *)
(* parseCmd on an argument list.  Of a long argument the pieces between    *)
(* its '=' signs are kept, of any other one what kind it is; the value of  *)
(* a command is the number of the argument it was copied from, Default if  *)
(* it still has the registered one.  A registration is what registerCmd is *)
(* called with; given tells whether key, short key and help are all there. *)
(***************************************************************************)
EXTENDS Text, FiniteSets

Default == 0

Long(pieces) == [kind |-> "long", pieces |-> pieces]
Short(skey) == [kind |-> "short", skey |-> skey]
Plain == [kind |-> "plain"]

(* A registered default: the null pointer, or a text.  One that is given   *)
(* as an unsigned long or int is the text of the int that it becomes. *)
Null == <<>>
AText(text) == <<text>>
AsInt(n) == ((n + IntMax + 1) % (2 * IntMax + 2)) - (IntMax + 1)
NumberText(n) == AText(IToA(AsInt(n)))

NewCmd(reg) ==
    [key |-> reg.key, skey |-> reg.skey, required |-> reg.required, found |-> FALSE,
     value |-> Default, default |-> reg.default]

-----------------------------------------------------------------------------
(* registerCmd throws when something is missing; options of a known key    *)
(* are overwritten (a null default by an empty text), its found flag       *)
(* stays; getCmdbyKey finds a key the same way. *)
WithKey(cmds, key) == {c \in DOMAIN cmds : cmds[c].key = key}
Overwritten(cmd, reg) ==
    [NewCmd(reg) EXCEPT !.found = cmd.found,
                        !.default = IF reg.default = Null THEN AText(<<>>) ELSE reg.default]
RegisterCmd(cmds, reg) ==
    LET same == WithKey(cmds, reg.key)
    IN  CASE ~reg.given -> cmds
          [] reg.given /\ same = {} -> Append(cmds, NewCmd(reg))
          [] OTHER -> [c \in DOMAIN cmds |->
                          IF c \in same THEN Overwritten(cmds[c], reg) ELSE cmds[c]]

CheckRequired(cmds) == \A c \in DOMAIN cmds : cmds[c].required => cmds[c].found

-----------------------------------------------------------------------------
(* The key of a long argument ends at its last '='; what is behind it is   *)
(* the value, if there is an '=' and anything behind it. *)
KeyOf(arg) == IF Len(arg.pieces) = 1 THEN arg.pieces ELSE Front(arg.pieces)
HasValue(arg) == Len(arg.pieces) > 1 /\ Last(arg.pieces) # ""

ParseLongOnce(cmds, argv, i) ==     \* mutant: the first value stays
    [c \in DOMAIN cmds |->
        IF cmds[c].key # KeyOf(argv[i]) THEN cmds[c]
        ELSE [cmds[c] EXCEPT !.found = TRUE,
                             !.value = IF HasValue(argv[i]) /\ @ = Default THEN i ELSE @]]
ParseLong(cmds, argv, i) ==
    [c \in DOMAIN cmds |->
        IF cmds[c].key # KeyOf(argv[i]) THEN cmds[c]
        ELSE [cmds[c] EXCEPT !.found = TRUE, !.value = IF HasValue(argv[i]) THEN i ELSE @]]

(* Every command with a short key takes one more argument, as long as      *)
(* there are any: the one after it goes to the first of them. *)
Sharing(cmds, skey, last) == {c \in 1 .. last : cmds[c].skey = skey}
ParseShort(cmds, argv, i) ==
    LET skey == argv[i].skey
        taken(c) == i + Cardinality(Sharing(cmds, skey, c))
    IN  [c \in DOMAIN cmds |->
            IF cmds[c].skey # skey THEN cmds[c]
            ELSE [cmds[c] EXCEPT !.found = TRUE,
                                 !.value = IF taken(c) <= Len(argv) THEN taken(c) ELSE @]]

(* One turn of the loop over the arguments, which ends at the first plain  *)
(* one: the commands and the number of the next argument. *)
ParseOne(st, argv) ==
    LET arg == argv[st.next]
    IN  CASE st.next > Len(argv) \/ arg.kind = "plain" -> st
          [] st.next <= Len(argv) /\ arg.kind = "long" ->
                [cmds |-> ParseLong(st.cmds, argv, st.next), next |-> st.next + 1]
          [] OTHER ->
                [cmds |-> ParseShort(st.cmds, argv, st.next),
                 next |-> st.next + 1 + Cardinality(Sharing(st.cmds, arg.skey, Len(st.cmds)))]
ParseCmd(cmds, argv) ==
    LET st[k \in 0 .. Len(argv)] ==
            IF k = 0 THEN [cmds |-> cmds, next |-> 1] ELSE ParseOne(st[k - 1], argv)
    IN  st[Len(argv)].cmds
=============================================================================
