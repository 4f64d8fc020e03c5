------------------------------ MODULE Plugins ------------------------------
(***************************************************************************)
(* How drivers, ciphers and initial vectors are found (main.c,             *)
(* get_crypt_alg and get_iv in bdev/dmcrypt/dmcrypt.c): a name is looked   *)
(* up in the array of what is registered; if it is not there, the shared   *)
(* object of that name is loaded, whose constructor registers what it has, *)
(* and the name is looked up again.  When the program ends the destructors *)
(* deregister it.  The arrays are those of bdev/bdev.c, crypt/crypt.c and  *)
(* bdev/dmcrypt/iv/iv.c.                                                   *)
(***************************************************************************)
EXTENDS Naturals, Sequences

CONSTANT MaxLoads    \* bound: names that are asked for

VARIABLES dev, st

\* What an object registers.  The files aes128.so, aes192.so and aes256.so are
\* links to aes.so; the object in twofish.so does not have what its file says.
Objects == [aes     |-> [kind |-> "alg", names |-> <<"aes128", "aes192", "aes256">>],
            twofish |-> [kind |-> "alg", names |-> <<"aes192">>],
            plain   |-> [kind |-> "iv", names |-> <<"plain">>],
            null    |-> [kind |-> "iv", names |-> <<"null">>],
            dmcrypt |-> [kind |-> "driver", names |-> <<"dmcrypt">>]]
Files == [aes128 |-> "aes", aes192 |-> "aes", aes256 |-> "aes", twofish |-> "twofish",
          plain |-> "plain", null |-> "null", dmcrypt |-> "dmcrypt"]
KindOf(file) == Objects[Files[file]].kind

Init ==
    /\ dev = [driver |-> "plugins"]
    /\ st = [pc |-> "idle", asked |-> 0, want |-> "none", loaded |-> <<>>, initialized |-> {},
             list |-> [k \in {"alg", "iv", "driver"} |-> <<>>], held |-> {}, todo |-> <<>>]

Go(s) == st' = s /\ UNCHANGED dev

Found(kind, name) == \E k \in DOMAIN st.list[kind] : st.list[kind][k].name = name
\* crypt_lookup_alg, dm_crypt_lookup_iv, bdev_lookup_driver: the first of that name.
Lookup(kind, name) ==
    LET l == st.list[kind]
    IN  l[CHOOSE k \in DOMAIN l : l[k].name = name /\ \A j \in 1..k - 1 : l[j].name # name]

\* What the register functions add for an object, of which lost has no memory.
Added(o, lost) ==
    SelectSeq(Objects[o].names, LAMBDA n : ~Found(Objects[o].kind, n) /\ n \notin lost)

\* The last one is moved to where the one that goes was.
Removed(l, k) == SubSeq([l EXCEPT ![k] = l[Len(l)]], 1, Len(l) - 1)
Position(l, e) == CHOOSE k \in DOMAIN l : l[k] = e

Ask ==
    /\ st.pc = "idle" /\ st.asked < MaxLoads
    /\ \E name \in DOMAIN Files :
         LET s == [st EXCEPT !.asked = @ + 1, !.want = name]
         IN  Go(IF Found(KindOf(name), name)
                THEN [s EXCEPT !.held = @ \cup {Lookup(KindOf(name), name)}]
                ELSE [s EXCEPT !.pc = "load"])

\* main ends the program, the others their init, if the name is not found.
Refused(s) == [s EXCEPT !.pc = IF KindOf(s.want) = "driver" THEN "exit" ELSE "idle"]

\* dlopen; an object that is there already is not initialised again.
Load ==
    /\ st.pc = "load"
    /\ LET o == Files[st.want]
       IN  \/ Go(Refused(st))
           \/ /\ \E k \in DOMAIN st.loaded : st.loaded[k] = o
              /\ Go([st EXCEPT !.pc = "again"])
           \/ /\ \A k \in DOMAIN st.loaded : st.loaded[k] # o
              /\ Go([st EXCEPT !.pc = "init", !.loaded = Append(@, o)])

\* The constructor registers one name after the other, as far as they are not
\* taken and there is memory.
Construct ==
    /\ st.pc = "init"
    /\ LET o    == Files[st.want]
           kind == Objects[o].kind
       IN  \E lost \in IF kind = "alg" THEN SUBSET {"aes128", "aes192", "aes256"} ELSE {{}} :
             LET new == Added(o, lost)
                 s   == [st EXCEPT !.list[kind] =
                           @ \o [k \in DOMAIN new |-> [name |-> new[k], owner |-> o]]]
             IN  Go(IF new = Objects[o].names
                    THEN [s EXCEPT !.initialized = @ \cup {o}, !.pc = "again"]
                    ELSE [s EXCEPT !.todo = new, !.pc = "undo"])

\* If not all could be registered none is.
Undo ==
    /\ st.pc = "undo"
    /\ LET o    == Files[st.want]
           kind == Objects[o].kind
       IN  Go(IF st.todo = <<>> THEN [st EXCEPT !.pc = "again"]
              ELSE [st EXCEPT !.todo = Tail(@),
                              !.list[kind] = Removed(@, Position(@, [name |-> Head(st.todo), owner |-> o]))])

LookUpAgain ==
    /\ st.pc = "again"
    /\ Go(IF Found(KindOf(st.want), st.want)
          THEN [st EXCEPT !.pc = "idle", !.held = @ \cup {Lookup(KindOf(st.want), st.want)}]
          ELSE Refused(st))

Leave == st.pc = "idle" /\ Go([st EXCEPT !.pc = "exit"])

\* The destructors, the last object first; only what was initialised deregisters.
NextDestructor ==
    /\ st.pc = "exit" /\ st.loaded # <<>>
    /\ LET o == st.loaded[Len(st.loaded)]
       IN  Go([st EXCEPT !.pc = "fini", !.todo = IF o \in st.initialized THEN Objects[o].names ELSE <<>>])

\* A cipher is deregistered by its address, the others by name.
Deregister ==
    /\ st.pc = "fini"
    /\ LET n    == Len(st.loaded)
           o    == st.loaded[n]
           kind == Objects[o].kind
           l    == st.list[kind]
           e    == IF kind = "alg" THEN [name |-> Head(st.todo), owner |-> o]
                   ELSE Lookup(kind, Head(st.todo))
       IN  Go(IF st.todo = <<>>
              THEN [st EXCEPT !.pc = "exit", !.loaded = SubSeq(@, 1, n - 1), !.initialized = @ \ {o}]
              ELSE [st EXCEPT !.todo = Tail(@), !.list[kind] = Removed(l, Position(l, e))])

Next == \/ Ask \/ Load \/ Construct \/ Undo \/ LookUpAgain \/ Leave
        \/ NextDestructor \/ Deregister

\* A name is registered once, by an object that has all of its names there or is
\* on its way out; what somebody was given stays until the program ends, and
\* nothing is left behind then.
Right ==
    LET all == UNION {{st.list[k][i] : i \in DOMAIN st.list[k]} : k \in DOMAIN st.list}
    IN  /\ \A e, f \in all : e.name = f.name => e = f
        /\ st.pc \in {"idle", "load", "again"} =>
             /\ st.held \subseteq all
             /\ {e.owner : e \in all} = st.initialized
             /\ \A o \in st.initialized : \A i \in DOMAIN Objects[o].names :
                  [name |-> Objects[o].names[i], owner |-> o] \in all
        /\ st.pc = "exit" /\ st.loaded = <<>> => all = {}
=============================================================================
