----------------------------- MODULE TtyGravity -----------------------------
(***************************************************************************)
(* docs/code/tty-gravity/main.c: a timer draws one line lower each time,   *)
(* through one write request and from a buffer on the stack of update.     *)
(*                                                                         *)
(* The terminal usually takes the text while uv_write runs: what is still  *)
(* to come then is the callback, which libuv makes later in the same turn  *)
(* of the loop, before any timer.  A terminal that is stopped does not     *)
(* take it, and libuv keeps the buffer's address.                          *)
(*                                                                         *)
(* And docs/code/tty/main.c, which writes one line, and before it, to a    *)
(* terminal, its colours.                                                  *)
(***************************************************************************)
EXTENDS UvLoop

CONSTANT Height   \* lines of the terminal

ASSUME TtyAssumption == {"tty", "tick"} \subseteq Handles /\ Height \in Nat

GravityInit ==
  Begin("tty-gravity", {"tty", "tick", "write_req"},
        [pos |-> 0, mode |-> "set"], [drawn |-> 0, mishap |-> {}])

\* When uv_tty_get_winsize fails main resets the terminal and returns.  That
\* uv_tty_init may fail is not looked at: nothing is defined of the size of a tty
\* that is none, nor of writing to it.
GravityMain ==
  /\ Setup("tty-gravity")
  /\ \/ /\ stage' = "loop"
        /\ handle' = [Turn({"tty"}, "idle") EXCEPT !["tick"] = "active"]
        /\ UNCHANGED <<own, world>>
     \/ /\ stage' = "failed"
        /\ handle' \in {handle, Turn({"tty"}, "idle")}
        /\ own' = [own EXCEPT !.mode = "reset"]
        /\ UNCHANGED world
     \/ /\ stage' = "crashed"
        /\ world' = Mishap("not_a_terminal")
        /\ UNCHANGED <<handle, own>>
  /\ UNCHANGED <<program, pending, memory>>

\* pos > height after pos++: one line more than the terminal has.
LastLine == own.pos + 1 > Height

\* The end of update: the next line, or the end of the animation.
Advance ==
  /\ own' = [pos |-> own.pos + 1,
             mode |-> IF LastLine THEN "reset" ELSE own.mode]
  /\ handle' = IF LastLine THEN Turn({"tick"}, "idle") ELSE handle
  /\ UNCHANGED <<program, stage, memory>>

Ticking == InLoop("tty-gravity") /\ handle["tick"] = "active"

\* The text is drawn; the callback of the request is to come.
Update ==
  /\ Ticking /\ pending = <<>>
  /\ pending' = <<Request(Object("write_req"), "tty", Object("tty"))>>
  /\ world' = [world EXCEPT !.drawn = @ + 1]
  /\ Advance

\* The terminal does not take the text: data is gone when update returns,
\* and libuv, when it tries again, reads what is there then.  The next tick
\* submits write_req a second time; nothing is defined, nor modelled, of
\* what follows.
UpdateBlocked ==
  /\ Ticking
  /\ IF NoMishap THEN pending = <<>> ELSE Len(pending) = 1
  /\ pending' = Append(pending,
                  Request(Object("write_req"), "tty", Object("data")))
  /\ world' = Mishap("tty_stopped")
  /\ Advance

WriteDone ==
  /\ InLoop("tty-gravity") /\ Len(pending) = 1
  /\ pending' = <<>>
  /\ UNCHANGED <<program, stage, handle, memory, own, world>>

-----------------------------------------------------------------------------
(* tty.                                                                    *)

TtyInit == Begin("tty", {"tty", "req"}, [mode |-> "normal"], [mishap |-> {}])

TtyWrite(req) == Request(Object(req), "tty", Object("tty"))

\* Nothing is looked at.  The request of the first write, which is for a
\* terminal only, is declared in a block that ends before uv_run calls back,
\* and a file cannot be a uv_tty_t: of both nothing is defined.
TtyMain ==
  /\ Setup("tty")
  /\ handle' = Turn({"tty"}, "idle")
  /\ own' = [mode |-> "reset"]
  /\ \/ /\ stage' = "loop"
        /\ pending' = <<TtyWrite("req")>>
        /\ UNCHANGED world
     \/ /\ stage' = "loop"
        /\ pending' = <<TtyWrite("inner_req"), TtyWrite("req")>>
        /\ world' = Mishap("block_ended")
     \/ /\ stage' = "crashed"
        /\ world' = Mishap("not_a_terminal")
        /\ UNCHANGED pending
  /\ UNCHANGED <<program, memory>>

TtyWriteDone ==
  /\ InLoop("tty") /\ NoMishap /\ pending # <<>>
  /\ pending' = Tail(pending)
  /\ UNCHANGED <<program, stage, handle, memory, own, world>>

GravityWorld == UpdateBlocked

GravityStep ==
  \/ GravityMain \/ Update \/ WriteDone
  \/ TtyMain \/ TtyWriteDone

-----------------------------------------------------------------------------

\* At the end every line was drawn once and the terminal was reset.
GravityComplete ==
  /\ own.pos = Height + 1 /\ own.mode = "reset"
  /\ NoMishap => world.drawn = own.pos

=============================================================================
