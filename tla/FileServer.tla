------------------------------ MODULE FileServer ------------------------------
(* components/FileServer: server.c, a component with one thread of its own,     *)
(* opens, reads, seeks and closes files of an archive for its clients, and      *)
(* libFileServer-client/fsclient.c puts its calls under a client's system       *)
(* calls. What is read passes through a buffer that the two share.              *)
(* Outside the repository: the C library's table of fds, which the server       *)
(* extends by the client that opened each. A client is one thread.              *)
EXTENDS SingleThreaded, FiniteSetsExt

CONSTANTS
    Fds,        \* the fds the C library gives out
    FileLen,    \* the length of the file
    BufSize,    \* of the shared buffer
    Counts      \* how much a client asks for at once

ASSUME FilesAssumption ==
    /\ Fds \subseteq Nat /\ FileLen \in Nat
    /\ BufSize \in Nat \ {0} /\ Counts \subseteq Nat \ {0}

VARIABLES
    fd_table,   \* per fd: Closed, or the client's badge and the offset
    ext_buf,    \* per client: the shared buffer
    fd_user,    \* history, per fd: the thread whose call reached it last
    fds,        \* per thread: the fds it has open
    reading     \* per thread: where its read() stands, or None

fileVars == <<fd_table, ext_buf, fd_user, fds, reading>>

Closed == [client |-> 0, offset |-> 0]
File == [n \in 1..FileLen |-> n]

FileInit ==
    /\ fd_table = [f \in Fds |-> Closed]
    /\ ext_buf = [t \in Threads |-> <<>>]
    /\ fd_user = [f \in Fds |-> None]
    /\ fds = [t \in Threads |-> {}]
    /\ reading = [t \in Threads |-> None]

FileTypeOK ==
    /\ fd_table \in [Fds -> [client : Badges("fs") \cup {0}, offset : 0..FileLen]]
    /\ \A t \in Threads : ext_buf[t] \in Seq(1..FileLen) /\ Len(ext_buf[t]) <= BufSize
    /\ fd_user \in [Fds -> Threads \cup {None}]
    /\ fds \in [Threads -> SUBSET Fds]

-------------------------------------------------------------------------------
(* server.c. fs_ctrl_get_sender_id is the caller's badge.                       *)
fs_sender == interface_badge'["fs"]
FreeFds == {f \in Fds : fd_table[f] = Closed}

\* Mutant: any open fd will do.
validate_any_fd(f, client) == f \in Fds /\ fd_table[f] # Closed
validate_client_fd(f, client) == f \in Fds /\ fd_table[f] # Closed /\ fd_table[f].client = client

(* fs_ctrl_open. The file may be missing, all fds in use, or there is no memory *)
(* for the client's badge, and the fd is closed again.                          *)
fs_open ==
    /\ Receives("fs", "open") /\ handle_message("fs")
    /\ LET t == Caller("fs") IN
       \/ ReplyRecv("fs", -1) /\ UNCHANGED <<fd_table, fd_user>>
       \/ LET f == Min(FreeFds) IN
          /\ FreeFds # {}
          /\ fd_table' = [fd_table EXCEPT ![f] = [client |-> fs_sender, offset |-> 0]]
          /\ fd_user' = [fd_user EXCEPT ![f] = t]
          /\ ReplyRecv("fs", f)
    /\ UNCHANGED <<ext_buf, fds, reading>>

(* fs_ctrl_seek.                                                                *)
fs_seek ==
    /\ Receives("fs", "seek") /\ handle_message("fs")
    /\ LET t == Caller("fs")
           f == msg[t].fd
       IN  IF validate_client_fd(f, fs_sender)
           THEN /\ fd_table' = [fd_table EXCEPT ![f].offset = msg[t].offset]
                /\ fd_user' = [fd_user EXCEPT ![f] = t]
                /\ ReplyRecv("fs", msg[t].offset)
           ELSE ReplyRecv("fs", -1) /\ UNCHANGED <<fd_table, fd_user>>
    /\ UNCHANGED <<ext_buf, fds, reading>>

(* fs_ctrl_read: no more than the buffer holds, into the buffer of the caller.  *)
\* Mutant: the size of the shared buffer is not checked.
Readable_unbounded(f, size) == Min({size, FileLen - fd_table[f].offset})
Readable(f, size) == Min({size, BufSize, FileLen - fd_table[f].offset})

fs_read ==
    /\ Receives("fs", "read") /\ handle_message("fs")
    /\ LET t == Caller("fs")
           f == msg[t].fd
           client == buf("fs", fs_sender)
       IN  IF validate_client_fd(f, fs_sender)
           THEN LET n == Readable(f, msg[t].size)
                    at == fd_table[f].offset
                IN  /\ ext_buf' = [ext_buf EXCEPT ![client] = SubSeq(File, at + 1, at + n)]
                    /\ fd_table' = [fd_table EXCEPT ![f].offset = at + n]
                    /\ fd_user' = [fd_user EXCEPT ![f] = t]
                    /\ ReplyRecv("fs", n)
           ELSE ReplyRecv("fs", -1) /\ UNCHANGED <<fd_table, fd_user, ext_buf>>
    /\ UNCHANGED <<fds, reading>>

(* fs_ctrl_close.                                                               *)
fs_close ==
    /\ Receives("fs", "close") /\ handle_message("fs")
    /\ LET t == Caller("fs")
           f == msg[t].fd
       IN  IF validate_client_fd(f, fs_sender)
           THEN /\ fd_table' = [fd_table EXCEPT ![f] = Closed]
                /\ fd_user' = [fd_user EXCEPT ![f] = t]
                /\ ReplyRecv("fs", 0)
           ELSE ReplyRecv("fs", -1) /\ UNCHANGED <<fd_table, fd_user>>
    /\ UNCHANGED <<ext_buf, fds, reading>>

FileServerNext == fs_open \/ fs_seek \/ fs_read \/ fs_close

-------------------------------------------------------------------------------
(* The clients: system calls of one thread each. They may be made on an fd that *)
(* another client has open.                                                     *)
Read(f, size) == [iface |-> "fs", op |-> "read", fd |-> f, size |-> size]

FileCalls(t) ==
    {[iface |-> "fs", op |-> "open"]}
    \cup {[iface |-> "fs", op |-> "seek", fd |-> f, offset |-> n] : f \in Fds, n \in 0..FileLen}
    \cup {[iface |-> "fs", op |-> "close", fd |-> f] : f \in Fds}

(* fileserver_close: whatever the answer, the fd is no longer used.             *)
FileCall(t) ==
    \E m \in FileCalls(t) :
        /\ Call(t, m)
        /\ fds' = IF m.op = "close" THEN [fds EXCEPT ![t] = @ \ {m.fd}] ELSE fds
        /\ UNCHANGED <<fd_table, ext_buf, fd_user, reading>>

(* fileserver_read, and a vector of fileserver_readv: the first call. The offset *)
(* that the file has then is kept for the properties.                           *)
StartRead(t, f, count) ==
    /\ Call(t, Read(f, count))
    /\ reading' = [reading EXCEPT ![t] =
                      [fd |-> f, count |-> count, from |-> fd_table[f].offset, buf |-> <<>>]]
    /\ UNCHANGED <<fd_table, ext_buf, fd_user, fds>>

(* memcpy out of the shared buffer. (Nothing reads it again before the next     *)
(* answer fills it; here it is emptied at once.)                                *)
Copied(t) == IF ret[t] <= 0 THEN reading[t].buf
             ELSE reading[t].buf \o SubSeq(ext_buf[t], 1, ret[t])

(* Another round, for what remains.                                             *)
Remain(t) == reading[t].count - Len(Copied(t))

ReadMore(t) ==
    /\ HasAnswer(t) /\ reading[t] # None
    /\ ret[t] > 0 /\ Len(Copied(t)) < reading[t].count
    /\ msg' = [msg EXCEPT ![t] = Read(reading[t].fd, Remain(t))]
    /\ ret' = [ret EXCEPT ![t] = None]
    /\ endpoint' = [endpoint EXCEPT !["fs"] = Append(@, t)]
    /\ reading' = [reading EXCEPT ![t].buf = Copied(t)]
    /\ ext_buf' = [ext_buf EXCEPT ![t] = <<>>]
    /\ UNCHANGED <<reply_cap, interface_badge, fd_table, fd_user, fds>>

(* The end: all is read, or a call read nothing or failed; the total is         *)
(* returned.                                                                    *)
EndsRead(t) ==
    /\ HasAnswer(t) /\ reading[t] # None
    /\ ret[t] <= 0 \/ Len(Copied(t)) >= reading[t].count

ReadReturn(t) ==
    /\ EndsRead(t)
    /\ Return(t)
    /\ reading' = [reading EXCEPT ![t] = None]
    /\ ext_buf' = [ext_buf EXCEPT ![t] = <<>>]
    /\ UNCHANGED <<fd_table, fd_user, fds>>

FileReturn(t) ==
    /\ Return(t) /\ msg[t].iface = "fs" /\ reading[t] = None
    /\ fds' = IF msg[t].op = "open" /\ ret[t] # -1
              THEN [fds EXCEPT ![t] = @ \cup {ret[t]}] ELSE fds
    /\ UNCHANGED <<fd_table, ext_buf, fd_user, reading>>

FileClient(t) ==
    \/ FileCall(t)
    \/ \E f \in Fds, count \in Counts : StartRead(t, f, count)
    \/ ReadMore(t)
    \/ ReadReturn(t)
    \/ FileReturn(t)
===============================================================================
