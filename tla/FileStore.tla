----------------------------- MODULE FileStore -----------------------------
(***************************************************************************)
(* What the file calls promise a program that opens a file once at a time: *)
(* files are sequences of bytes, a read returns the bytes at the offset, a *)
(* write puts its bytes there, or fails with a part of them written.       *)
(* Bytes are numbered in the order they are handed to a write.             *)
(***************************************************************************)
EXTENDS Integers, Sequences

CONSTANTS Name, Fd, MAX_LEN, MAX_OFFSET, NoFile, Closed

VARIABLES
    content,     \* the bytes of a file, or NoFile
    handle,      \* what a descriptor stands for, or Closed
    written,
    reply
vars == <<content, handle, written, reply>>

OK == [ok |-> TRUE, bytes |-> <<>>]
ERR == [ok |-> FALSE, bytes |-> <<>>]

Init ==
    /\ content = [name \in Name |-> NoFile]
    /\ handle = [fd \in Fd |-> Closed]
    /\ written = 0 /\ reply = OK

Open(fd, name) ==
    /\ handle[fd] = Closed /\ handle'[fd] # Closed
    /\ \A other \in Fd : handle[other] # Closed => handle[other].name # name
    /\ reply' = OK
    /\ UNCHANGED written
    /\ content' = [content EXCEPT ![name] = IF @ = NoFile THEN <<>> ELSE @]
    /\ \E offset \in {0, Len(content'[name])}, readable, writable \in BOOLEAN :
          handle' = [handle EXCEPT ![fd] = [name |-> name, offset |-> offset,
                                            readable |-> readable, writable |-> writable]]

\* An open that fails changes no file and takes no descriptor.
OpenFails == reply' = ERR /\ UNCHANGED <<written, handle, content>>

Close(fd) ==
    /\ handle[fd] # Closed
    /\ handle' = [handle EXCEPT ![fd] = Closed]
    /\ reply' = OK
    /\ UNCHANGED <<written, content>>

\* The file with n more bytes put at an offset inside it, or at its end.
Put(bytes, offset, n) ==
    [p \in 1 .. (IF offset + n > Len(bytes) THEN offset + n ELSE Len(bytes)) |->
        IF offset < p /\ p <= offset + n THEN written + p - offset ELSE bytes[p]]

\* The offset moves by what was written, or after a failure no further than asked.
Write(fd, len) ==
    /\ handle[fd] # Closed /\ handle[fd].writable
    /\ written' = written + len
    /\ handle[fd].offset <= Len(content[handle[fd].name])
    /\ \E n \in 0 .. len :
          /\ \/ /\ n = len /\ reply' = OK
                /\ handle' = [handle EXCEPT ![fd].offset = @ + len]
             \/ /\ reply' = ERR
                /\ \E moved \in 0 .. len : handle' = [handle EXCEPT ![fd].offset = @ + moved]
          /\ content' = [content EXCEPT ![handle[fd].name] = Put(@, handle[fd].offset, n)]

WriteRefused(fd) ==
    /\ handle[fd] # Closed
    /\ ~ handle[fd].writable
    /\ reply' = ERR
    /\ UNCHANGED <<written, handle, content>>

Read(fd, len) ==
    /\ handle[fd] # Closed /\ handle[fd].readable
    /\ handle' = [handle EXCEPT ![fd].offset = @ + len]
    /\ reply'.ok /\ Len(reply'.bytes) = len
    /\ LET offset == handle[fd].offset
           bytes == content[handle[fd].name]
       IN /\ offset + len <= Len(bytes)
          /\ reply' = [ok |-> TRUE, bytes |-> SubSeq(bytes, offset + 1, offset + len)]
    /\ UNCHANGED <<written, content>>

ReadRefused(fd, len) ==
    /\ handle[fd] # Closed
    /\ reply' = ERR
    /\ ~ handle[fd].readable \/ handle[fd].offset + len > Len(content[handle[fd].name])
    /\ UNCHANGED <<written, handle, content>>

Seek(fd, offset) ==
    /\ handle[fd] # Closed
    /\ handle' = [handle EXCEPT ![fd].offset = offset]
    /\ reply' = OK
    /\ offset <= Len(content[handle[fd].name])
    /\ UNCHANGED <<written, content>>

Next ==
    \/ OpenFails
    \/ \E fd \in Fd : Close(fd) \/ WriteRefused(fd) \/ \E name \in Name : Open(fd, name)
    \/ \E fd \in Fd, len \in 0 .. MAX_LEN : Write(fd, len) \/ Read(fd, len) \/ ReadRefused(fd, len)
    \/ \E fd \in Fd, offset \in 0 .. MAX_OFFSET : Seek(fd, offset)

Spec == Init /\ [][Next]_vars
============================================================================
