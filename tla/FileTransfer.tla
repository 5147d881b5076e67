---------------------------- MODULE FileTransfer ----------------------------
(***************************************************************************)
(* pbox scp (crates/pbox-cli/src/main.rs) and the agent's put_file and     *)
(* get_file behind it (crates/pbox-agent/src/main.rs): directory copies    *)
(* that upload one file after the other, each by way of a temporary file   *)
(* that replaces the destination, and downloads that replace a local file. *)
(* The file's content is the upload it came from and how many of its parts *)
(* are there.                                                              *)
(***************************************************************************)
EXTENDS Naturals, Sequences, FiniteSets

CONSTANTS
    Uploads,      \* scp commands that copy a local directory to one remote path
    InPlace,      \* the uploads that do not ask for an atomic write
    Files,        \* the files of the directory
    Downloads,    \* scp commands that fetch one of them
    MaxParts,     \* parts of a file: chunks of 8192 bytes
    MaxRestarts,  \* bound: agent restarts
    NoFile        \* no upload, no file

ASSUME TransferAssumption ==
    /\ InPlace \subseteq Uploads
    /\ MaxParts \in Nat \ {0} /\ MaxRestarts \in Nat
    /\ NoFile \notin Uploads \cup Files
    /\ IsFiniteSet(Uploads)

VARIABLES
    sameName,   \* the destination's last component is the source's name
    directory,  \* the destination directory exists
    remote,     \* the files under the destination and under its subdirectory
    temps,      \* the agent's temporary files
    unarmed,    \* the ones that were created and no cleanup armed for them
    uploadId,   \* NEXT_UPLOAD_ID
    upload,     \* each upload: the command, and the agent's handler of its file
    download,   \* each download, likewise
    restarts    \* bounded by MaxRestarts

transferVars ==
    <<sameName, directory, remote, temps, unarmed, uploadId, upload, download, restarts>>

Targets == {"destination", "nested"}
Content == [by : Uploads \cup {NoFile}, parts : 0 .. MaxParts]
Original == [by |-> NoFile, parts |-> MaxParts]
Whole(content) == content.parts = MaxParts

\* The temporary file beside its destination; the process identifier, which a
\* restarted agent may get again, is left out.
Temp(u, id) == [target |-> upload[u].target, file |-> upload[u].file, id |-> id]

Handling == {"open", "receive", "place", "fill", "reply"}

TransferInit ==
    /\ sameName \in BOOLEAN
    /\ directory \in BOOLEAN
    /\ remote = [t \in Targets |-> [f \in Files |-> Original]]
    /\ temps = {}
    /\ unarmed = {}
    /\ uploadId = 0
    /\ upload = [u \in Uploads |-> [at |-> "probe", target |-> "destination", file |-> NoFile,
                                    id |-> 0, parts |-> 0, todo |-> Files]]
    /\ download = [d \in Downloads |-> [at |-> "ask", file |-> NoFile, open |-> FALSE,
                                        content |-> Original, got |-> <<>>, local |-> "old"]]
    /\ restarts = 0

\* The handler of one file is gone, the command goes on or ends; a download that
\* fails has nothing to show for it.
Ended(up, at) == [up EXCEPT !.at = at, !.file = NoFile, !.id = 0, !.parts = 0]
Discarded(down) ==
    [down EXCEPT !.at = "failed", !.file = NoFile, !.open = FALSE, !.content = Original, !.got = <<>>]

Proceeds(u, at) == upload' = [upload EXCEPT ![u].at = at]
----------------------------------------------------------------------------
\* run_scp, upload.

\* remote_directory_target: like cp -r, into the destination if it exists,
\* unless it has the source's name already.
FindsTarget(u) ==
    /\ upload[u].at = "probe"
    /\ upload' = [upload EXCEPT ![u].at = "mkdir",
           ![u].target = IF directory /\ ~sameName THEN "nested" ELSE "destination"]
    /\ UNCHANGED <<sameName, directory, remote, temps, unarmed, uploadId, download, restarts>>

\* create_remote_directory: mkdir -p of the target and of what is below it.
MakesDirectory(u) ==
    /\ upload[u].at = "mkdir"
    /\ directory' = TRUE
    /\ Proceeds(u, "next")
    /\ UNCHANGED <<sameName, remote, temps, unarmed, uploadId, download, restarts>>

\* The next file is read and put_file called; the handler has its temporary file
\* created, which must not exist.
PutsFile(u, f) ==
    LET id == uploadId
        temp == [target |-> upload[u].target, file |-> f, id |-> id]
    IN  /\ upload[u].at = "next" /\ f \in upload[u].todo
        /\ uploadId' = uploadId + 1
        /\ IF temp \in temps
           THEN upload' = [upload EXCEPT ![u] = Ended(@, "failed")] /\ UNCHANGED <<temps, unarmed>>
           ELSE /\ temps' = temps \cup {temp}
                /\ unarmed' = unarmed \cup {temp}
                /\ upload' = [upload EXCEPT ![u].at = "open", ![u].file = f,
                                               ![u].id = id, ![u].parts = 0]
        /\ UNCHANGED <<sameName, directory, remote, download, restarts>>

\* The open has returned: the cleanup is armed.
ArmsCleanup(u) ==
    /\ upload[u].at = "open"
    /\ unarmed' = unarmed \ {Temp(u, upload[u].id)}
    /\ Proceeds(u, "receive")
    /\ UNCHANGED <<sameName, directory, remote, temps, uploadId, download, restarts>>

ReceivesPart(u) ==
    /\ upload[u].at = "receive" /\ upload[u].parts < MaxParts
    /\ upload' = [upload EXCEPT ![u].parts = @ + 1]
    /\ UNCHANGED <<sameName, directory, remote, temps, unarmed, uploadId, download, restarts>>

\* The chunk with the end marker, and the end of the stream behind it.
EndMarker(u) ==
    /\ upload[u].at = "receive" /\ upload[u].parts = MaxParts
    /\ Proceeds(u, "place")
    /\ UNCHANGED <<sameName, directory, remote, temps, unarmed, uploadId, download, restarts>>

\* A download that has the file open keeps the replaced one.
Detached(t, f) ==
    [d \in Downloads |->
        IF download[d].open /\ t = "destination" /\ download[d].file = f
        THEN [download[d] EXCEPT !.open = FALSE, !.content = remote[t][f]]
        ELSE download[d]]

Renames(u) ==
    LET up == upload[u]
    IN  /\ up.at = "place" /\ u \notin InPlace
        /\ remote' = [remote EXCEPT ![up.target][up.file] = [by |-> u, parts |-> up.parts]]
        /\ download' = Detached(up.target, up.file)
        /\ temps' = temps \ {Temp(u, up.id)}
        /\ Proceeds(u, "reply")
        /\ UNCHANGED <<sameName, directory, unarmed, uploadId, restarts>>

\* Without an atomic write the destination is truncated and filled in place.
Truncates(u) ==
    LET up == upload[u]
    IN  /\ up.at = "place" /\ u \in InPlace
        /\ remote' = [remote EXCEPT ![up.target][up.file] = [by |-> u, parts |-> 0]]
        /\ Proceeds(u, "fill")
        /\ UNCHANGED <<sameName, directory, temps, unarmed, uploadId, download, restarts>>

Fills(u) ==
    LET up == upload[u]
        now == remote[up.target][up.file]
    IN  /\ up.at = "fill"
        /\ IF now.by = u /\ now.parts < MaxParts
           THEN /\ remote' = [remote EXCEPT ![up.target][up.file].parts = @ + 1]
                /\ UNCHANGED <<temps, upload>>
           ELSE \* copied, or the open file is no longer the destination
                /\ temps' = temps \ {Temp(u, up.id)}
                /\ Proceeds(u, "reply")
                /\ UNCHANGED remote
        /\ UNCHANGED <<sameName, directory, unarmed, uploadId, download, restarts>>

Replied(u) ==
    /\ upload[u].at = "reply"
    /\ LET todo == upload[u].todo \ {upload[u].file}
       IN  upload' = [upload EXCEPT ![u] =
                         [Ended(@, IF todo = {} THEN "ok" ELSE "next") EXCEPT !.todo = todo]]
    /\ UNCHANGED <<sameName, directory, remote, temps, unarmed, uploadId, download, restarts>>

\* A bad chunk, a stream that ends early or late (the check behind the marker
\* waits ten milliseconds), a full disk, a lost connection or a killed command:
\* the handler's cleanup removes the temporary file and the command fails.  A call
\* that is dropped while it awaits the open has none, and the file stays.
UploadFails(u) ==
    /\ upload[u].at \in {"probe", "mkdir", "next"} \cup Handling
    /\ temps' = IF upload[u].at \in {"receive", "place", "fill"}
                THEN temps \ {Temp(u, upload[u].id)} ELSE temps
    /\ upload' = [upload EXCEPT ![u] = Ended(@, "failed")]
    /\ UNCHANGED <<sameName, directory, remote, unarmed, uploadId, download, restarts>>

\* The agent is killed: no cleanup runs, and the counter starts anew.
AgentDies ==
    /\ restarts < MaxRestarts
    /\ restarts' = restarts + 1
    /\ uploadId' = 0
    /\ upload' = [u \in Uploads |->
                     IF upload[u].at \in Handling THEN Ended(upload[u], "failed") ELSE upload[u]]
    /\ download' = [d \in Downloads |->
                       IF download[d].at = "read" THEN Discarded(download[d]) ELSE download[d]]
    /\ UNCHANGED <<sameName, directory, remote, temps, unarmed>>
----------------------------------------------------------------------------
\* run_scp, download; read_file and collect_file_stream.
GetsFile(d, f) ==
    /\ download[d].at = "ask"
    /\ download' = [download EXCEPT ![d].at = "read", ![d].file = f, ![d].open = TRUE]
    /\ UNCHANGED <<sameName, directory, remote, temps, unarmed, uploadId, upload, restarts>>

Opened(d) == IF download[d].open THEN remote["destination"][download[d].file] ELSE download[d].content

ReadsPart(d) ==
    /\ download[d].at = "read" /\ Len(download[d].got) < Opened(d).parts
    /\ download' = [download EXCEPT ![d].got = Append(@, Opened(d).by)]
    /\ UNCHANGED <<sameName, directory, remote, temps, unarmed, uploadId, upload, restarts>>

\* The end marker: the client has collected the file.
ReadsEnd(d) ==
    /\ download[d].at = "read" /\ Len(download[d].got) >= Opened(d).parts
    /\ download' = [download EXCEPT ![d].at = "write", ![d].open = FALSE]
    /\ UNCHANGED <<sameName, directory, remote, temps, unarmed, uploadId, upload, restarts>>

\* write_download: a temporary file beside the destination, then a rename; a
\* symbolic link or anything else that is not a file is left alone.
ReplacesLocal(d) ==
    /\ download[d].at = "write"
    /\ download' = [download EXCEPT ![d].at = "ok", ![d].local = "new"]
    /\ UNCHANGED <<sameName, directory, remote, temps, unarmed, uploadId, upload, restarts>>

\* The stream breaks before the end marker, or the local write fails and the
\* temporary file is removed.
DownloadFails(d) ==
    /\ download[d].at \in {"read", "write"}
    /\ download' = [download EXCEPT ![d] = Discarded(@)]
    /\ UNCHANGED <<sameName, directory, remote, temps, unarmed, uploadId, upload, restarts>>

TransferNext ==
    \/ \E u \in Uploads :
        \/ FindsTarget(u) \/ MakesDirectory(u)
        \/ \E f \in Files : PutsFile(u, f)
        \/ ArmsCleanup(u) \/ ReceivesPart(u) \/ EndMarker(u)
        \/ Renames(u) \/ Truncates(u) \/ Fills(u) \/ Replied(u) \/ UploadFails(u)
    \/ \E d \in Downloads :
        \/ \E f \in Files : GetsFile(d, f)
        \/ ReadsPart(d) \/ ReadsEnd(d) \/ ReplacesLocal(d) \/ DownloadFails(d)
    \/ AgentDies

TransferSpec == TransferInit /\ [][TransferNext]_transferVars
-----------------------------------------------------------------------------
TransferTypeOK ==
    /\ sameName \in BOOLEAN /\ directory \in BOOLEAN
    /\ remote \in [Targets -> [Files -> Content]]
    /\ temps \cup unarmed \subseteq [target : Targets, file : Files, id : Nat]
    /\ uploadId \in Nat /\ restarts \in 0 .. MaxRestarts
    /\ upload \in [Uploads -> [at : {"probe", "mkdir", "next", "ok", "failed"} \cup Handling,
                               target : Targets, file : Files \cup {NoFile}, id : Nat,
                               parts : 0 .. MaxParts, todo : SUBSET Files]]
    /\ \A d \in Downloads :
        /\ download[d].at \in {"ask", "read", "write", "ok", "failed"}
        /\ download[d].content \in Content
        /\ Len(download[d].got) <= MaxParts

\* No in-place upload can have touched a destination yet.
NothingInPlace ==
    \A u \in InPlace :
        upload[u].at \in {"probe", "mkdir", "next", "open", "receive", "place"} /\ upload[u].todo = Files

\* No reader and no crash sees half of an atomic upload, however uploads to the
\* same path, failures and agent restarts interleave: a file that is not whole
\* was being filled in place; and a download of a file written only atomically
\* is one upload's content from its first part to its last.
NothingTorn ==
    /\ \A t \in Targets, f \in Files :
        Whole(remote[t][f]) \/ remote[t][f].by \in InPlace
    /\ \A d \in Downloads :
        download[d].local = "new" /\ NothingInPlace =>
            /\ Len(download[d].got) = MaxParts
            /\ \A i, j \in 1 .. MaxParts : download[d].got[i] = download[d].got[j]

\* Once its cleanup is armed a temporary file is removed on every way out: the ones
\* that belong to no upload that runs were left by a killed agent, or by a call that
\* was dropped while it opened its file; and two uploads that run never share one.
TempsOwned ==
    LET running == {u \in Uploads : upload[u].at \in Handling \ {"reply"}}
        owned == {Temp(u, upload[u].id) : u \in running}
    IN  /\ owned \subseteq temps
        /\ Cardinality(owned) = Cardinality(running)
        /\ restarts = 0 => temps \ owned \subseteq unarmed

\* A copy that succeeds has put every file into its one target.
CopyComplete ==
    \A u \in Uploads : upload[u].at = "ok" =>
        /\ directory
        /\ \A f \in Files : remote[upload[u].target][f].by # NoFile
=============================================================================
