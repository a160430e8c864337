------------------------ MODULE DevicePathToTextError ------------------------
(***************************************************************************)
(* The values the text conversion returns: crate::Error<Data> of           *)
(* uefi/src/result/error.rs, the DevicePathToTextError variants of         *)
(* uefi/src/proto/device_path/mod.rs, and Ok(CString16).  A status is one  *)
(* of the names the firmware returns; a text is which conversion made it.  *)
(***************************************************************************)

None == "None"
NoResult == [kind |-> None]

(* crate::Error<Data> with Error::new, Error::status, Error::split and   *)
(* From<Status>.                                                          *)
ErrorNew(status, data) == [status |-> status, data |-> data]
ErrStatus(e) == e.status
ErrSplit(e) == <<e.status, e.data>>
ErrorFromStatus(status) == ErrorNew(status, "()")

(* The variants of DevicePathToTextError, and Ok(CString16). *)
TextErrorKinds ==
  {"CantLocateHandleBuffer", "NoHandle", "CantOpenProtocol", "OutOfMemory"}
WithError(kind, e) == [kind |-> kind, err |-> e]
Plain(kind) == [kind |-> kind]
Ok(text) == [kind |-> "Ok", text |-> text]

(* core::error::Error::source for DevicePathToTextError. *)
ErrorSource(r) ==
  IF r.kind \in {"CantLocateHandleBuffer", "CantOpenProtocol"} THEN r.err ELSE None

=============================================================================
