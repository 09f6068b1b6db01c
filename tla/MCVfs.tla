------------------------------- MODULE MCVfs -------------------------------
(***************************************************************************)
(* Three volumes, two devices, two archives.                               *)
(***************************************************************************)
EXTENDS Vfs, TLC

M(name, type, length, size) == [name |-> name, type |-> type, length |-> length, size |-> size]

\* A directory after its file, a file of one block and one byte, a file that
\* fills its block, an empty one, a path through a file; and an archive without
\* a root.
McArchives ==
  << << M(<<"d", "/", "f">>, "0", 513, <<0, 1, 0, 0, 1>>),
        M(<<".", "/">>, "5", 0, <<0>>),
        M(<<".", "/", "g">>, "0", 512, <<1, 0, 0, 0>>),
        M(<<"/", "d", "/">>, "5", 0, <<>>),
        M(<<"g", "/", "f">>, "0", 0, <<0>>) >>,
     << M(<<"g">>, "0", 1, <<1>>) >> >>

McDevices ==
  << [name |-> <<"null">>, flags |-> VN_FCHARDEV, ops |-> {"open", "close", "read", "write"}],
     [name |-> <<"clock">>, flags |-> VN_FCHARDEV, ops |-> {"open", "close", "read"}] >>

McDrivers == <<1>>

McModules == { <<[string |-> "ramdisk", archive |-> 1]>>,
               <<[string |-> "other", archive |-> 2], [string |-> "ramdisk", archive |-> 1]>> }

McMountCalls == { [family |-> "devfs", name |-> <<"INITRD">>, archive |-> 0],
                  [family |-> "rootfs", name |-> <<"INITRD">>, archive |-> 0],
                  [family |-> "tarfs", name |-> <<"INITRD">>, archive |-> 1],
                  [family |-> "tarfs", name |-> <<"DEV">>, archive |-> 2] }

McDevNames == {<<"null">>}
McVolNames == {<<"ROOT">>, <<"DEV">>, <<"INITRD">>}

McPaths == { <<"DEV", ":", "/">>, <<"DEV", ":", "/", "null">>, <<"DEV", ":", "/", "null", "/", "f">>,
             <<"ROOT", ":", "/", "DEV">>, <<"ROOT", ":">>, <<"INITRD">>,
             <<"INITRD", ":", "/", "d", "/", "f">>, <<"INITRD", ":", "/", "g">>,
             <<"INITRD", ":", "/", "g", "/", "f">>, <<"INITRD", ":", "/", "x", "/", "f">>,
             <<"INITRD", ":", "/", "d", "/">>, <<"DEV", ":", "/", "g">> }

McClientPaths == { <<"DEV", ":", "/">>, <<"DEV", ":", "/", "null">>,
                   <<"INITRD", ":", "/", "d", "/", "f">> }

McLosses == {{}, {4}}

McSymmetry == Permutations(Vols)
=============================================================================
