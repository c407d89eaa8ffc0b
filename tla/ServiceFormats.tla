--------------------------- MODULE ServiceFormats ---------------------------
(***************************************************************************)
(* The wire formats of the SE services: the structures of                  *)
(* services_lib_protocol.h as the compiler of the A32 lays them out, the   *)
(* collections the two clients make of them, and the service ids.          *)
(***************************************************************************)
EXTENDS Integers, Sequences, FiniteSetsExt, SequencesExt

AlignUp(n, a) == ((n + a - 1) \div a) * a

\* A member: its name, the size and alignment of one element, and their number.
Member(name, size, align, n) == [name |-> name, size |-> size * n, align |-> align]
U8(name)  == Member(name, 1, 1, 1)
U16(name) == Member(name, 2, 2, 1)
U32(name) == Member(name, 4, 4, 1)
Bytes(name, n) == Member(name, 1, 1, n)

\* Members in order, each at the next offset that suits its alignment.
Layout(members) ==
    LET Place(l, m) == LET at == AlignUp(l.size, m.align)
                       IN  [size |-> at + m.size, offset |-> Append(l.offset, at)]
    IN  FoldLeft(Place, [size |-> 0, offset |-> << >>], members)

AlignOf(members) == Max({members[k].align : k \in DOMAIN members})
SizeOf(members) == AlignUp(Layout(members).size, AlignOf(members))
OffsetOf(members, name) ==
    Layout(members).offset[CHOOSE k \in DOMAIN members : members[k].name = name]
Nested(name, members) == Member(name, SizeOf(members), AlignOf(members), 1)

-----------------------------------------------------------------------------

service_header_t == <<U16("send_service_id"), U16("send_flags"),
                      U16("resp_error_code"), U16("none_padding")>>

IMAGE_NAME_LENGTH == 8
MAX_RND_LENGTH == 1024

WithHeader(members) == <<Nested("header", service_header_t)>> \o members
U32s(names) == [k \in DOMAIN names |-> U32(names[k])]

get_rnd_svc_t == WithHeader(
    <<U32("send_rnd_length"), Bytes("resp_rnd", MAX_RND_LENGTH), U32("resp_error_code")>>)
get_lcs_svc_t == WithHeader(U32s(<<"resp_lcs", "resp_error_code">>))
mbedtls_crypto_init_svc_t == WithHeader(U32s(<<"send_context_addr">>))
mbedtls_aes_set_key_svc_t == WithHeader(U32s(
    <<"send_context_addr", "send_key_addr", "send_key_bits", "send_direction", "resp_error_code">>))
mbedtls_aes_crypt_svc_t == WithHeader(U32s(
    <<"send_context_addr", "send_crypt_type", "send_mode", "send_length", "send_iv_addr",
      "send_input_addr", "send_output_addr", "resp_error_code">>))
mbedtls_sha_svc_t == WithHeader(U32s(
    <<"send_context_addr", "send_sha_type", "send_data_addr", "send_data_length",
      "resp_error_code">>))
mbedtls_ccm_set_key_svc_t == WithHeader(U32s(
    <<"send_context_addr", "send_cipher", "send_key_addr", "send_key_bits", "resp_error_code">>))
mbedtls_chacha20_crypt_svc_t == WithHeader(U32s(
    <<"send_key_addr", "send_nonce_addr", "send_counter", "send_data_len", "send_input_addr",
      "send_output_addr", "resp_error_code">>))
mbedtls_chachapoly_crypt_svc_t == WithHeader(U32s(
    <<"send_context_addr", "send_mode", "send_length", "send_nonce_addr", "send_aad_addr",
      "send_aad_len", "send_tag_addr", "send_input_addr", "send_output_addr",
      "resp_error_code">>))
mbedtls_poly1305_crypt_svc_t == WithHeader(U32s(
    <<"send_key_addr", "send_input_addr", "send_ilen", "send_mac_addr", "resp_error_code">>))
mbedtls_trng_hardware_poll_svc_t == WithHeader(U32s(
    <<"send_data_addr", "send_output_addr", "send_len", "send_olen_addr", "resp_error_code">>))
process_toc_entry_svc_t == WithHeader(
    <<Bytes("send_entry_id", IMAGE_NAME_LENGTH), U32("resp_error_code")>>)
boot_cpu_svc_t == WithHeader(U32s(<<"send_cpu_id", "send_address", "resp_error_code">>))
control_cpu_svc_t == WithHeader(U32s(<<"send_cpu_id", "resp_error_code">>))
pinmux_svc_t == WithHeader(<<U8("send_port_num"), U8("send_pin_num"), U8("send_config_data"),
                          U8("resp_error_code")>>)
pad_control_svc_t == WithHeader(<<U8("send_port_num"), U8("send_pin_num"),
                               U8("send_config_data"), U8("resp_error_code")>>)
uart_write_svc_t == WithHeader(
    <<U32("string_length"), Bytes("string_contents", 256), U32("resp_error_code")>>)
get_toc_version_svc_t == WithHeader(U32s(<<"resp_version", "resp_error_code">>))
get_toc_number_svc_t == WithHeader(U32s(<<"resp_number_of_toc", "resp_error_code">>))
get_toc_via_name_svc_t == WithHeader(
    <<Bytes("send_cpu_name", IMAGE_NAME_LENGTH), U32("resp_error_code")>>)
get_toc_via_cpu_id_svc_t == WithHeader(
    <<U32("send_cpu_id"), Bytes("resp_image_identifier", IMAGE_NAME_LENGTH)>>
    \o U32s(<<"resp_image_version", "resp_image_flags", "resp_error_code">>))
get_device_part_svc_t == WithHeader(U32s(<<"resp_device_string", "resp_error_code">>))
set_services_capabilities_t == WithHeader(<<U8("services_debug"), U32("resp_error_code")>>)
stop_mode_request_svc_t == WithHeader(
    <<U8("enable"), U8("override"), Bytes("reserved", 2), U32("ewic_wakeup_source")>>)

-----------------------------------------------------------------------------

\* services_se_a32.c: every service has a place of its own.
all_services_svc_t ==
    << Nested("service_header_t", service_header_t),
       Nested("get_rnd", get_rnd_svc_t), Nested("get_lcs", get_lcs_svc_t),
       Nested("crypto_init", mbedtls_crypto_init_svc_t),
       Nested("aes_set_key", mbedtls_aes_set_key_svc_t),
       Nested("aes_crypt", mbedtls_aes_crypt_svc_t), Nested("sha", mbedtls_sha_svc_t),
       Nested("ccm_set_key", mbedtls_ccm_set_key_svc_t),
       Nested("chacha20_crypt", mbedtls_chacha20_crypt_svc_t),
       Nested("chachapoly_crypt", mbedtls_chachapoly_crypt_svc_t),
       Nested("poly1305_crypt", mbedtls_poly1305_crypt_svc_t),
       Nested("trng_hardware_poll", mbedtls_trng_hardware_poll_svc_t),
       Nested("process_toc_entry", process_toc_entry_svc_t),
       Nested("boot_cpu", boot_cpu_svc_t), Nested("control_cpu", control_cpu_svc_t),
       Nested("pinmux", pinmux_svc_t), Nested("pad_control", pad_control_svc_t),
       Nested("uart_write", uart_write_svc_t),
       Nested("get_toc_version", get_toc_version_svc_t),
       Nested("get_toc_number", get_toc_number_svc_t),
       Nested("get_toc_via_name", get_toc_via_name_svc_t),
       Nested("get_toc_via_cpu_id", get_toc_via_cpu_id_svc_t),
       Nested("get_device_part", get_device_part_svc_t),
       Nested("set_services_capabilities", set_services_capabilities_t),
       Nested("stop_mode_request", stop_mode_request_svc_t) >>

\* services_lib_a32.h: the same members, all at offset 0.
UnionSize ==
    AlignUp(Max({all_services_svc_t[k].size : k \in DOMAIN all_services_svc_t}),
            AlignOf(all_services_svc_t))

-----------------------------------------------------------------------------

\* The groups of SERVICE_ID_t that the clients use, each with its first id, and
\* its services in the order of the enumeration.
MAINTENANCE == [start |-> 0,   ids |-> <<"HEARTBEAT", "RTC">>]
APPLICATION == [start |-> 100, ids |-> <<"CLOCK_MANAGEMENT", "PINMUX", "PAD_CONTROL",
                                         "FIRMWARE_VERSION", "UART_WRITE">>]
SYSTEM_MGMT == [start |-> 200, ids |-> <<"GET_TOC_VERSION", "GET_TOC_NUMBER",
                   "GET_TOC_FLAGS", "GET_TOC_VIA_CPU_ID", "GET_TOC_VIA_CPU_NAME",
                   "GET_DEVICE_PART_NUMBER", "SET_CAPABILITIES_DEBUG">>]
CRYPTOCELL  == [start |-> 400, ids |-> <<"GET_RND", "GET_LCS", "AES_INIT", "AES_SET_KEY",
                   "AES_CRYPT", "CCM_SET_KEY", "CCM_CRYPT", "CHACHA20_CRYPT",
                   "CHACHAPOLY_CRYPT", "POLY1305_CRYPT", "SHA_STARTS", "SHA_PROCESS",
                   "SHA_UPDATE", "SHA_FINISH", "TRNG_HARDWARE_POLL">>]

IdIn(group, name) == group.start - 1 + CHOOSE k \in DOMAIN group.ids : group.ids[k] = name
=============================================================================
